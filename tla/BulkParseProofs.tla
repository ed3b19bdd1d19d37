---------------------------- MODULE BulkParseProofs ----------------------------
(***************************************************************************)
(* Proofs about BulkParse.  TypeInvariant is about all inputs: the stack   *)
(* of calls, the objects and the noted records are what the tables say.    *)
(* The rest is about the inputs that are encoded (Encoding): the functions *)
(* and the loops step from part to part of the message as it was written,  *)
(* so no function reads behind its end (FramesNest), shifts a byte too far *)
(* (NoWideShift) or returns too early (ReturnsAtEnd).                      *)
(***************************************************************************)
EXTENDS Encoding, Sums, SequenceTheorems

--------------------------------------------------------------------------------
(* Varints.                                                                    *)

Seekers == [curr : Nat, end : Nat]

\* The bits of the bytes from p to i.
Groups(bytes, p, i) ==
  UNION {{7 * (k - p) + b : b \in ByteAt(bytes, k) \ {7}} : k \in p .. i}

Stop(bytes, p, end) == {i \in p .. end - 1 : 7 \notin ByteAt(bytes, i)}

\* The last byte that is read.
Final(bytes, p, end) ==
  IF Stop(bytes, p, end) = {} THEN end - 1 ELSE Min(Stop(bytes, p, end))

\* What the reader makes of the bytes up to q, the one that it reads last.
ReadsUpTo(bytes, s, w, r, q) ==
  /\ r.ok <=> Stop(bytes, s.curr, s.end) # {}
  /\ r.seek = [curr |-> IF s.curr .. q = {} THEN s.curr ELSE Max(s.curr .. q) + 1, end |-> s.end]
  /\ r.value = Groups(bytes, s.curr, q) \cap 0 .. w - 1
  /\ r.wide <=> \E i \in s.curr .. q : 7 * (i - s.curr) >= w

\* Varint, part by part.
LEMMA VarintIs ==
  ASSUME NEW bytes, NEW s \in Seekers, NEW w, NEW r, r = Varint(bytes, s, w)
  PROVE  ReadsUpTo(bytes, s, w, r, Final(bytes, s.curr, s.end))
         /\ r.ok \in BOOLEAN /\ r.wide \in BOOLEAN
  <1> DEFINE q == Final(bytes, s.curr, s.end)
  <1>1. /\ r.ok = (Stop(bytes, s.curr, s.end) # {})
        /\ r.seek = [s EXCEPT !.curr = IF s.curr .. q = {} THEN s.curr ELSE Max(s.curr .. q) + 1]
        /\ r.value = Groups(bytes, s.curr, q) \cap 0 .. w - 1
        /\ r.wide = (\E i \in s.curr .. q : 7 * (i - s.curr) >= w)
    BY DEF Varint, Seekers, Final, Stop, Groups
  <1> HIDE DEF q
  <1>2. s = [curr |-> s.curr, end |-> s.end]
    BY DEF Seekers
  <1>3. r.seek = [curr |-> IF s.curr .. q = {} THEN s.curr ELSE Max(s.curr .. q) + 1, end |-> s.end]
    <2>1. r.seek = [s EXCEPT !.curr = IF s.curr .. q = {} THEN s.curr ELSE Max(s.curr .. q) + 1]
      BY <1>1
    <2>2. QED
      BY <1>2, <2>1
  <1>4. r.ok \in BOOLEAN /\ (r.ok <=> Stop(bytes, s.curr, s.end) # {})
    BY <1>1, Zenon
  <1>5. r.wide \in BOOLEAN /\ (r.wide <=> \E i \in s.curr .. q : 7 * (i - s.curr) >= w)
    BY <1>1, Zenon
  <1>6. QED
    BY <1>1, <1>3, <1>4, <1>5, Zenon DEF ReadsUpTo, q

\* A varint that is there ends behind its first byte and before the end; one that
\* is not is read to the end.
LEMMA VarintTyped ==
  ASSUME NEW bytes, NEW s \in Seekers, NEW w \in Nat, NEW r, r = Varint(bytes, s, w)
  PROVE  /\ r.ok \in BOOLEAN /\ r.wide \in BOOLEAN
         /\ r.seek \in Seekers /\ r.seek.end = s.end
         /\ r.value \in SUBSET (0 .. w - 1)
         /\ r.seek.curr >= s.curr
         /\ r.ok => s.curr < r.seek.curr /\ r.seek.curr <= s.end
  <1> DEFINE q == Final(bytes, s.curr, s.end)
             S == Stop(bytes, s.curr, s.end)
  <1>1. s.curr \in Nat /\ s.end \in Nat /\ s = [curr |-> s.curr, end |-> s.end]
    BY DEF Seekers
  <1>2. ReadsUpTo(bytes, s, w, r, q) /\ r.ok \in BOOLEAN /\ r.wide \in BOOLEAN
    BY VarintIs
  <1>3. S \in SUBSET Nat
    BY <1>1 DEF Stop
  <1>4. q \in Int /\ q <= s.end - 1 /\ (S # {} => q \in s.curr .. s.end - 1)
    <2>1. CASE S = {}
      BY <1>1, <2>1 DEF Final
    <2>2. CASE S # {}
      <3>1. q = Min(S) /\ Min(S) \in S
        BY <1>3, <2>2, MinIsLeast DEF Final
      <3>2. q \in s.curr .. s.end - 1
        BY <3>1 DEF Stop
      <3>3. QED
        BY <1>1, <3>2
    <2>3. QED
      BY <2>1, <2>2
  <1> HIDE DEF q, S
  <1>5. r.seek = [curr |-> r.seek.curr, end |-> s.end]
        /\ r.seek.curr = IF s.curr .. q = {} THEN s.curr ELSE Max(s.curr .. q) + 1
    BY <1>2 DEF ReadsUpTo
  <1>6. CASE s.curr .. q = {}
    <2>1. r.seek.curr = s.curr
      BY <1>5, <1>6
    <2>2. S = {}
      BY <1>1, <1>4, <1>6
    <2>3. r.seek \in Seekers /\ r.seek.end = s.end
      BY <1>1, <1>5, <2>1 DEF Seekers
    <2>4. QED
      BY <1>1, <1>2, <2>1, <2>2, <2>3 DEF ReadsUpTo, S
  <1>7. CASE s.curr .. q # {}
    <2>1. q \in Nat /\ s.curr <= q
      BY <1>1, <1>4, <1>7
    <2>2. Max(s.curr .. q) = q
      BY <1>1, <2>1, MaxOfInterval
    <2>3. r.seek.curr = q + 1
      BY <1>5, <1>7, <2>2
    <2>4. r.seek \in Seekers /\ r.seek.end = s.end
      BY <1>1, <1>5, <2>1, <2>3 DEF Seekers
    <2>5. r.seek.curr >= s.curr /\ s.curr < r.seek.curr /\ r.seek.curr <= s.end
      BY <1>1, <1>4, <2>1, <2>3
    <2>6. QED
      BY <1>2, <2>4, <2>5 DEF ReadsUpTo, S
  <1>8. QED
    BY <1>6, <1>7

\* The bits below w of the varint that lies from p to q.
Low(bytes, p, q, w) == Groups(bytes, p, q - 1) \cap 0 .. w - 1

\* Where a reader ends does not matter, if there is a varint before.
LEMMA VarintLies ==
  ASSUME NEW bytes, NEW s \in Seekers, NEW w \in Nat, NEW r, r = Varint(bytes, s, w), NEW q \in Nat,
         Lies(bytes, s.curr, q), q <= s.end
  PROVE  /\ r.ok
         /\ r.seek = [curr |-> q, end |-> s.end]
         /\ r.value = Low(bytes, s.curr, q, w)
         /\ r.wide => 7 * (q - 1 - s.curr) >= w
  <1> DEFINE S == Stop(bytes, s.curr, s.end)
  <1>1. s.curr \in Nat /\ s.end \in Nat /\ s = [curr |-> s.curr, end |-> s.end]
    BY DEF Seekers
  <1>2. s.curr < q /\ q - 1 \in S /\ \A i \in S : q - 1 <= i
    <2>1. s.curr < q /\ q - 1 \in S
      BY <1>1 DEF Lies, Stop
    <2>2. ASSUME NEW i \in S, i < q - 1 PROVE FALSE
      <3>1. i \in s.curr .. s.end - 1 /\ 7 \notin ByteAt(bytes, i)
        BY DEF Stop
      <3>2. i \in s.curr .. q - 2
        BY <1>1, <3>1, <2>2
      <3>3. QED
        BY <3>1, <3>2 DEF Lies
    <2>3. \A i \in S : i \in Nat
      BY <1>1 DEF Stop
    <2>4. QED
      BY <2>1, <2>2, <2>3
  <1>3. S \in SUBSET Nat
    BY <1>1 DEF Stop
  <1> HIDE DEF S
  <1>4. Min(S) = q - 1
    <2>1. Min(S) \in S /\ \A i \in S : Min(S) <= i
      BY <1>2, <1>3, MinIsLeast
    <2>2. Min(S) \in Nat /\ q - 1 <= Min(S) /\ Min(S) <= q - 1
      BY <1>2, <1>3, <2>1
    <2>3. QED
      BY <2>2
  <1>5. Final(bytes, s.curr, s.end) = q - 1
    BY <1>2, <1>4 DEF Final, S
  <1>6. q - 1 \in Nat /\ s.curr <= q - 1
    BY <1>1, <1>2
  <1>7. s.curr .. q - 1 # {} /\ Max(s.curr .. q - 1) = q - 1
    BY <1>1, <1>6, MaxOfInterval
  <1>8. ReadsUpTo(bytes, s, w, r, q - 1) /\ r.ok \in BOOLEAN
    BY <1>5, VarintIs
  <1>9. r.ok
    BY <1>2, <1>8 DEF ReadsUpTo, S
  <1>10. r.seek = [curr |-> q, end |-> s.end]
    <2>1. r.seek = [curr |-> q - 1 + 1, end |-> s.end]
      BY <1>7, <1>8 DEF ReadsUpTo
    <2>2. QED
      BY <1>1, <2>1
  <1>11. r.wide => 7 * (q - 1 - s.curr) >= w
    BY <1>1, <1>6, <1>8 DEF ReadsUpTo
  <1>12. QED
    BY <1>8, <1>9, <1>10, <1>11 DEF ReadsUpTo, Low

\* Without a varint before the end there is none to read.
LEMMA VarintAtEnd ==
  ASSUME NEW bytes, NEW s \in Seekers, NEW w \in Nat, NEW r, r = Varint(bytes, s, w), s.curr >= s.end
  PROVE  ~r.ok /\ ~r.wide /\ r.seek = s
  <1>1. s.curr \in Nat /\ s.end \in Nat /\ s = [curr |-> s.curr, end |-> s.end]
    BY DEF Seekers
  <1>2. Stop(bytes, s.curr, s.end) = {}
    BY <1>1 DEF Stop
  <1>3. Final(bytes, s.curr, s.end) = s.end - 1
    BY <1>2 DEF Final
  <1>4. s.curr .. s.end - 1 = {}
    BY <1>1
  <1>5. ReadsUpTo(bytes, s, w, r, s.end - 1)
    BY <1>3, VarintIs
  <1>6. r.seek = s
    BY <1>1, <1>4, <1>5 DEF ReadsUpTo
  <1>7. QED
    BY <1>1, <1>2, <1>4, <1>5, <1>6 DEF ReadsUpTo

--------------------------------------------------------------------------------
(* Numbers.                                                                    *)

\* The weights of the bits.
LEMMA PowersAreNatural ==
  \A b \in 0 .. 31 : 2 ^ b \in Nat
  <1>1. \A b \in 0 .. 7 : 2 ^ b \in Nat
    <2>1. \A b \in 0 .. 7 : b \in {0, 1, 2, 3, 4, 5, 6, 7}
      OBVIOUS
    <2>2. /\ 2 ^ 0 \in Nat /\ 2 ^ 1 \in Nat /\ 2 ^ 2 \in Nat /\ 2 ^ 3 \in Nat
          /\ 2 ^ 4 \in Nat /\ 2 ^ 5 \in Nat /\ 2 ^ 6 \in Nat /\ 2 ^ 7 \in Nat
      OBVIOUS
    <2>3. QED
      BY <2>1, <2>2, Zenon
  <1>2. \A b \in 8 .. 15 : 2 ^ b \in Nat
    <2>1. \A b \in 8 .. 15 : b \in {8, 9, 10, 11, 12, 13, 14, 15}
      OBVIOUS
    <2>2. /\ 2 ^ 8 \in Nat /\ 2 ^ 9 \in Nat /\ 2 ^ 10 \in Nat /\ 2 ^ 11 \in Nat
          /\ 2 ^ 12 \in Nat /\ 2 ^ 13 \in Nat /\ 2 ^ 14 \in Nat /\ 2 ^ 15 \in Nat
      OBVIOUS
    <2>3. QED
      BY <2>1, <2>2, Zenon
  <1>3. \A b \in 16 .. 23 : 2 ^ b \in Nat
    <2>1. \A b \in 16 .. 23 : b \in {16, 17, 18, 19, 20, 21, 22, 23}
      OBVIOUS
    <2>2. /\ 2 ^ 16 \in Nat /\ 2 ^ 17 \in Nat /\ 2 ^ 18 \in Nat /\ 2 ^ 19 \in Nat
          /\ 2 ^ 20 \in Nat /\ 2 ^ 21 \in Nat /\ 2 ^ 22 \in Nat /\ 2 ^ 23 \in Nat
      OBVIOUS
    <2>3. QED
      BY <2>1, <2>2, Zenon
  <1>4. \A b \in 24 .. 31 : 2 ^ b \in Nat
    <2>1. \A b \in 24 .. 31 : b \in {24, 25, 26, 27, 28, 29, 30, 31}
      OBVIOUS
    <2>2. /\ 2 ^ 24 \in Nat /\ 2 ^ 25 \in Nat /\ 2 ^ 26 \in Nat /\ 2 ^ 27 \in Nat
          /\ 2 ^ 28 \in Nat /\ 2 ^ 29 \in Nat /\ 2 ^ 30 \in Nat /\ 2 ^ 31 \in Nat
      OBVIOUS
    <2>3. QED
      BY <2>1, <2>2, Zenon
  <1>5. \A b \in 0 .. 31 : b \in 0 .. 7 \/ b \in 8 .. 15 \/ b \in 16 .. 23 \/ b \in 24 .. 31
    OBVIOUS
  <1>6. QED
    BY <1>1, <1>2, <1>3, <1>4, <1>5

\* The number that 32 bits are.
LEMMA NumberIsNatural ==
  ASSUME NEW S \in SUBSET (0 .. 31)
  PROVE  Number(S) \in Nat
  <1> DEFINE pow == [b \in 0 .. 31 |-> 2 ^ b]
             f == [k \in 1 .. 32 |-> pow[k - 1]]
             up(s) == {b + 1 : b \in s}
             Powers(g) == g = [s \in SUBSET S |->
                                 IF s = {} THEN 0 ELSE 2 ^ Pick(s) + g[s \ {Pick(s)}]]
  <1>1. \A k \in 1 .. 32 : f[k] \in Nat
    <2>1. \A k \in 1 .. 32 : k - 1 \in 0 .. 31
      OBVIOUS
    <2>2. pow \in [0 .. 31 -> Nat]
      BY PowersAreNatural
    <2> HIDE DEF pow
    <2>3. QED
      BY <2>1, <2>2
  <1> HIDE DEF f, pow
  <1>2. PICK G : AnyOrder(f, 32, G)
    <2>1. 32 \in Nat
      OBVIOUS
    <2>2. QED
      BY <1>1, <2>1, SumExists
  <1> DEFINE h == [s \in SUBSET S |-> G[up(s)]]
  <1>3. \A s \in SUBSET S : up(s) \in SUBSET (1 .. 32)
    OBVIOUS
  <1>4. h \in [SUBSET S -> Nat]
    BY <1>2, <1>3 DEF AnyOrder
  <1>5. ASSUME NEW s \in SUBSET S
        PROVE  h[s] = IF s = {} THEN 0 ELSE 2 ^ Pick(s) + h[s \ {Pick(s)}]
    <2>1. CASE s = {}
      <3>1. up(s) = {}
        BY <2>1
      <3>2. h[s] = G[{}]
        BY <3>1
      <3>3. QED
        BY <1>2, <2>1, <3>2 DEF AnyOrder
    <2>2. CASE s # {}
      <3> DEFINE x == Pick(s)
      <3>1. x \in s /\ x \in 0 .. 31
        BY <2>2 DEF Pick
      <3> HIDE DEF x
      <3>2. x + 1 \in up(s)
        BY <3>1
      <3>3. up(s) \ {x + 1} = up(s \ {x})
        <4>1. \A b \in s : b \in Int
          OBVIOUS
        <4>2. QED
          BY <3>1, <4>1
      <3>4. G[up(s)] = f[x + 1] + G[up(s \ {x})]
        <4>1. \A t \in SUBSET (1 .. 32) : \A y \in t : G[t] = f[y] + G[t \ {y}]
          BY <1>2 DEF AnyOrder
        <4>2. up(s) \in SUBSET (1 .. 32)
          BY <1>3
        <4> HIDE DEF up
        <4>3. G[up(s)] = f[x + 1] + G[up(s) \ {x + 1}]
          BY <3>2, <4>1, <4>2
        <4>4. QED
          BY <3>3, <4>3
      <3>5. f[x + 1] = 2 ^ x
        <4>1. x + 1 \in 1 .. 32 /\ x + 1 - 1 = x
          BY <3>1
        <4>2. f[x + 1] = pow[x]
          BY <3>1, <4>1 DEF f
        <4>3. pow[x] = 2 ^ x
          BY <3>1, Zenon DEF pow
        <4>4. QED
          BY <4>2, <4>3
      <3>6. h[s] = G[up(s)] /\ h[s \ {x}] = G[up(s \ {x})]
        OBVIOUS
      <3>7. h[s] = 2 ^ x + h[s \ {x}]
        BY <3>4, <3>5, <3>6
      <3>8. QED
        BY <2>2, <3>7 DEF x
    <2>3. QED
      BY <2>1, <2>2
  <1>6. Powers(h)
    <2>1. h = [s \in SUBSET S |-> h[s]]
      OBVIOUS
    <2> HIDE DEF h
    <2>2. QED
      BY <1>5, <2>1
  <1>7. Number(S) = (CHOOSE g : Powers(g))[S]
    BY DEF Number, MapThenSumSet, MapThenFoldSet, Pick
  <1>8. PICK g : Powers(g) /\ Number(S) = g[S]
    BY <1>6, <1>7
  <1> HIDE DEF h
  <1>9. g = h
    <2> DEFINE Odd == {s \in SUBSET S : g[s] # h[s]}
               Sizes == {Cardinality(s) : s \in Odd}
    <2>1. SUFFICES ASSUME Odd # {} PROVE FALSE
      BY <1>4, <1>8
    <2>2. \A s \in SUBSET S : IsFiniteSet(s) /\ Cardinality(s) \in Nat
      <3>1. TAKE s \in SUBSET S
      <3>2. IsFiniteSet(0 .. 31)
        <4>1. 0 \in Int /\ 31 \in Int
          OBVIOUS
        <4>2. QED
          BY <4>1, FS_Interval
      <3>3. IsFiniteSet(s)
        BY <3>2, FS_Subset
      <3>4. QED
        BY <3>3, FS_CardinalityType
    <2>3. Sizes \in SUBSET Nat /\ Sizes # {}
      BY <2>1, <2>2
    <2>4. PICK c \in Sizes : \A d \in Sizes : c <= d
      BY <2>3, LeastNatural
    <2>5. PICK s \in Odd : c = Cardinality(s)
      BY <2>4
    <2>6. s # {}
      BY <1>5, <1>8, <2>5
    <2> DEFINE x == Pick(s)
    <2>7. x \in s
      BY <2>6 DEF Pick
    <2> HIDE DEF x
    <2>8. g[s] = 2 ^ x + g[s \ {x}] /\ h[s] = 2 ^ x + h[s \ {x}]
      BY <1>5, <1>8, <2>5, <2>6 DEF x
    <2>9. s \ {x} \in Odd
      BY <2>5, <2>8
    <2>10. Cardinality(s \ {x}) = c - 1
      BY <2>2, <2>5, <2>7, FS_RemoveElement
    <2>11. c \in Nat /\ c - 1 \in Sizes
      BY <2>3, <2>4, <2>9, <2>10
    <2>12. QED
      BY <2>4, <2>11
  <1>10. QED
    BY <1>4, <1>8, <1>9

--------------------------------------------------------------------------------
(* The tables.                                                                 *)

Flag(id, name, w) == Field(id, name, "bool", w, FALSE, "")

ProfileTable ==
  {Vector(1, "sample_type", "ValueType"), Vector(2, "sample", "Sample"),
   Vector(3, "mapping", "Mapping"), Vector(4, "location", "Location"),
   Vector(5, "function", "Function"), Texts(6, "string_table"), Int64(7, "drop_frames"),
   Int64(8, "keep_frames"), Int64(9, "time_nanos"), Int64(10, "duration_nanos"),
   Pointer(11, "period_type", "ValueType"), Int64(12, "period"), Ints64(13, "comment"),
   Int64(14, "default_sample_type")}
ValueTypeTable == {Int64(1, "type"), Int64(2, "unit")}
SampleTable == {Ints64(1, "location_id"), Ints64(2, "value"), Vector(3, "label", "Label")}
LabelTable == {Int64(1, "key"), Int64(2, "str"), Int64(3, "num"), Int64(4, "num_unit")}
MappingTable(w) ==
  {Int64(1, "id"), Int64(2, "memory_start"), Int64(3, "memory_limit"), Int64(4, "file_offset"),
   Int64(5, "filename"), Int64(6, "build_id"), Flag(7, "has_functions", w),
   Flag(8, "has_filenames", w), Flag(9, "has_line_numbers", w), Flag(10, "has_inline_frames", w)}
LocationTable(w) ==
  {Int64(1, "id"), Int64(2, "mapping_id"), Int64(3, "address"),
   Vector(4, "line", "Line"), Flag(5, "is_folded", w)}
LineTable == {Int64(1, "function_id"), Int64(2, "line")}
FunctionTable ==
  {Int64(1, "id"), Int64(2, "name"), Int64(3, "system_name"),
   Int64(4, "filename"), Int64(5, "start_line")}
PersonTable ==
  {Text(1, "name"), Int64(2, "age"), Pointer(3, "address", "Address"), Texts(4, "names"),
   Ints64(5, "ages"), Vector(6, "addresses", "Address")}
AddressTable(w) == {Int32(1, "zipcode"), Flag(2, "international", w), Text(3, "city")}

ProfileTables(w) ==
  [Profile |-> ProfileTable, ValueType |-> ValueTypeTable, Sample |-> SampleTable,
   Label |-> LabelTable, Mapping |-> MappingTable(w), Location |-> LocationTable(w),
   Line |-> LineTable, Function |-> FunctionTable]
AllTables(w) ==
  [Profile |-> ProfileTable, ValueType |-> ValueTypeTable, Sample |-> SampleTable,
   Label |-> LabelTable, Mapping |-> MappingTable(w), Location |-> LocationTable(w),
   Line |-> LineTable, Function |-> FunctionTable,
   Person |-> PersonTable, Address |-> AddressTable(w)]

\* The fields of the classes of sequential.
LEMMA SequentialTables == SQ!Classes = AllTables(32)
  BY DEF SQ!Classes, SQ!Profile, SQ!ValueType, SQ!Sample, SQ!Label,
         SQ!Mapping, SQ!Location, SQ!Line, SQ!Function, SQ!Person, SQ!Address,
         SQ!Field, SQ!Int64, SQ!Bool, SQ!Ints64, SQ!Texts, SQ!Pointer,
         SQ!Vector, SQ!Int32, SQ!Text,
         Field, Int64, Int32, Ints64, Text, Texts, Pointer, Vector, Flag, ProfileTable,
         ValueTypeTable, SampleTable, LabelTable, MappingTable, LocationTable,
         LineTable, FunctionTable, PersonTable, AddressTable, ProfileTables, AllTables

\* The same for the generated parser.
LEMMA GeneratedTables == GN!Classes = AllTables(32)
  BY DEF GN!Classes, GN!Profile, GN!ValueType, GN!Sample, GN!Label,
         GN!Mapping, GN!Location, GN!Line, GN!Function, GN!Person, GN!Address,
         GN!Field, GN!Int64, GN!Bool, GN!Ints64, GN!Texts, GN!Pointer,
         GN!Vector, GN!Int32, GN!Text,
         Field, Int64, Int32, Ints64, Text, Texts, Pointer, Vector, Flag, ProfileTable,
         ValueTypeTable, SampleTable, LabelTable, MappingTable, LocationTable,
         LineTable, FunctionTable, PersonTable, AddressTable, ProfileTables, AllTables

\* The same for parallel,
LEMMA ParallelTables == PA!Classes = ProfileTables(32)
  BY DEF PA!Classes, PA!Profile, PA!ValueType, PA!Sample, PA!Label,
         PA!Mapping, PA!Location, PA!Line, PA!Function, PA!Field, PA!Int64,
         PA!Bool, PA!Ints64, PA!Texts, PA!Pointer, PA!Vector,
         Field, Int64, Int32, Ints64, Text, Texts, Pointer, Vector, Flag, ProfileTable,
         ValueTypeTable, SampleTable, LabelTable, MappingTable, LocationTable,
         LineTable, FunctionTable, PersonTable, AddressTable, ProfileTables, AllTables

\* for pthreads,
LEMMA PthreadsTables == PT!Classes = ProfileTables(32)
  BY DEF PT!Classes, PT!Profile, PT!ValueType, PT!Sample, PT!Label,
         PT!Mapping, PT!Location, PT!Line, PT!Function, PT!Field, PT!Int64,
         PT!Bool, PT!Ints64, PT!Texts, PT!Pointer, PT!Vector,
         Field, Int64, Int32, Ints64, Text, Texts, Pointer, Vector, Flag, ProfileTable,
         ValueTypeTable, SampleTable, LabelTable, MappingTable, LocationTable,
         LineTable, FunctionTable, PersonTable, AddressTable, ProfileTables, AllTables

\* and for dac.
LEMMA DacTables == DC!Classes = ProfileTables(32)
  BY DEF DC!Classes, DC!Profile, DC!ValueType, DC!Sample, DC!Label,
         DC!Mapping, DC!Location, DC!Line, DC!Function, DC!Field, DC!Int64,
         DC!Bool, DC!Ints64, DC!Texts, DC!Pointer, DC!Vector,
         Field, Int64, Int32, Ints64, Text, Texts, Pointer, Vector, Flag, ProfileTable,
         ValueTypeTable, SampleTable, LabelTable, MappingTable, LocationTable,
         LineTable, FunctionTable, PersonTable, AddressTable, ProfileTables, AllTables

\* Google keeps a bool in 64 bits.
LEMMA GoogleTables == Tables["google"] = AllTables(64)
  <1>1. Tables["google"] = [c \in DOMAIN GP!Classes \cup DOMAIN GE!Classes |->
                              IF c \in DOMAIN GP!Classes THEN GP!Classes[c] ELSE GE!Classes[c]]
    BY DEF Tables
  <1>2. GP!Classes = ProfileTables(64)
    BY DEF GP!Classes, GP!ProfileFields, GP!ValueTypeFields, GP!SampleFields, GP!LabelFields,
           GP!MappingFields, GP!LocationFields, GP!LineFields, GP!FunctionFields,
    GP!Field, GP!Int64, GP!Bool64, GP!Ints64, GP!Texts, GP!Pointer, GP!Vector,
    Field, Int64, Int32, Ints64, Text, Texts, Pointer, Vector, Flag, ProfileTable,
         ValueTypeTable, SampleTable, LabelTable, MappingTable, LocationTable,
         LineTable, FunctionTable, PersonTable, AddressTable, ProfileTables, AllTables
  <1>3. GE!Classes = [Person |-> PersonTable, Address |-> AddressTable(64)]
    BY DEF GE!Classes, GE!PersonFields, GE!AddressFields, GE!Field, GE!Int64, GE!Int32, GE!Bool64,
           GE!Ints64, GE!Text, GE!Texts, GE!Pointer, GE!Vector,
    Field, Int64, Int32, Ints64, Text, Texts, Pointer, Vector, Flag, ProfileTable,
         ValueTypeTable, SampleTable, LabelTable, MappingTable, LocationTable,
         LineTable, FunctionTable, PersonTable, AddressTable, ProfileTables, AllTables
  <1>4. QED
    BY <1>1, <1>2, <1>3 DEF ProfileTables, AllTables

\* The cases that genFromProto.py writes, by the type of the field,
LEMMA GenCases ==
  \A v, i :
    /\ PY!genCase(PY!One("int64", v, i)) = Int64(i, v)
    /\ PY!genCase(PY!One("uint64", v, i)) = Int64(i, v)
    /\ PY!genCase(PY!One("uint32", v, i)) = Int32(i, v)
    /\ PY!genCase(PY!One("bool", v, i)) = Flag(i, v, 32)
    /\ PY!genCase(PY!Many("int64", v, i)) = Ints64(i, v)
    /\ PY!genCase(PY!Many("uint64", v, i)) = Ints64(i, v)
    /\ PY!genCase(PY!One("string", v, i)) = Text(i, v)
    /\ PY!genCase(PY!Many("string", v, i)) = Texts(i, v)
  BY DEF PY!genCase, PY!One, PY!Many, PY!Attr, PY!wire0, PY!IsPointer, PY!Has64, PY!Field,
         Field, Int64, Int32, Ints64, Text, Texts, Flag

\* and for the fields of a message type.
LEMMA GenMessages ==
  ASSUME NEW v, NEW i, NEW c, c \notin PY!wire0 \cup {"string"}
  PROVE  /\ PY!genCase(PY!Many(c, v, i)) = Vector(i, v, c)
         /\ PY!genCase(PY!One(c, v, i)) = Pointer(i, v, c)
  <1>1. c # "bool" /\ c # "string" /\ c \notin PY!wire0 /\ c \notin PY!wire0 \cup {"string"}
    BY DEF PY!wire0
  <1>2. PY!genCase(PY!Many(c, v, i)) = Vector(i, v, c)
    BY <1>1 DEF PY!genCase, PY!Many, PY!Attr, PY!IsPointer, PY!Field, Field, Vector
  <1>3. PY!genCase(PY!One(c, v, i)) = Pointer(i, v, c)
    BY <1>1 DEF PY!genCase, PY!One, PY!Attr, PY!IsPointer, PY!Field, Field, Pointer
  <1>4. QED
    BY <1>2, <1>3

\* The generator writes the same tables.
LEMMA GeneratorTables == PY!Classes = AllTables(32)
  <1>1. /\ DOMAIN PY!profile_proto = {"Profile", "ValueType", "Sample", "Label", "Mapping",
                                      "Location", "Line", "Function"}
        /\ DOMAIN PY!person_proto = {"Person", "Address"}
    BY DEF PY!profile_proto, PY!person_proto
  <1>2. /\ PY!parseClass(PY!profile_proto["Profile"]) = ProfileTable
        /\ PY!parseClass(PY!profile_proto["Sample"]) = SampleTable
        /\ PY!parseClass(PY!profile_proto["Location"]) = LocationTable(32)
        /\ PY!parseClass(PY!person_proto["Person"]) = PersonTable
    BY GenCases, GenMessages
       DEF PY!wire0, PY!parseClass, PY!profile_proto, PY!person_proto, ProfileTable, SampleTable,
           LocationTable, PersonTable
  <1>3. /\ PY!parseClass(PY!profile_proto["ValueType"]) = ValueTypeTable
        /\ PY!parseClass(PY!profile_proto["Label"]) = LabelTable
        /\ PY!parseClass(PY!profile_proto["Mapping"]) = MappingTable(32)
        /\ PY!parseClass(PY!profile_proto["Line"]) = LineTable
        /\ PY!parseClass(PY!profile_proto["Function"]) = FunctionTable
        /\ PY!parseClass(PY!person_proto["Address"]) = AddressTable(32)
    BY GenCases
       DEF PY!parseClass, PY!profile_proto, PY!person_proto, ValueTypeTable, LabelTable,
           MappingTable, LineTable, FunctionTable, AddressTable
  <1>4. PY!Classes = [c \in DOMAIN PY!profile_proto \cup DOMAIN PY!person_proto |->
                        PY!parseClass(IF c \in DOMAIN PY!profile_proto THEN PY!profile_proto[c]
                                      ELSE PY!person_proto[c])]
    BY DEF PY!Classes, PY!Schema
  <1>5. QED
    BY <1>1, <1>2, <1>3, <1>4 DEF AllTables

Width(copy_) == IF copy_ = "google" THEN 64 ELSE 32

\* There is one table for all copies, but for the width of a bool.
LEMMA TablesAre ==
  /\ \A c \in {"sequential", "generated", "generator", "google"} : Tables[c] = AllTables(Width(c))
  /\ \A c \in {"parallel", "pthreads", "dac"} : Tables[c] = ProfileTables(Width(c))
  <1>1. /\ Tables["sequential"] = SQ!Classes /\ Tables["generated"] = GN!Classes
        /\ Tables["generator"] = PY!Classes /\ Tables["parallel"] = PA!Classes
        /\ Tables["pthreads"] = PT!Classes /\ Tables["dac"] = DC!Classes
    BY DEF Tables
  <1>2. QED
    BY <1>1, SequentialTables, GeneratedTables, GeneratorTables, GoogleTables, ParallelTables,
       PthreadsTables, DacTables DEF Width

--------------------------------------------------------------------------------
(* Well formed tables.                                                         *)

Depth(class) ==
  IF class \in {"Profile", "Person"} THEN 3 ELSE IF class \in {"Line", "Label"} THEN 1 ELSE 2

\* What the notations for fields stand for.
LEMMA Members ==
  /\ \A id, name :
       /\ /\ Int64(id, name).id = id /\ Int64(id, name).name = name
          /\ Int64(id, name).kind = "int" /\ Int64(id, name).width = 64 /\ ~Int64(id, name).many
       /\ /\ Int32(id, name).id = id /\ Int32(id, name).name = name
          /\ Int32(id, name).kind = "int" /\ Int32(id, name).width = 32 /\ ~Int32(id, name).many
       /\ /\ Ints64(id, name).id = id /\ Ints64(id, name).name = name
          /\ Ints64(id, name).kind = "int" /\ Ints64(id, name).width = 64 /\ Ints64(id, name).many
       /\ /\ Text(id, name).id = id /\ Text(id, name).name = name
          /\ Text(id, name).kind = "string" /\ ~Text(id, name).many
       /\ /\ Texts(id, name).id = id /\ Texts(id, name).name = name
          /\ Texts(id, name).kind = "string" /\ Texts(id, name).many
  /\ \A id, name, w :
       /\ Flag(id, name, w).id = id /\ Flag(id, name, w).name = name
       /\ Flag(id, name, w).kind = "bool" /\ ~Flag(id, name, w).many
  /\ \A id, name, of :
       /\ /\ Vector(id, name, of).id = id /\ Vector(id, name, of).name = name
          /\ Vector(id, name, of).kind = "message" /\ Vector(id, name, of).of = of
          /\ Vector(id, name, of).many
       /\ /\ Pointer(id, name, of).id = id /\ Pointer(id, name, of).name = name
          /\ Pointer(id, name, of).kind = "message" /\ Pointer(id, name, of).of = of
          /\ ~Pointer(id, name, of).many
  BY DEF Int64, Int32, Ints64, Flag, Text, Texts, Vector, Pointer, Field

Distinct(fields) == \A f, g \in fields : f.name = g.name \/ f.id = g.id => f = g

\* What the proofs need to know of the fields of a class.
FieldsOK(T, class, fields) ==
  /\ Depth(class) \in 1 .. 3
  /\ \A f \in fields :
       /\ f.kind \in {"int", "bool", "string", "message"}
       /\ f.kind = "int" => f.width \in {32, 64} /\ (f.many => f.width = 64)
       /\ f.kind = "message" =>
            /\ f.of \in DOMAIN T /\ Depth(f.of) < Depth(class)
            /\ ~f.many => f.of \in {"ValueType", "Address"}
            /\ class \notin {"ValueType", "Address"}
  /\ Distinct(fields)
TableOK(T) == \A class \in DOMAIN T : FieldsOK(T, class, T[class])

\* The tables are well formed: the ids and the names of a class are distinct, a
\* submessage is less deep than its message, and only the submessages of two
\* classes are single.
LEMMA TablesOK ==
  ASSUME NEW w, NEW T, T \in {AllTables(w), ProfileTables(w)}
  PROVE  TableOK(T)
  <1>1. /\ {"Profile", "ValueType", "Sample", "Label", "Mapping", "Location", "Line", "Function"}
             \subseteq DOMAIN T
        /\ DOMAIN T \subseteq {"Profile", "ValueType", "Sample", "Label", "Mapping", "Location",
                              "Line", "Function", "Person", "Address"}
        /\ "Person" \in DOMAIN T => "Address" \in DOMAIN T
    BY DEF AllTables, ProfileTables
  <1>2. /\ T["Profile"] = ProfileTable /\ T["ValueType"] = ValueTypeTable
        /\ T["Sample"] = SampleTable /\ T["Label"] = LabelTable
        /\ T["Mapping"] = MappingTable(w) /\ T["Location"] = LocationTable(w)
        /\ T["Line"] = LineTable /\ T["Function"] = FunctionTable
        /\ "Person" \in DOMAIN T => T["Person"] = PersonTable
        /\ "Address" \in DOMAIN T => T["Address"] = AddressTable(w)
    BY DEF AllTables, ProfileTables
  <1>3. FieldsOK(T, "Profile", ProfileTable)
    BY <1>1, Members DEF FieldsOK, Distinct, ProfileTable, Depth
  <1>4. FieldsOK(T, "Mapping", MappingTable(w))
    BY <1>1, Members DEF FieldsOK, Distinct, MappingTable, Depth
  <1>5. "Person" \in DOMAIN T => FieldsOK(T, "Person", PersonTable)
    BY <1>1, Members DEF FieldsOK, Distinct, PersonTable, Depth
  <1>6. FieldsOK(T, "Location", LocationTable(w))
    BY <1>1, Members DEF FieldsOK, Distinct, LocationTable, Depth
  <1>7. FieldsOK(T, "Address", AddressTable(w))
    BY <1>1, Members DEF FieldsOK, Distinct, AddressTable, Depth
  <1>8. FieldsOK(T, "Sample", SampleTable)
    BY <1>1, Members DEF FieldsOK, Distinct, SampleTable, Depth
  <1>9. /\ FieldsOK(T, "Line", LineTable) /\ FieldsOK(T, "Label", LabelTable)
        /\ FieldsOK(T, "Function", FunctionTable) /\ FieldsOK(T, "ValueType", ValueTypeTable)
    BY <1>1, Members DEF FieldsOK, Distinct, LineTable, LabelTable, FunctionTable, ValueTypeTable, Depth
  <1>10. ASSUME NEW class \in DOMAIN T PROVE FieldsOK(T, class, T[class])
    BY <1>1, <1>2, <1>3, <1>4, <1>5, <1>6, <1>7, <1>8, <1>9
  <1>11. QED
    BY <1>10 DEF TableOK

\* The submessages that may be single have none themselves.
LEMMA NoMessages ==
  ASSUME NEW T, TableOK(T), NEW class \in DOMAIN T, class \in {"ValueType", "Address"}, NEW f \in T[class]
  PROVE  f.kind # "message"
  BY DEF TableOK, FieldsOK

\* Two tables of a class that differ in the width of its bools at most.
Same(f, g) ==
  /\ g.id = f.id /\ g.name = f.name /\ g.kind = f.kind /\ (g.many <=> f.many)
  /\ f.kind = "int" => g.width = f.width
  /\ f.kind = "message" => g.of = f.of
Agrees(fields, others) == \A f \in fields : \E g \in others : Same(f, g)

\* A copy and Google agree on the fields.
LEMMA TablesAgree ==
  ASSUME NEW v, NEW w, NEW T \in {AllTables(v), ProfileTables(v)}, NEW class \in DOMAIN T
  PROVE  /\ class \in DOMAIN AllTables(w)
         /\ Agrees(T[class], AllTables(w)[class]) /\ Agrees(AllTables(w)[class], T[class])
  <1> DEFINE U == AllTables(w)
  <1>1. ASSUME NEW F PROVE Agrees(F, F)
    BY DEF Agrees, Same
  <1>2. ASSUME NEW x, NEW y
        PROVE  /\ Agrees(MappingTable(x), MappingTable(y)) /\ Agrees(LocationTable(x), LocationTable(y))
               /\ Agrees(AddressTable(x), AddressTable(y))
    BY Members DEF Agrees, Same, MappingTable, LocationTable, AddressTable
  <1>3. class \in DOMAIN U
    BY DEF AllTables, ProfileTables
  <1>4. CASE class \in {"Mapping", "Location", "Address"}
    BY <1>2, <1>4 DEF AllTables, ProfileTables
  <1>5. CASE class \notin {"Mapping", "Location", "Address"}
    <2>1. T[class] = U[class]
      BY <1>5 DEF AllTables, ProfileTables
    <2>2. QED
      BY <1>1, <1>3, <2>1
  <1>6. QED
    BY <1>4, <1>5

--------------------------------------------------------------------------------
(* The inputs.                                                                 *)

\* The names of the fields of the root classes.
LEMMA NamesAre ==
  /\ Names(ProfileTable) =
       {"sample_type", "sample", "mapping", "location", "function", "string_table", "drop_frames",
        "keep_frames", "time_nanos", "duration_nanos", "period_type", "period", "comment",
        "default_sample_type"}
  /\ Names(PersonTable) = {"name", "age", "address", "names", "ages", "addresses"}
  BY Members DEF Names, ProfileTable, PersonTable

\* The constructors of the root classes make all fields.
LEMMA Roots ==
  ASSUME NEW c, NEW root,
         \/ c \in {"sequential", "generated", "generator", "google"} /\ root = "Person"
         \/ c \in {"sequential", "generated", "generator", "google", "parallel", "pthreads", "dac"}
            /\ root = "Profile"
  PROVE  /\ DOMAIN NewRoot(c, root)
              = IF root = "Profile" THEN Names(ProfileTable) ELSE Names(PersonTable)
         /\ c = "google" =>
              NewRoot(c, root)[IF root = "Profile" THEN "period_type" ELSE "address"] = <<>>
  <1>1. CASE c = "generator"
    <2>1. NewRoot(c, root) = PY!Constructor(PY!Schema[root])
      BY <1>1 DEF NewRoot
    <2>2. DOMAIN PY!Constructor(PY!Schema[root]) = {a.var : a \in PY!Schema[root]}
      BY DEF PY!Constructor
    <2>3. {a.var : a \in PY!profile_proto["Profile"]} = Names(ProfileTable)
      BY NamesAre DEF PY!profile_proto, PY!One, PY!Many, PY!Attr
    <2>4. {a.var : a \in PY!person_proto["Person"]} = Names(PersonTable)
      BY NamesAre DEF PY!person_proto, PY!One, PY!Many, PY!Attr
    <2>5. /\ root = "Profile" => PY!Schema[root] = PY!profile_proto["Profile"]
          /\ root = "Person" => PY!Schema[root] = PY!person_proto["Person"]
      BY DEF PY!Schema, PY!profile_proto, PY!person_proto
    <2>6. QED
      BY <1>1, <2>1, <2>2, <2>3, <2>4, <2>5
  <1>2. CASE c = "google"
    <2>1. NewRoot(c, root) = IF root = "Profile" THEN GP!ProfileClear ELSE GE!PersonClear
      BY <1>2 DEF NewRoot
    <2>2. QED
      BY <1>2, <2>1, NamesAre DEF GP!ProfileClear, GE!PersonClear
  <1>3. CASE c = "sequential"
    BY <1>3, NamesAre DEF NewRoot, SQ!NewProfile, SQ!NewPerson
  <1>4. CASE c = "generated"
    BY <1>4, NamesAre DEF NewRoot, GN!NewProfile, GN!NewPerson
  <1>5. CASE c \in {"parallel", "pthreads", "dac"}
    BY <1>5, NamesAre DEF NewRoot, PA!NewProfile, PT!NewProfile, DC!NewProfile
  <1>6. QED
    BY <1>1, <1>2, <1>3, <1>4, <1>5

\* The table of the copy that parses an input, and Google's.
LEMMA InputFacts ==
  ASSUME NEW in \in Inputs
  PROVE  /\ in.copy \in {"sequential", "generated", "generator", "google", "parallel", "pthreads", "dac"}
         /\ in.root \in {"Profile", "Person"} /\ in.root \in DOMAIN Tables[in.copy]
         /\ in.copy \in {"parallel", "pthreads", "dac"} =>
              in.root = "Profile" /\ Tables[in.copy]["Profile"] = ProfileTable
         /\ TableOK(Tables[in.copy])
         /\ DOMAIN NewRoot(in.copy, in.root) = Names(Tables[in.copy][in.root])
         /\ in.copy = "google" =>
              \A f \in Tables[in.copy][in.root] :
                f.kind = "message" /\ ~f.many => NewRoot(in.copy, in.root)[f.name] = <<>>
         /\ \A class \in DOMAIN Tables[in.copy] :
              /\ class \in DOMAIN Schema
              /\ Agrees(Tables[in.copy][class], Schema[class])
              /\ Agrees(Schema[class], Tables[in.copy][class])
         /\ in.cut \in BOOLEAN /\ in.buffer \in Seq(SUBSET (0 .. 7))
  <1> DEFINE T == Tables[in.copy]
             w == Width(in.copy)
  <1>1. /\ in.copy \in {"sequential", "generated", "generator", "google", "parallel", "pthreads", "dac"}
        /\ in.root \in {"Profile", "Person"}
        /\ in.copy \in {"parallel", "pthreads", "dac"} => in.root = "Profile"
        /\ in.cut \in BOOLEAN /\ in.buffer \in Seq(SUBSET (0 .. 7))
    BY InputsAssumption
  <1>2. /\ T \in {AllTables(w), ProfileTables(w)}
        /\ in.root = "Person" => T = AllTables(w)
    BY <1>1, TablesAre
  <1>3. Schema = AllTables(64)
    BY TablesAre DEF Schema, Width
  <1>4. /\ in.root \in DOMAIN T /\ T["Profile"] = ProfileTable
        /\ in.root = "Person" => T["Person"] = PersonTable
    BY <1>1, <1>2 DEF AllTables, ProfileTables
  <1>5. TableOK(T)
    BY <1>2, TablesOK
  <1>6. \A class \in DOMAIN T :
          class \in DOMAIN Schema /\ Agrees(T[class], Schema[class]) /\ Agrees(Schema[class], T[class])
    BY <1>2, <1>3, TablesAgree
  <1>7. DOMAIN NewRoot(in.copy, in.root) = Names(T[in.root])
    BY <1>1, <1>4, Roots
  <1>8. ASSUME in.copy = "google", NEW f \in T[in.root], f.kind = "message", ~f.many
        PROVE  NewRoot(in.copy, in.root)[f.name] = <<>>
    <2>1. f.name = IF in.root = "Profile" THEN "period_type" ELSE "address"
      <3>1. CASE in.root = "Profile"
        BY <1>4, <1>8, <3>1, Members DEF ProfileTable
      <3>2. CASE in.root = "Person"
        BY <1>4, <1>8, <3>2, Members DEF PersonTable
      <3>3. QED
        BY <1>1, <3>1, <3>2
    <2>2. QED
      BY <1>1, <1>8, <2>1, Roots
  <1>9. QED
    BY <1>1, <1>4, <1>5, <1>6, <1>7, <1>8

--------------------------------------------------------------------------------
(* The stack of calls.                                                         *)

FrameParts == {"class", "object", "seek", "into", "slot", "fresh", "list", "until"}

\* A submessage that Google's mutable_x may give again has no submessage itself.
ObjectOK(in, class, object) ==
  /\ DOMAIN object = Names(Tables[in.copy][class])
  /\ in.copy = "google" =>
       \A f \in Tables[in.copy][class] :
         f.kind = "message" /\ ~f.many /\ object[f.name] # <<>> =>
           DOMAIN object[f.name][1] = Names(Tables[in.copy][f.of])

ListOK(in, class, list) ==
  list = <<>> \/ \E f \in Tables[in.copy][class] : list = <<f>> /\ f.kind = "int" /\ f.many

FrameOK(in, k, frame) ==
  /\ DOMAIN frame = FrameParts
  /\ frame.class \in DOMAIN Tables[in.copy] /\ Depth(frame.class) + k <= 4
  /\ ObjectOK(in, frame.class, frame.object)
  /\ frame.seek \in Seekers /\ frame.until \in Nat
  /\ ListOK(in, frame.class, frame.list)

\* The caller of a parse function, and the function.
CallOK(in, caller, frame) ==
  \E f \in Tables[in.copy][caller.class] :
    frame.into = <<f>> /\ f.kind = "message" /\ f.of = frame.class

StackOK(in, s) ==
  /\ Len(s) \in Nat /\ Len(s) > 0 /\ s = [k \in 1 .. Len(s) |-> s[k]]
  /\ \A k \in 1 .. Len(s) : FrameOK(in, k, s[k])
  /\ \A k \in 2 .. Len(s) : CallOK(in, s[k - 1], s[k])
  /\ s[1].class = in.root
  /\ in.copy = "google" => \A k \in 1 .. Len(s) : s[k].slot = 0

TypeInv ==
  /\ input \in Inputs
  /\ status \in {"parsing", "true", "false", "exit"} /\ wide \in BOOLEAN
  /\ StackOK(input, stack)
  /\ tracker \in [1 .. MaxId -> Seq([curr : 0 .. Len(buffer), len : Nat])]
  /\ loop \in 0 .. Len(Loops) + 1
  /\ loop \in DOMAIN Loops => left \subseteq DOMAIN tracker[Loops[loop]]
  /\ Tracked /\ loop = 0 => stack[1].list = <<>> /\ stack[1].seek.end = Len(buffer)

Replaces(y, x) == y.class = x.class /\ y.into = x.into /\ y.slot = x.slot

\* The innermost frame is replaced,
LEMMA StackTurns ==
  ASSUME NEW in, NEW s, StackOK(in, s), NEW y, FrameOK(in, Len(s), y), Replaces(y, s[Len(s)]),
         NEW t, t = [s EXCEPT ![Len(s)] = y]
  PROVE  /\ StackOK(in, t) /\ Len(t) = Len(s) /\ t[Len(s)] = y
         /\ \A k \in 1 .. Len(s) - 1 : t[k] = s[k]
  <1> DEFINE n == Len(s)
  <1>1. n \in Nat /\ n > 0 /\ s = [k \in 1 .. n |-> s[k]]
    BY DEF StackOK
  <1>2. s \in Seq({s[k] : k \in 1 .. n} \cup {y})
    BY <1>1
  <1>3. t \in Seq({s[k] : k \in 1 .. n} \cup {y}) /\ Len(t) = n
    BY <1>1, <1>2
  <1>4. t = [k \in 1 .. n |-> t[k]] /\ t[n] = y /\ \A k \in 1 .. n - 1 : t[k] = s[k]
    <2>1. t = [k \in 1 .. n |-> t[k]]
      BY <1>1, <1>3
    <2>2. n \in DOMAIN s /\ \A k \in 1 .. n - 1 : k \in DOMAIN s /\ k # n
      BY <1>1
    <2>3. QED
      BY <2>1, <2>2
  <1>5. \A k \in 1 .. n : FrameOK(in, k, t[k]) /\ Replaces(t[k], s[k])
    <2>1. \A k \in 1 .. n - 1 : FrameOK(in, k, t[k]) /\ Replaces(t[k], s[k])
      BY <1>1, <1>4 DEF StackOK, Replaces
    <2>2. QED
      BY <1>1, <1>4, <2>1
  <1>6. ASSUME NEW k \in 2 .. n PROVE CallOK(in, t[k - 1], t[k])
    <2>1. CallOK(in, s[k - 1], s[k]) /\ Replaces(t[k], s[k]) /\ Replaces(t[k - 1], s[k - 1])
      BY <1>1, <1>5 DEF StackOK
    <2>2. QED
      BY <2>1 DEF CallOK, Replaces
  <1>7. t[1].class = in.root /\ (in.copy = "google" => \A k \in 1 .. n : t[k].slot = 0)
    BY <1>1, <1>5 DEF StackOK, Replaces
  <1>8. QED
    BY <1>1, <1>3, <1>4, <1>5, <1>6, <1>7 DEF StackOK

\* a frame is pushed,
LEMMA StackGrows ==
  ASSUME NEW in, NEW s, StackOK(in, s), NEW x, FrameOK(in, Len(s) + 1, x),
         CallOK(in, s[Len(s)], x), in.copy = "google" => x.slot = 0,
         NEW t, t = Append(s, x)
  PROVE  /\ StackOK(in, t) /\ Len(t) = Len(s) + 1 /\ t[Len(s) + 1] = x
         /\ \A k \in 1 .. Len(s) : t[k] = s[k]
  <1> DEFINE n == Len(s)
             S == {s[k] : k \in 1 .. n} \cup {x}
  <1>1. n \in Nat /\ n > 0 /\ s = [k \in 1 .. n |-> s[k]]
    BY DEF StackOK
  <1>2. s \in Seq(S) /\ x \in S
    BY <1>1
  <1> HIDE DEF S
  <1>3. t \in Seq(S) /\ Len(t) = n + 1 /\ t[n + 1] = x /\ \A k \in 1 .. n : t[k] = s[k]
    BY <1>1, <1>2, AppendProperties
  <1>4. t = [k \in 1 .. n + 1 |-> t[k]]
    <2>1. Len(t) = n + 1 /\ t \in Seq(S)
      BY <1>3
    <2>2. t \in [1 .. Len(t) -> S]
      BY <2>1, LenProperties
    <2>3. QED
      BY <2>1, <2>2
  <1>5. \A k \in 1 .. n + 1 : FrameOK(in, k, t[k])
    BY <1>1, <1>3 DEF StackOK
  <1>6. \A k \in 2 .. n + 1 : CallOK(in, t[k - 1], t[k])
    <2>1. \A k \in 2 .. n : CallOK(in, t[k - 1], t[k])
      BY <1>1, <1>3 DEF StackOK
    <2>2. CallOK(in, t[n], t[n + 1])
      <3>1. t[n] = s[n] /\ t[n + 1] = x
        <4>1. n \in 1 .. n
          BY <1>1
        <4>2. QED
          BY <1>3, <4>1, Zenon
      <3>2. QED
        BY <3>1
    <2>3. ASSUME NEW k \in 2 .. n + 1 PROVE CallOK(in, t[k - 1], t[k])
      <3>1. CASE k \in 2 .. n
        BY <2>1, <3>1
      <3>2. CASE k = n + 1
        <4>1. k - 1 = n
          BY <1>1, <3>2
        <4>2. QED
          BY <2>2, <3>2, <4>1
      <3>3. QED
        BY <1>1, <3>1, <3>2
    <2>4. QED
      BY <2>3
  <1>7. t[1].class = in.root /\ (in.copy = "google" => \A k \in 1 .. n + 1 : t[k].slot = 0)
    BY <1>1, <1>3 DEF StackOK
  <1>8. QED
    BY <1>1, <1>3, <1>4, <1>5, <1>6, <1>7 DEF StackOK

\* and the innermost frame is popped.
LEMMA StackShrinks ==
  ASSUME NEW in, NEW s, StackOK(in, s), Len(s) > 1, NEW t, t = SubSeq(s, 1, Len(s) - 1)
  PROVE  /\ StackOK(in, t) /\ Len(t) = Len(s) - 1
         /\ \A k \in 1 .. Len(s) - 1 : t[k] = s[k]
  <1> DEFINE n == Len(s)
             S == {s[k] : k \in 1 .. n}
  <1>1. n \in Nat /\ n > 0 /\ s = [k \in 1 .. n |-> s[k]]
    BY DEF StackOK
  <1>2. s \in Seq(S)
    BY <1>1
  <1> HIDE DEF S
  <1>3. t \in Seq(S) /\ Len(t) = n - 1 /\ \A k \in 1 .. n - 1 : t[k] = s[k]
    BY <1>1, <1>2, SubSeqProperties
  <1>4. t = [k \in 1 .. n - 1 |-> t[k]]
    BY <1>1, <1>3
  <1>5. \A k \in 2 .. n - 1 : CallOK(in, t[k - 1], t[k])
    BY <1>1, <1>3 DEF StackOK
  <1>6. QED
    BY <1>1, <1>3, <1>4, <1>5 DEF StackOK

--------------------------------------------------------------------------------
(* What the actions do to the stack.                                           *)

Statuses == {"parsing", "true", "false", "exit"}

\* What every action of MessageParse does to the stack and the status.
Keeps ==
  /\ StackOK(input, stack') /\ status' \in Statuses
  /\ Len(stack) > 1 => stack'[1].list = stack[1].list /\ stack'[1].seek = stack[1].seek

\* The innermost frame.
LEMMA TopIs ==
  ASSUME TypeInv
  PROVE  /\ Len(stack) \in Nat /\ Len(stack) > 0 /\ Top = stack[Len(stack)]
         /\ FrameOK(input, Len(stack), Top) /\ StackOK(input, stack)
         /\ Table = Tables[input.copy] /\ copy = input.copy /\ buffer = input.buffer
         /\ TableOK(Table) /\ input \in Inputs
  <1>1. StackOK(input, stack) /\ input \in Inputs
    BY DEF TypeInv
  <1>2. Len(stack) \in Nat /\ Len(stack) > 0 /\ Top = stack[Len(stack)] /\ FrameOK(input, Len(stack), Top)
    BY <1>1 DEF StackOK, Top
  <1>3. Table = Tables[input.copy] /\ copy = input.copy /\ buffer = input.buffer
    BY DEF Table, copy, buffer
  <1>4. QED
    BY <1>1, <1>2, <1>3, InputFacts

\* An action that replaces the innermost frame keeps the stack well formed,
LEMMA GoKeeps ==
  ASSUME TypeInv, NEW y, FrameOK(input, Len(stack), y), Replaces(y, Top), Go(y),
         status' \in Statuses
  PROVE  Keeps
  <1>1. Len(stack) \in Nat /\ Len(stack) > 0 /\ Top = stack[Len(stack)] /\ StackOK(input, stack)
    BY TopIs
  <1>2. StackOK(input, stack') /\ \A k \in 1 .. Len(stack) - 1 : stack'[k] = stack[k]
    <2>1. Replaces(y, stack[Len(stack)]) /\ stack' = [stack EXCEPT ![Len(stack)] = y]
      BY <1>1 DEF Go
    <2>2. StackOK(input, stack')
      BY <1>1, <2>1, StackTurns
    <2>3. \A k \in 1 .. Len(stack) - 1 : stack'[k] = stack[k]
      BY <1>1, <2>1, StackTurns
    <2>4. QED
      BY <2>2, <2>3
  <1>3. Len(stack) > 1 => 1 \in 1 .. Len(stack) - 1
    BY <1>1
  <1>4. QED
    BY <1>2, <1>3 DEF Keeps

\* and so does one that calls a parse function.
LEMMA EnterKeeps ==
  ASSUME TypeInv, NEW y, FrameOK(input, Len(stack), y), Replaces(y, Top),
         NEW x, FrameOK(input, Len(stack) + 1, x), CallOK(input, y, x), copy = "google" => x.slot = 0,
         stack' = Append([stack EXCEPT ![Len(stack)] = y], x), status' \in Statuses
  PROVE  Keeps
  <1> DEFINE t == [stack EXCEPT ![Len(stack)] = y]
  <1>1. Len(stack) \in Nat /\ Len(stack) > 0 /\ Top = stack[Len(stack)] /\ StackOK(input, stack) /\ copy = input.copy
    BY TopIs
  <1>2. /\ StackOK(input, t) /\ Len(t) = Len(stack) /\ t[Len(stack)] = y
        /\ \A k \in 1 .. Len(stack) - 1 : t[k] = stack[k]
    BY <1>1, StackTurns
  <1> HIDE DEF t
  <1>3. StackOK(input, stack') /\ \A k \in 1 .. Len(stack) : stack'[k] = t[k]
    <2>1. /\ FrameOK(input, Len(t) + 1, x) /\ CallOK(input, t[Len(t)], x)
          /\ input.copy = "google" => x.slot = 0
          /\ stack' = Append(t, x)
      BY <1>1, <1>2 DEF t
    <2>2. StackOK(input, stack')
      BY <1>2, <2>1, StackGrows
    <2>3. \A k \in 1 .. Len(t) : stack'[k] = t[k]
      BY <1>2, <2>1, StackGrows
    <2>4. QED
      BY <1>2, <2>2, <2>3
  <1>4. Len(stack) > 1 => stack'[1] = stack[1]
    BY <1>1, <1>2, <1>3
  <1>5. QED
    BY <1>3, <1>4 DEF Keeps

\* A frame with other parts.
LEMMA Reframed ==
  ASSUME NEW in, NEW k, NEW x, FrameOK(in, k, x), NEW y, DOMAIN y = FrameParts, Replaces(y, x),
         y.seek \in Seekers, y.until \in Nat, ObjectOK(in, x.class, y.object),
         ListOK(in, x.class, y.list)
  PROVE  FrameOK(in, k, y)
  BY DEF FrameOK, Replaces

\* A value stored in a field of an object.
LEMMA StoreKeeps ==
  ASSUME NEW in \in Inputs, NEW class \in DOMAIN Tables[in.copy], NEW object,
         ObjectOK(in, class, object), NEW f \in Tables[in.copy][class], NEW value,
         in.copy = "google" /\ f.kind = "message" => DOMAIN value = Names(Tables[in.copy][f.of])
  PROVE  ObjectOK(in, class, Store(object, f, value))
  <1> DEFINE T == Tables[in.copy][class]
             o == Store(object, f, value)
  <1>1. DOMAIN object = Names(T) /\ f.name \in DOMAIN object
    BY DEF ObjectOK, Names
  <1>2. DOMAIN o = Names(T)
    BY <1>1 DEF Store
  <1>3. ASSUME in.copy = "google", NEW g \in T, g.kind = "message", ~g.many, o[g.name] # <<>>
        PROVE  DOMAIN o[g.name][1] = Names(Tables[in.copy][g.of])
    <2>1. CASE g = f
      <3>1. o[g.name] = <<value>>
        BY <1>1, <1>3, <2>1 DEF Store
      <3>2. QED
        BY <1>3, <2>1, <3>1
    <2>2. CASE g # f
      <3>1. g.name # f.name
        BY <2>2, InputFacts DEF TableOK, FieldsOK, Distinct
      <3>2. o[g.name] = object[g.name]
        BY <1>1, <3>1 DEF Store
      <3>3. QED
        BY <1>3, <3>2 DEF ObjectOK
    <2>3. QED
      BY <2>1, <2>2
  <1>4. QED
    BY <1>2, <1>3 DEF ObjectOK

\* An object that is new.
LEMMA NewObjectOK ==
  ASSUME NEW in \in Inputs, NEW class \in DOMAIN Tables[in.copy]
  PROVE  /\ DOMAIN NewObject(Tables[in.copy][class]) = Names(Tables[in.copy][class])
         /\ ObjectOK(in, class, NewObject(Tables[in.copy][class]))
  <1> DEFINE T == Tables[in.copy][class]
  <1>1. DOMAIN NewObject(T) = Names(T)
    BY DEF NewObject
  <1>2. ASSUME NEW f \in T, f.kind = "message" PROVE NewObject(T)[f.name] = <<>>
    <2>1. f.name \in Names(T)
      BY DEF Names
    <2>2. Named(T, f.name) = f
      BY <2>1, InputFacts DEF Named, TableOK, FieldsOK, Distinct
    <2>3. QED
      BY <1>2, <2>1, <2>2 DEF NewObject, Default
  <1>3. QED
    BY <1>1, <1>2 DEF ObjectOK

\* The object of a function that returned, stored in that of its caller.
LEMMA PutKeeps ==
  ASSUME NEW in \in Inputs, NEW class \in DOMAIN Tables[in.copy], NEW object,
         ObjectOK(in, class, object), NEW f \in Tables[in.copy][class], NEW value, NEW slot,
         in.copy = "google" => slot = 0,
         in.copy = "google" /\ f.kind = "message" => DOMAIN value = Names(Tables[in.copy][f.of])
  PROVE  ObjectOK(in, class, Put(object, f, slot, value))
  <1>1. CASE slot = 0
    <2>1. Put(object, f, slot, value) = Store(object, f, value)
      BY <1>1 DEF Put
    <2>2. QED
      BY <2>1, StoreKeeps
  <1>2. CASE slot # 0
    <2>1. Put(object, f, slot, value) = [object EXCEPT ![f.name][slot] = value]
      BY <1>2 DEF Put
    <2>2. DOMAIN Put(object, f, slot, value) = DOMAIN object
      BY <2>1
    <2>3. QED
      BY <1>2, <2>2 DEF ObjectOK
  <1>3. QED
    BY <1>1, <1>2

\* A return keeps the stack well formed,
LEMMA ReturnKeeps ==
  ASSUME TypeInv, NEW ok, NEW y, FrameOK(input, Len(stack), y), Replaces(y, Top), Return(ok, y)
  PROVE  Keeps
  <1>0. PICK n \in Nat : n = Len(stack) /\ n > 0
    BY TopIs
  <1>1. n > 0 /\ Top = stack[n] /\ StackOK(input, stack) /\ input \in Inputs /\ n = Len(stack)
    BY <1>0, TopIs
  <1>2. CASE n = 1 \/ (~ok /\ Heeds(y.into))
    <2>1. Go(y) /\ status' \in Statuses
      BY <1>1, <1>2 DEF Return, Statuses
    <2>2. QED
      BY <2>1, GoKeeps
  <1>3. CASE ~(n = 1 \/ (~ok /\ Heeds(y.into)))
    <2> DEFINE t == SubSeq(stack, 1, n - 1)
               x == stack[n - 1]
               z == [x EXCEPT !.object = Put(x.object, y.into[1], y.slot, y.object)]
    <2>1. n > 1 /\ n - 1 \in Nat
      BY <1>1, <1>3
    <2>2. status' = status /\ stack' = [t EXCEPT ![n - 1].object = Put(@, y.into[1], y.slot, y.object)]
      BY <1>1, <1>3 DEF Return
    <2>3. StackOK(input, t) /\ Len(t) = n - 1
      BY <1>1, <2>1, StackShrinks
    <2>4. \A k \in 1 .. n - 1 : t[k] = stack[k]
      BY <1>1, <2>1, StackShrinks
    <2>5. t[n - 1] = x
      <3>1. n - 1 \in 1 .. n - 1
        BY <2>1
      <3>2. QED
        BY <2>4, <3>1
    <2> HIDE DEF t
    <2>6. stack' = [t EXCEPT ![n - 1] = z]
      BY <2>2, <2>5
    <2>7. FrameOK(input, n - 1, x)
      BY <1>1, <2>1 DEF StackOK
    <2>8. PICK f \in Tables[input.copy][x.class] :
            Top.into = <<f>> /\ f.kind = "message" /\ f.of = Top.class
      <3>1. n \in 2 .. n
        BY <1>1, <2>1
      <3>2. CallOK(input, stack[n - 1], stack[n])
        BY <1>1, <3>1 DEF StackOK
      <3>3. QED
        BY <1>1, <3>2 DEF CallOK
    <2>9. y.into[1] = f /\ y.class = f.of /\ (input.copy = "google" => y.slot = 0)
      <3>1. input.copy = "google" => stack[n].slot = 0
        BY <1>1 DEF StackOK
      <3>2. QED
        BY <1>1, <2>8, <3>1 DEF Replaces
    <2>10. ObjectOK(input, x.class, Put(x.object, f, y.slot, y.object))
      <3>1. DOMAIN y.object = Names(Tables[input.copy][f.of])
        BY <2>9 DEF FrameOK, ObjectOK
      <3>2. x.class \in DOMAIN Tables[input.copy] /\ ObjectOK(input, x.class, x.object)
        BY <2>7 DEF FrameOK
      <3>3. QED
        BY <1>1, <2>9, <3>1, <3>2, PutKeeps
    <2>11. /\ DOMAIN z = FrameParts /\ z.object = Put(x.object, f, y.slot, y.object)
           /\ z.class = x.class /\ z.into = x.into /\ z.slot = x.slot /\ z.seek = x.seek
           /\ z.list = x.list /\ z.until = x.until
      BY <2>7, <2>9 DEF FrameOK, FrameParts
    <2> HIDE DEF z, x
    <2>12. FrameOK(input, n - 1, z) /\ Replaces(z, x)
      <3>1. x.seek \in Seekers /\ x.until \in Nat /\ ListOK(input, x.class, x.list)
        BY <2>7 DEF FrameOK
      <3>2. Replaces(z, x)
        BY <2>11 DEF Replaces
      <3>3. QED
        BY <2>7, <2>10, <2>11, <3>1, <3>2, Reframed
    <2>13. StackOK(input, stack')
      BY ZenonT(60), <2>3, <2>5, <2>6, <2>12, StackTurns
    <2>14. stack'[1].list = stack[1].list /\ stack'[1].seek = stack[1].seek
      <3>1. stack'[n - 1] = z /\ \A k \in 1 .. n - 2 : stack'[k] = t[k]
        <4>1. t = [k \in 1 .. n - 1 |-> t[k]]
          BY <2>3 DEF StackOK
        <4>2. n - 1 \in DOMAIN t /\ \A k \in 1 .. n - 2 : k \in DOMAIN t /\ k # n - 1
          BY <2>1, <4>1
        <4>3. QED
          BY <2>6, <4>2
      <3>2. CASE n = 2
        <4>1. stack'[1] = z /\ x = stack[1]
          BY <3>1, <3>2 DEF x
        <4>2. QED
          BY <2>11, <4>1
      <3>3. CASE n > 2
        <4>1. 1 \in 1 .. n - 2 /\ 1 \in 1 .. n - 1
          BY <1>1, <3>3
        <4>2. stack'[1] = stack[1]
          BY <2>4, <3>1, <4>1
        <4>3. QED
          BY <4>2
      <3>4. QED
        BY <1>1, <2>1, <3>2, <3>3
    <2>15. status \in Statuses
      BY DEF TypeInv, Statuses
    <2>16. QED
      BY <2>2, <2>13, <2>14, <2>15 DEF Keeps
  <1>4. QED
    BY <1>2, <1>3

\* and a failure does.
LEMMA FailKeeps ==
  ASSUME TypeInv, Fail
  PROVE  Keeps
  <1>1. CASE style = "lib"
    <2>1. stack' = stack /\ status' \in Statuses
      BY <1>1 DEF Fail, Statuses
    <2>2. QED
      BY <2>1, TopIs DEF Keeps
  <1>2. CASE style # "lib"
    <2>1. Return(FALSE, Top)
      BY <1>2 DEF Fail
    <2>2. FrameOK(input, Len(stack), Top) /\ Replaces(Top, Top)
      BY TopIs DEF Replaces
    <2>3. QED
      BY <2>1, <2>2, ReturnKeeps
  <1>3. QED
    BY <1>1, <1>2

--------------------------------------------------------------------------------
(* What the readers give.                                                      *)

\* A result of a reader from the position s, of at most w bits.
ReadFrom(s, w, r) ==
  /\ r.ok \in BOOLEAN /\ r.wide \in BOOLEAN /\ r.seek \in Seekers /\ r.seek.end = s.end
  /\ r.value \in SUBSET (0 .. w - 1)
  /\ r.seek.curr >= s.curr
  /\ r.ok => s.curr < r.seek.curr /\ r.seek.curr <= s.end

\* A reader stays behind its start, and before its end if there is a varint.
LEMMA ReadsTyped ==
  ASSUME NEW bytes, NEW s \in Seekers
  PROVE  /\ ReadFrom(s, 32, ReadVarint32(bytes, s)) /\ ReadFrom(s, 64, ReadVarint64(bytes, s))
  <1>1. ASSUME NEW w \in Nat PROVE ReadFrom(s, w, Varint(bytes, s, w))
    <2>1. PICK r : r = Varint(bytes, s, w)
      OBVIOUS
    <2>2. r.ok \in BOOLEAN /\ r.wide \in BOOLEAN
      BY <2>1, VarintTyped
    <2>3. r.seek \in Seekers /\ r.seek.end = s.end /\ r.seek.curr >= s.curr
      BY <2>1, VarintTyped
    <2>4. r.value \in SUBSET (0 .. w - 1)
      BY <2>1, VarintTyped
    <2>5. r.ok => s.curr < r.seek.curr /\ r.seek.curr <= s.end
      BY <2>1, VarintTyped
    <2>6. QED
      BY <2>1, <2>2, <2>3, <2>4, <2>5 DEF ReadFrom
  <1>2. QED
    BY <1>1 DEF ReadVarint32, ReadVarint64

\* The same for the tag,
LEMMA TagTyped ==
  ASSUME TypeInv
  PROVE  /\ ReadFrom(Top.seek, 32, Tag)
         /\ Tag.value # {} => Tag.ok
  <1> DEFINE r == ReadVarint32(buffer, Top.seek)
  <1>1. Top.seek \in Seekers
    BY TopIs DEF FrameOK
  <1>2. ReadFrom(Top.seek, 32, r)
    BY <1>1, ReadsTyped
  <1>3. r = [ok |-> r.ok, seek |-> r.seek, value |-> r.value, wide |-> r.wide]
    BY <1>1 DEF ReadVarint32, Varint, Seekers
  <1>4. Tag = IF r.ok THEN r ELSE [r EXCEPT !.value = {}]
    BY DEF Tag, ReadTag
  <1> HIDE DEF r
  <1>5. CASE r.ok
    BY <1>2, <1>4, <1>5
  <1>6. CASE ~r.ok
    <2>1. Tag.ok = r.ok /\ Tag.seek = r.seek /\ Tag.value = {} /\ Tag.wide = r.wide
      BY <1>3, <1>4, <1>6
    <2>2. QED
      BY <1>2, <1>6, <2>1 DEF ReadFrom
  <1>7. QED
    BY <1>5, <1>6

\* and for a length.
LEMMA LengthTyped ==
  ASSUME TypeInv
  PROVE  ReadFrom(Tag.seek, 32, Length) /\ Size \in Nat
  <1>1. Tag.seek \in Seekers
    BY TagTyped DEF ReadFrom
  <1>2. ReadFrom(Tag.seek, 32, Length)
    BY <1>1, ReadsTyped DEF Length
  <1>3. Length.value \in SUBSET (0 .. 31)
    BY <1>2 DEF ReadFrom
  <1>4. QED
    BY <1>2, <1>3, NumberIsNatural DEF Size

--------------------------------------------------------------------------------
(* The actions of MessageParse.                                                *)

Stays == Keeps /\ input' = input /\ wide' \in BOOLEAN

\* The parts of the innermost frame.
LEMMA TopParts ==
  ASSUME TypeInv
  PROVE  /\ DOMAIN Top = FrameParts /\ Top.class \in DOMAIN Tables[input.copy]
         /\ ObjectOK(input, Top.class, Top.object)
         /\ Top.seek \in Seekers /\ Top.until \in Nat /\ ListOK(input, Top.class, Top.list)
         /\ input \in Inputs /\ status \in Statuses /\ wide \in BOOLEAN
         /\ FrameOK(input, Len(stack), Top)
  BY TopIs DEF FrameOK, TypeInv, Statuses

\* The innermost frame with other parts.
LEMMA TopTurns ==
  ASSUME TypeInv, NEW y, DOMAIN y = FrameParts, Replaces(y, Top), y.seek \in Seekers, y.until \in Nat,
         ObjectOK(input, Top.class, y.object), ListOK(input, Top.class, y.list)
  PROVE  FrameOK(input, Len(stack), y)
  BY TopParts, Reframed

\* A case is in the table of the innermost class.
LEMMA CasesAre ==
  ASSUME TypeInv, NEW f \in Cases
  PROVE  /\ InField /\ f \in Tables[input.copy][Top.class] /\ Bits(f.id) = FieldId(Tag.value)
  <1>1. InField /\ f \in {g \in Table[Top.class] : Bits(g.id) = FieldId(Tag.value)}
    BY DEF Cases
  <1>2. QED
    BY <1>1, TopIs

\* The actions of MessageParse keep the stack well formed.
LEMMA EndOfMessageKeeps ==
  ASSUME TypeInv, EndOfMessage
  PROVE  Stays
  <1> DEFINE y == [Top EXCEPT !.seek = Tag.seek]
  <1>1. PICK ok : Return(ok, y)
    BY DEF EndOfMessage
  <1>2. /\ DOMAIN y = FrameParts /\ y.seek = Tag.seek /\ y.until = Top.until /\ y.object = Top.object
        /\ y.list = Top.list /\ y.class = Top.class /\ y.into = Top.into /\ y.slot = Top.slot
    BY TopParts DEF FrameParts
  <1>3. Tag.seek \in Seekers
    BY TagTyped DEF ReadFrom
  <1> HIDE DEF y
  <1>4. FrameOK(input, Len(stack), y) /\ Replaces(y, Top)
    BY <1>2, <1>3, TopParts, TopTurns DEF Replaces
  <1>5. input' = input /\ wide' \in BOOLEAN
    <2>1. (wide \/ Tag.wide) \in BOOLEAN
      OBVIOUS
    <2>2. QED
      BY <2>1 DEF EndOfMessage
  <1>6. QED
    BY <1>1, <1>4, <1>5, ReturnKeeps DEF Stays

\* A number that a case reads.
LEMMA ReadTyped ==
  ASSUME TypeInv, NEW f
  PROVE  /\ ReadFrom(Tag.seek, 64, Read(f, Tag.seek))
  <1>1. Tag.seek \in Seekers
    BY TagTyped DEF ReadFrom
  <1>2. 0 .. 32 - 1 \subseteq 0 .. 64 - 1
    OBVIOUS
  <1>3. ReadFrom(Tag.seek, 32, Read(f, Tag.seek)) \/ ReadFrom(Tag.seek, 64, Read(f, Tag.seek))
    BY <1>1, ReadsTyped DEF Read
  <1>4. QED
    BY <1>2, <1>3 DEF ReadFrom

\* A number is read.
LEMMA ReadScalarKeeps ==
  ASSUME TypeInv, NEW f \in Cases, ReadScalar(f)
  PROVE  Stays
  <1> DEFINE r == Read(f, Tag.seek)
             o == Store(Top.object, f, Value(f, r.value))
             y == [Top EXCEPT !.seek = r.seek, !.fresh = FALSE, !.object = o]
  <1>1. f \in Tables[input.copy][Top.class] /\ f.kind # "message"
    BY CasesAre DEF ReadScalar, Scalar
  <1>2. ReadFrom(Tag.seek, 64, r)
    BY ReadTyped
  <1>3. (wide \/ Tag.wide \/ r.wide) \in BOOLEAN
    OBVIOUS
  <1>4. input' = input /\ wide' = (wide \/ Tag.wide \/ r.wide)
    BY DEF ReadScalar
  <1>5. CASE Bad(r, f.width)
    <2>1. Fail
      BY <1>5 DEF ReadScalar
    <2>2. QED
      BY <1>3, <1>4, <2>1, FailKeeps DEF Stays
  <1>6. CASE ~Bad(r, f.width)
    <2>1. Go(y) /\ status' = status
      BY <1>6 DEF ReadScalar
    <2> HIDE DEF r, o
    <2>2. /\ DOMAIN y = FrameParts /\ y.seek = r.seek /\ y.until = Top.until /\ y.object = o
          /\ y.list = Top.list /\ y.class = Top.class /\ y.into = Top.into /\ y.slot = Top.slot
      BY TopParts DEF FrameParts
    <2> HIDE DEF y
    <2>3. ObjectOK(input, Top.class, o)
      BY <1>1, TopParts, StoreKeeps DEF o
    <2>4. FrameOK(input, Len(stack), y) /\ Replaces(y, Top)
      BY <1>2, <2>2, <2>3, TopParts, TopTurns DEF Replaces, ReadFrom
    <2>5. Keeps
      BY <2>1, <2>4, TopParts, GoKeeps
    <2>6. QED
      BY <1>3, <1>4, <2>5 DEF Stays
  <1>7. QED
    BY <1>5, <1>6

\* Reading a length changes nothing else.
LEMMA ReadLengthStays ==
  ASSUME TypeInv, ReadLength
  PROVE  input' = input /\ wide' \in BOOLEAN
  <1>1. (wide \/ Tag.wide \/ Length.wide) \in BOOLEAN
    OBVIOUS
  <1>2. QED
    BY <1>1 DEF ReadLength

\* A string is read.
LEMMA ReadTextKeeps ==
  ASSUME TypeInv, NEW f \in Cases, ReadText(f)
  PROVE  Stays
  <1> DEFINE r == ReadString(buffer, Length.seek, Size)
             o == Store(Top.object, f, r.value)
             y == [Top EXCEPT !.seek = r.seek, !.fresh = FALSE, !.object = o]
  <1>1. f \in Tables[input.copy][Top.class] /\ f.kind # "message"
    BY CasesAre DEF ReadText
  <1>2. input' = input /\ wide' \in BOOLEAN
    BY ReadLengthStays DEF ReadText
  <1>3. CASE Fail
    BY <1>2, <1>3, FailKeeps DEF Stays
  <1>4. CASE Go(y) /\ status' = status
    <2>1. r.seek \in Seekers
      <3>1. Length.seek \in Seekers /\ Size \in Nat
        BY LengthTyped DEF ReadFrom
      <3>2. Skip(Length.seek, Size) \in Seekers
        BY <3>1 DEF Seekers, Skip
      <3>3. QED
        BY <3>1, <3>2 DEF ReadString
    <2> HIDE DEF r, o
    <2>2. /\ DOMAIN y = FrameParts /\ y.seek = r.seek /\ y.until = Top.until /\ y.object = o
          /\ y.list = Top.list /\ y.class = Top.class /\ y.into = Top.into /\ y.slot = Top.slot
      BY TopParts DEF FrameParts
    <2> HIDE DEF y
    <2>3. ObjectOK(input, Top.class, o)
      BY <1>1, TopParts, StoreKeeps DEF o
    <2>4. FrameOK(input, Len(stack), y) /\ Replaces(y, Top)
      BY <2>1, <2>2, <2>3, TopParts, TopTurns DEF Replaces
    <2>5. Keeps
      BY <1>4, <2>4, TopParts, GoKeeps
    <2>6. QED
      BY <1>2, <2>5 DEF Stays
  <1>5. QED
    BY <1>3, <1>4 DEF ReadText

\* A packed record is entered.
LEMMA EnterListKeeps ==
  ASSUME TypeInv, NEW f \in Cases, EnterList(f)
  PROVE  Stays
  <1> DEFINE u == IF Counted(f) THEN Size ELSE Length.seek.curr + Size
             y == [Top EXCEPT !.seek = Length.seek, !.fresh = FALSE, !.list = <<f>>, !.until = u]
  <1>1. f \in Tables[input.copy][Top.class] /\ f.kind = "int" /\ f.many
    BY CasesAre DEF EnterList
  <1>2. input' = input /\ wide' \in BOOLEAN
    BY ReadLengthStays DEF EnterList
  <1>3. CASE Fail
    BY <1>2, <1>3, FailKeeps DEF Stays
  <1>4. CASE Go(y) /\ status' = status
    <2>1. Length.seek \in Seekers /\ u \in Nat
      BY LengthTyped DEF ReadFrom, Seekers
    <2> HIDE DEF u
    <2>2. /\ DOMAIN y = FrameParts /\ y.seek = Length.seek /\ y.until = u /\ y.object = Top.object
          /\ y.list = <<f>> /\ y.class = Top.class /\ y.into = Top.into /\ y.slot = Top.slot
      BY TopParts DEF FrameParts
    <2> HIDE DEF y
    <2>3. ListOK(input, Top.class, y.list)
      BY <1>1, <2>2 DEF ListOK
    <2>4. FrameOK(input, Len(stack), y) /\ Replaces(y, Top)
      BY <2>1, <2>2, <2>3, TopParts, TopTurns DEF Replaces
    <2>5. Keeps
      BY <1>4, <2>4, TopParts, GoKeeps
    <2>6. QED
      BY <1>2, <2>5 DEF Stays
  <1>5. QED
    BY <1>3, <1>4 DEF EnterList

\* The frame that a parse function for f has at first.
LEMMA EnteredOK ==
  ASSUME TypeInv, NEW y, y.class = Top.class, NEW f \in Tables[input.copy][Top.class],
         f.kind = "message", NEW object,
         ObjectOK(input, f.of, object), NEW s \in Seekers, NEW slot
  PROVE  LET x == Frame(f.of, object, s, <<f>>, slot)
         IN  FrameOK(input, Len(stack) + 1, x) /\ CallOK(input, y, x)
  <1> DEFINE x == Frame(f.of, object, s, <<f>>, slot)
  <1>1. /\ f.of \in DOMAIN Tables[input.copy] /\ Depth(f.of) < Depth(Top.class)
        /\ Depth(f.of) \in 1 .. 3 /\ Depth(Top.class) \in 1 .. 3
    BY TopIs, TopParts DEF TableOK, FieldsOK
  <1>2. Depth(Top.class) + Len(stack) <= 4 /\ Len(stack) \in Nat
    BY TopIs DEF FrameOK
  <1>3. Depth(f.of) + (Len(stack) + 1) <= 4
    BY <1>1, <1>2
  <1>4. /\ DOMAIN x = FrameParts /\ x.class = f.of /\ x.object = object /\ x.seek = s
        /\ x.into = <<f>> /\ x.list = <<>> /\ x.until = 0
    BY DEF Frame, FrameParts
  <1> HIDE DEF x
  <1>5. FrameOK(input, Len(stack) + 1, x)
    BY <1>1, <1>3, <1>4 DEF FrameOK, ListOK
  <1>6. CallOK(input, y, x)
    BY <1>4 DEF CallOK
  <1>7. QED
    BY <1>5, <1>6 DEF x

\* A submessage is entered.
LEMMA EnterMessageKeeps ==
  ASSUME TypeInv, NEW f \in Cases, EnterMessage(f)
  PROVE  Stays
  <1> DEFINE old == IF f.many THEN <<>> ELSE Top.object[f.name]
             obj == IF style = "google" /\ old # <<>> THEN old[1] ELSE NewObject(Table[f.of])
             s == Skip(Length.seek, Size)
             i == SubSeeker(Length.seek, Size)
             y == [Top EXCEPT !.seek = s, !.fresh = FALSE]
             x == Frame(f.of, obj, i, <<f>>, 0)
  <1>1. f \in Tables[input.copy][Top.class] /\ f.kind = "message" /\ Table = Tables[input.copy]
    BY CasesAre, TopIs DEF EnterMessage
  <1>2. input' = input /\ wide' \in BOOLEAN
    BY ReadLengthStays DEF EnterMessage
  <1>3. CASE Bad(Length, 32) \/ TooLong
    <2>1. Fail
      BY <1>3 DEF EnterMessage
    <2>2. QED
      BY <1>2, <2>1, FailKeeps DEF Stays
  <1>4. CASE ~(Bad(Length, 32) \/ TooLong)
    <2>1. /\ stack' = Append([stack EXCEPT ![Len(stack)].seek = s, ![Len(stack)].fresh = FALSE], x)
          /\ status' = status
      BY <1>4 DEF EnterMessage
    <2>2. s \in Seekers /\ i \in Seekers
      BY LengthTyped DEF ReadFrom, Seekers, Skip, SubSeeker
    <2>3. ObjectOK(input, f.of, obj)
      <3>1. f.of \in DOMAIN Tables[input.copy]
        BY <1>1, TopIs, TopParts DEF TableOK, FieldsOK
      <3>2. CASE obj = NewObject(Table[f.of])
        BY <1>1, <3>1, <3>2, TopParts, NewObjectOK
      <3>3. CASE style = "google" /\ old # <<>> /\ obj = old[1]
        <4>1. ~f.many /\ old = Top.object[f.name]
          BY <3>3
        <4>2. input.copy = "google"
          <5>1. input.copy \in {"sequential", "generated", "generator", "google", "parallel",
                                "pthreads", "dac"}
            BY TopParts, InputFacts
          <5>2. QED
            BY <3>3, <5>1 DEF style, Style, copy
        <4>3. DOMAIN obj = Names(Tables[input.copy][f.of])
          BY <1>1, <3>3, <4>1, <4>2, TopParts DEF ObjectOK
        <4>4. f.of \in {"ValueType", "Address"}
          BY <1>1, <4>1, TopIs, TopParts DEF TableOK, FieldsOK
        <4>5. \A g \in Tables[input.copy][f.of] : g.kind # "message"
          BY <1>1, <3>1, <4>4, TopIs, NoMessages
        <4>6. QED
          BY <4>3, <4>5 DEF ObjectOK
      <3>4. QED
        BY <3>2, <3>3
    <2>4. [stack EXCEPT ![Len(stack)].seek = s, ![Len(stack)].fresh = FALSE]
            = [stack EXCEPT ![Len(stack)] = y]
      BY TopIs DEF StackOK
    <2> HIDE DEF s, i, obj
    <2>5. /\ DOMAIN y = FrameParts /\ y.seek = s /\ y.until = Top.until /\ y.object = Top.object
          /\ y.list = Top.list /\ y.class = Top.class /\ y.into = Top.into /\ y.slot = Top.slot
      BY TopParts DEF FrameParts
    <2> HIDE DEF y
    <2>6. FrameOK(input, Len(stack), y) /\ Replaces(y, Top)
      BY <2>2, <2>5, TopParts, TopTurns DEF Replaces
    <2>7. FrameOK(input, Len(stack) + 1, x) /\ CallOK(input, y, x)
      BY <1>1, <2>2, <2>3, <2>5, EnteredOK
    <2>8. x.slot = 0
      BY DEF Frame
    <2> HIDE DEF x
    <2>9. stack' = Append([stack EXCEPT ![Len(stack)] = y], x) /\ status' \in Statuses
      BY <2>1, <2>4, TopParts
    <2>10. Keeps
      BY <2>6, <2>7, <2>8, <2>9, EnterKeeps
    <2>11. QED
      BY <1>2, <2>10 DEF Stays
  <1>5. QED
    BY <1>3, <1>4

\* The field whose packed record is read.
LEMMA ListIs ==
  ASSUME TypeInv, Top.list # <<>>
  PROVE  /\ Top.list[1] \in Tables[input.copy][Top.class] /\ Top.list = <<Top.list[1]>>
         /\ Top.list[1].kind = "int" /\ Top.list[1].many
  BY TopParts DEF ListOK

\* The next value of a packed record.
LEMMA NextInListKeeps ==
  ASSUME TypeInv, NextInList
  PROVE  Stays
  <1> DEFINE f == Top.list[1]
             s == IF style = "google" THEN [Top.seek EXCEPT !.end = Top.until] ELSE Top.seek
             r == Read(f, s)
             o == Store(Top.object, f, r.value)
             u == IF Counted(f) THEN Top.until - 1 ELSE Top.until
             y == [Top EXCEPT !.seek.curr = r.seek.curr, !.object = o,
                              !.until = IF Counted(f) THEN @ - 1 ELSE @]
  <1>1. /\ f \in Tables[input.copy][Top.class] /\ f.kind = "int" /\ f.many
    BY ListIs DEF NextInList, InList
  <1>2. Top.seek \in Seekers /\ Top.until \in Nat
    BY TopParts
  <1>3. s \in Seekers
    BY <1>2 DEF Seekers
  <1> HIDE DEF s
  <1>4. r.seek \in Seekers
    BY <1>3, ReadsTyped DEF Read, ReadFrom
  <1>5. input' = input /\ wide' = (wide \/ r.wide)
    BY DEF NextInList, s
  <1>6. (wide \/ r.wide) \in BOOLEAN
    OBVIOUS
  <1>7. CASE Bad(r, f.width)
    <2>1. Fail
      BY <1>7 DEF NextInList, s
    <2>2. QED
      BY <1>5, <1>6, <2>1, FailKeeps DEF Stays
  <1>8. CASE ~Bad(r, f.width)
    <2>1. Go(y) /\ status' = status
      BY <1>8 DEF NextInList, s
    <2> HIDE DEF r, f
    <2>2. /\ DOMAIN y = FrameParts /\ y.seek = [Top.seek EXCEPT !.curr = r.seek.curr] /\ y.until = u
          /\ y.object = o
          /\ y.list = Top.list /\ y.class = Top.class /\ y.into = Top.into /\ y.slot = Top.slot
      BY TopParts DEF FrameParts
    <2>3. u \in Nat
      <3>1. CASE Counted(f)
        <4>1. Top.until > 0
          BY <3>1 DEF NextInList, More, f
        <4>2. QED
          BY <1>2, <3>1, <4>1
      <3>2. CASE ~Counted(f)
        BY <1>2, <3>2
      <3>3. QED
        BY <3>1, <3>2
    <2> HIDE DEF u, o, y
    <2>4. y.seek \in Seekers
      BY <1>2, <1>4, <2>2 DEF Seekers
    <2>5. ObjectOK(input, Top.class, o)
      BY <1>1, TopParts, StoreKeeps DEF o
    <2>6. FrameOK(input, Len(stack), y) /\ Replaces(y, Top)
      BY <2>2, <2>3, <2>4, <2>5, TopParts, TopTurns DEF Replaces
    <2>7. Keeps
      BY <2>1, <2>6, TopParts, GoKeeps
    <2>8. QED
      BY <1>5, <1>6, <2>7 DEF Stays
  <1>9. QED
    BY <1>7, <1>8

\* A packed record is left.
LEMMA LeaveListKeeps ==
  ASSUME TypeInv, LeaveList
  PROVE  Stays
  <1> DEFINE y == [Top EXCEPT !.list = <<>>]
  <1>1. Go(y) /\ status' = status /\ input' = input /\ wide' = wide
    BY DEF LeaveList
  <1>2. /\ DOMAIN y = FrameParts /\ y.seek = Top.seek /\ y.until = Top.until /\ y.object = Top.object
        /\ y.list = <<>> /\ y.class = Top.class /\ y.into = Top.into /\ y.slot = Top.slot
    BY TopParts DEF FrameParts
  <1> HIDE DEF y
  <1>3. FrameOK(input, Len(stack), y) /\ Replaces(y, Top)
    BY <1>2, TopParts, TopTurns DEF Replaces, ListOK
  <1>4. QED
    BY <1>1, <1>3, TopParts, GoKeeps DEF Stays

\* The positions behind an unknown field.
LEMMA UnknownEndsTyped ==
  ASSUME TypeInv
  PROVE  UnknownEnds \in SUBSET Nat
  <1> DEFINE r == ReadVarint64(buffer, Tag.seek)
  <1>1. Tag.seek \in Seekers /\ Length.seek \in Seekers /\ Size \in Nat
    BY TagTyped, LengthTyped DEF ReadFrom
  <1>2. r.seek \in Seekers
    BY <1>1, ReadsTyped DEF ReadFrom
  <1>3. Past \in Nat
    BY <1>1 DEF Past, Seekers
  <1> HIDE DEF r
  <1>4. /\ {IF r.ok THEN r.seek.curr ELSE Past} \in SUBSET Nat
        /\ {Tag.seek.curr + 8} \in SUBSET Nat
        /\ {IF Length.ok THEN Length.seek.curr + Size ELSE Past} \in SUBSET Nat
        /\ Tag.seek.curr .. Past \in SUBSET Nat
        /\ {Tag.seek.curr + 4} \in SUBSET Nat
        /\ {Past} \in SUBSET Nat
    BY <1>1, <1>2, <1>3 DEF Seekers
  <1>5. \/ UnknownEnds = {IF r.ok THEN r.seek.curr ELSE Past}
        \/ UnknownEnds = {Tag.seek.curr + 8}
        \/ UnknownEnds = {IF Length.ok THEN Length.seek.curr + Size ELSE Past}
        \/ UnknownEnds = Tag.seek.curr .. Past
        \/ UnknownEnds = {Tag.seek.curr + 4}
        \/ UnknownEnds = {Past}
    BY DEF UnknownEnds, r
  <1>6. QED
    BY <1>4, <1>5

\* A field that no case takes.
LEMMA PassFieldKeeps ==
  ASSUME TypeInv, PassField
  PROVE  Stays
  <1>1. input' = input /\ wide' = (wide \/ Tag.wide)
    BY DEF PassField
  <1>2. (wide \/ Tag.wide) \in BOOLEAN
    OBVIOUS
  <1>3. CASE Rejects \/ (Closed(Top.class) /\ Cases = {})
    <2>1. Return(FALSE, Top)
      BY <1>3 DEF PassField
    <2>2. Replaces(Top, Top)
      BY DEF Replaces
    <2>3. QED
      BY <1>1, <1>2, <2>1, <2>2, TopParts, ReturnKeeps DEF Stays
  <1>4. CASE ~(Rejects \/ (Closed(Top.class) /\ Cases = {}))
    <2>1. PICK end \in IF style = "google" THEN UnknownEnds ELSE {Tag.seek.curr} :
            IF end > Tag.seek.end /\ style = "google" THEN Fail
            ELSE /\ Go([Top EXCEPT !.fresh = FALSE, !.seek = [Tag.seek EXCEPT !.curr = end]])
                 /\ UNCHANGED status
      BY <1>4 DEF PassField
    <2>2. CASE Fail
      BY <1>1, <1>2, <2>2, FailKeeps DEF Stays
    <2>3. CASE /\ Go([Top EXCEPT !.fresh = FALSE, !.seek = [Tag.seek EXCEPT !.curr = end]])
               /\ UNCHANGED status
      <3> DEFINE s == [Tag.seek EXCEPT !.curr = end]
                 y == [Top EXCEPT !.fresh = FALSE, !.seek = s]
      <3>1. Tag.seek \in Seekers
        BY TagTyped DEF ReadFrom
      <3>2. end \in Nat
        BY <2>1, <3>1, UnknownEndsTyped DEF Seekers
      <3>3. s \in Seekers
        BY <3>1, <3>2 DEF Seekers
      <3> HIDE DEF s
      <3>4. /\ DOMAIN y = FrameParts /\ y.seek = s /\ y.until = Top.until /\ y.object = Top.object
            /\ y.list = Top.list /\ y.class = Top.class /\ y.into = Top.into /\ y.slot = Top.slot
        BY TopParts DEF FrameParts
      <3>5. Go(y) /\ status' = status
        BY <2>3 DEF s
      <3> HIDE DEF y
      <3>6. FrameOK(input, Len(stack), y) /\ Replaces(y, Top)
        BY <3>3, <3>4, TopParts, TopTurns DEF Replaces
      <3>7. Keeps
        BY <3>5, <3>6, TopParts, GoKeeps
      <3>8. QED
        BY <1>1, <1>2, <3>7 DEF Stays
    <2>4. QED
      BY <2>1, <2>2, <2>3
  <1>5. QED
    BY <1>3, <1>4

\* All actions of MessageParse.
LEMMA NextKeeps ==
  ASSUME TypeInv, Next
  PROVE  Stays
  <1>1. CASE EndOfMessage \/ NextInList \/ LeaveList \/ PassField
    BY <1>1, EndOfMessageKeeps, NextInListKeeps, LeaveListKeeps, PassFieldKeeps
  <1>2. ASSUME NEW f \in Cases, ReadScalar(f) \/ ReadText(f) \/ EnterMessage(f) \/ EnterList(f)
        PROVE  Stays
    BY <1>2, ReadScalarKeeps, ReadTextKeeps, EnterMessageKeeps, EnterListKeeps
  <1>3. QED
    BY <1>1, <1>2 DEF Next

\* A step of MessageParse in a tracked file: its root is not touched by the scan's.
LEMMA MessageStepKeeps ==
  ASSUME TypeInv, Next, UNCHANGED scan
  PROVE  TypeInv'
  <1>1. Keeps /\ input' = input /\ wide' \in BOOLEAN
    BY NextKeeps DEF Stays
  <1>2. tracker' = tracker /\ loop' = loop /\ left' = left
    BY DEF scan
  <1>3. copy' = copy /\ buffer' = buffer /\ (Tracked' <=> Tracked)
    BY <1>1 DEF copy, buffer, Tracked
  <1>4. ASSUME Tracked, loop = 0 PROVE Len(stack) > 1
    <2>1. stack[1].list = <<>>
      BY <1>4 DEF TypeInv
    <2>2. Looping \/ InList
      BY DEF Next, EndOfMessage, NextInList, LeaveList, PassField, Cases, InField, InLoop
    <2>3. CASE Len(stack) = 1
      BY <1>4, <2>1, <2>2, <2>3 DEF Looping, InList, Top
    <2>4. QED
      BY <2>3, TopIs
  <1>5. Tracked /\ loop = 0 => stack'[1].list = <<>> /\ stack'[1].seek.end = Len(buffer)
    BY <1>1, <1>4 DEF Keeps, TypeInv
  <1>6. StackOK(input', stack') /\ status' \in {"parsing", "true", "false", "exit"} /\ input' \in Inputs
    BY <1>1 DEF Keeps, Statuses, TypeInv
  <1>7. /\ tracker \in [1 .. MaxId -> Seq([curr : 0 .. Len(buffer), len : Nat])]
        /\ loop \in 0 .. Len(Loops) + 1
        /\ loop \in DOMAIN Loops => left \subseteq DOMAIN tracker[Loops[loop]]
    BY DEF TypeInv
  <1>8. QED
    BY <1>1, <1>2, <1>3, <1>5, <1>6, <1>7 DEF TypeInv

--------------------------------------------------------------------------------
(* The scan and the loops.                                                     *)

\* The fields that have a loop.
LEMMA LoopsAre ==
  /\ Len(Loops) = 7 /\ DOMAIN Loops = 1 .. 7
  /\ \A k \in DOMAIN Loops : Loops[k] \in {1, 2, 3, 4, 5, 6, 13}
  /\ \A k \in DOMAIN Loops : Loops[k] \in 1 .. MaxId
  BY DEF Loops, MaxId

\* The root frame of a tracked file.
LEMMA RootIs ==
  ASSUME TypeInv, TrackedRoot
  PROVE  /\ Len(stack) = 1 /\ Top = stack[1] /\ Top.class = "Profile" /\ Top.list = <<>>
         /\ Tracked /\ copy # "google" /\ style = "lib" /\ status = "parsing"
         /\ Tables[input.copy]["Profile"] = ProfileTable /\ Table["Profile"] = ProfileTable
         /\ "Profile" \in DOMAIN Tables[input.copy] /\ copy = input.copy
  <1>1. Len(stack) = 1 /\ Tracked /\ Top.list = <<>> /\ status = "parsing"
    BY DEF TrackedRoot
  <1>2. copy \in {"parallel", "pthreads"} /\ copy = input.copy
    BY <1>1, TopIs DEF Tracked
  <1>3. style = "lib" /\ copy # "google"
    BY <1>2 DEF style, Style
  <1>4. input.root = "Profile" /\ Tables[input.copy]["Profile"] = ProfileTable
        /\ "Profile" \in DOMAIN Tables[input.copy]
    BY <1>2, TopIs, InputFacts
  <1>5. stack[1].class = "Profile"
    BY <1>4 DEF TypeInv, StackOK
  <1>6. QED
    BY <1>1, <1>2, <1>3, <1>4, <1>5, TopIs

\* The fields of Profile that the scan and the loops treat apart.
LEMMA ProfileFieldsAre ==
  ASSUME TypeInv, TrackedRoot
  PROVE  /\ ProfileField(11) = Pointer(11, "period_type", "ValueType")
         /\ ProfileField(11) \in ProfileTable
         /\ \A k \in DOMAIN Loops :
              /\ ProfileField(Loops[k]) \in ProfileTable /\ ProfileField(Loops[k]).id = Loops[k]
              /\ ProfileField(Loops[k]).kind = "int" => ProfileField(Loops[k]).many
              /\ ProfileField(Loops[k]).kind = "string" => ProfileField(Loops[k]).name = "string_table"
  <1>1. Table["Profile"] = ProfileTable
    BY RootIs
  <1>2. \A f, g \in ProfileTable : f.id = g.id => f = g
    BY Members DEF ProfileTable
  <1>3. ASSUME NEW f \in ProfileTable PROVE ProfileField(f.id) = f
    BY <1>1, <1>2 DEF ProfileField
  <1>4. \A id \in {1, 2, 3, 4, 5, 6, 11, 13} : \E f \in ProfileTable : f.id = id
    BY Members DEF ProfileTable
  <1>5. \A f \in ProfileTable :
          /\ f.kind = "int" /\ f.id \in {1, 2, 3, 4, 5, 6, 13} => f.many
          /\ f.kind = "string" => f.name = "string_table"
          /\ f.id = 11 => f = Pointer(11, "period_type", "ValueType")
    BY Members DEF ProfileTable
  <1>6. ASSUME NEW k \in DOMAIN Loops
        PROVE  /\ ProfileField(Loops[k]) \in ProfileTable /\ ProfileField(Loops[k]).id = Loops[k]
               /\ ProfileField(Loops[k]).kind = "int" => ProfileField(Loops[k]).many
               /\ ProfileField(Loops[k]).kind = "string" => ProfileField(Loops[k]).name = "string_table"
    <2>1. PICK f \in ProfileTable : f.id = Loops[k]
      BY <1>4, LoopsAre
    <2>2. ProfileField(Loops[k]) = f /\ f.id \in {1, 2, 3, 4, 5, 6, 13}
      BY <1>3, <2>1, LoopsAre
    <2>3. QED
      BY <1>5, <2>1, <2>2
  <1>7. PICK f \in ProfileTable : f.id = 11
    BY <1>4
  <1>8. ProfileField(11) = f
    BY <1>3, <1>7
  <1>9. QED
    BY <1>5, <1>6, <1>7, <1>8

\* What the scan and the loops leave of TypeInv to show: the root frame becomes y.
LEMMA RootTurns ==
  ASSUME TypeInv, TrackedRoot, NEW y, DOMAIN y = FrameParts, Replaces(y, Top), y.seek \in Seekers,
         y.until \in Nat, DOMAIN y.object = DOMAIN Top.object, ListOK(input, "Profile", y.list), Go(y)
  PROVE  StackOK(input, stack') /\ stack'[1] = y
  <1>1. Len(stack) = 1 /\ Top = stack[1] /\ Top.class = "Profile" /\ input.copy # "google"
    BY RootIs
  <1>2. ObjectOK(input, Top.class, y.object)
    BY <1>1, TopParts DEF ObjectOK
  <1>3. FrameOK(input, Len(stack), y) /\ StackOK(input, stack)
    BY <1>1, <1>2, TopTurns, TopIs
  <1>4. Replaces(y, stack[Len(stack)]) /\ stack' = [stack EXCEPT ![Len(stack)] = y]
    BY <1>1 DEF Go
  <1>5. StackOK(input, stack')
    BY <1>3, <1>4, StackTurns
  <1>6. stack'[Len(stack)] = y
    <2>1. Len(stack) \in DOMAIN stack
      BY <1>1, <1>3 DEF StackOK
    <2>2. QED
      BY <1>4, <2>1
  <1>7. QED
    BY <1>1, <1>5, <1>6

\* What a step of the scan has to show.
LEMMA ScanStep ==
  ASSUME TypeInv, TrackedRoot, loop = 0, StackOK(input, stack'), stack'[1].list = <<>>,
         stack'[1].seek.end = stack[1].seek.end,
         input' = input, status' \in Statuses, wide' \in BOOLEAN, loop' = loop,
         tracker' \in [1 .. MaxId -> Seq([curr : 0 .. Len(buffer), len : Nat])]
  PROVE  TypeInv'
  <1>1. copy' = copy /\ buffer' = buffer /\ (Tracked' <=> Tracked)
    BY DEF copy, buffer, Tracked
  <1>2. input \in Inputs /\ loop' \in 0 .. Len(Loops) + 1 /\ loop' \notin DOMAIN Loops
    BY LoopsAre DEF TypeInv
  <1>3. stack[1].seek.end = Len(buffer)
    BY RootIs DEF TypeInv
  <1>4. QED
    BY <1>1, <1>2, <1>3 DEF TypeInv, Statuses

\* A step of the loops.
LEMMA LoopStep ==
  ASSUME TypeInv, StackOK(input, stack'), input' = input, status' \in Statuses, wide' \in BOOLEAN,
         tracker' = tracker, loop' \in 1 .. Len(Loops) + 1,
         loop' \in DOMAIN Loops => left' \subseteq DOMAIN tracker[Loops[loop']]
  PROVE  TypeInv'
  <1>1. copy' = copy /\ buffer' = buffer /\ (Tracked' <=> Tracked) /\ loop' # 0 /\ loop' \in 0 .. Len(Loops) + 1
    BY LoopsAre DEF copy, buffer, Tracked
  <1>2. /\ input \in Inputs
        /\ tracker \in [1 .. MaxId -> Seq([curr : 0 .. Len(buffer), len : Nat])]
    BY DEF TypeInv
  <1>3. QED
    BY <1>1, <1>2 DEF TypeInv, Statuses

\* Where the scan's tag and its length lie.
LEMMA ScanReads ==
  ASSUME TypeInv, Scanning
  PROVE  /\ TrackedRoot /\ loop = 0
         /\ Tag.seek \in Seekers /\ Tag.seek.end = stack[1].seek.end
         /\ Length.seek \in Seekers /\ Length.seek.end = stack[1].seek.end /\ Size \in Nat
         /\ Length.ok => Length.seek.curr \in 0 .. Len(buffer)
         /\ tracker \in [1 .. MaxId -> Seq([curr : 0 .. Len(buffer), len : Nat])]
         /\ DOMAIN Top = FrameParts /\ Top.until \in Nat /\ status \in Statuses
         /\ ListOK(input, "Profile", <<>>)
  <1>1. TrackedRoot /\ loop = 0
    BY DEF Scanning
  <1>2. Top = stack[1] /\ Tracked
    BY <1>1, RootIs
  <1>3. ReadFrom(stack[1].seek, 32, Tag) /\ ReadFrom(Tag.seek, 32, Length) /\ Size \in Nat
    BY <1>2, TagTyped, LengthTyped
  <1>4. stack[1].seek.end = Len(buffer)
    BY <1>1, <1>2 DEF TypeInv
  <1>5. Length.seek \in Seekers /\ (Length.ok => Length.seek.curr <= Tag.seek.end) /\ Tag.seek.end = Len(buffer)
    BY <1>3, <1>4 DEF ReadFrom
  <1>6. Length.ok => Length.seek.curr \in 0 .. Len(buffer)
    BY <1>5, <1>3 DEF Seekers, ReadFrom
  <1>7. QED
    BY <1>1, <1>3, <1>6, TopParts DEF ReadFrom, TypeInv, ListOK

\* A scan that fails leaves the root where it is.
LEMMA ScanFails ==
  ASSUME TypeInv, Scanning, Fail, input' = input, wide' \in BOOLEAN, loop' = loop, tracker' = tracker
  PROVE  TypeInv'
  <1>1. stack' = stack /\ status' \in Statuses
    BY ScanReads, RootIs DEF Fail, Statuses
  <1>2. StackOK(input, stack') /\ stack'[1].list = <<>>
    BY <1>1, ScanReads, RootIs, TopIs
  <1>3. QED
    BY <1>1, <1>2, ScanReads, ScanStep

--------------------------------------------------------------------------------
(* The actions of the scan.                                                    *)

\* The steps of the scan keep the type invariant.
LEMMA ScanVarintKeeps ==
  ASSUME TypeInv, ScanVarint
  PROVE  TypeInv'
  <1> DEFINE r == ReadVarint64(buffer, Tag.seek)
             takers == {f \in Table["Profile"] : OfId(f.id) /\ f.kind = "int"}
             o == IF takers = {} THEN Top.object ELSE Store(Top.object, CHOOSE f \in takers : TRUE, r.value)
             y == [Top EXCEPT !.seek = r.seek, !.object = o]
  <1>1. Scanning /\ input' = input /\ loop' = loop /\ tracker' = tracker
    BY DEF ScanVarint, scan
  <1>2. wide' = (wide \/ Tag.wide \/ r.wide) /\ (wide \/ Tag.wide \/ r.wide) \in BOOLEAN
    BY DEF ScanVarint
  <1>3. CASE ~r.ok
    <2>1. Fail
      BY <1>3 DEF ScanVarint
    <2>2. QED
      BY <1>1, <1>2, <2>1, ScanFails
  <1>4. CASE r.ok
    <2>1. Go(y) /\ status' = status
      BY <1>4 DEF ScanVarint
    <2>2. ReadFrom(Tag.seek, 64, r)
      BY <1>1, ScanReads, ReadsTyped
    <2>3. DOMAIN o = DOMAIN Top.object
      BY DEF Store
    <2> HIDE DEF r, o
    <2>4. /\ DOMAIN y = FrameParts /\ y.seek = r.seek /\ y.until = Top.until /\ y.object = o
          /\ y.list = Top.list /\ y.class = Top.class /\ y.into = Top.into /\ y.slot = Top.slot
      BY TopParts DEF FrameParts
    <2> HIDE DEF y
    <2>5. Top.list = <<>>
      BY <1>1, ScanReads, RootIs
    <2>6. StackOK(input, stack') /\ stack'[1] = y
      <3>1. ListOK(input, "Profile", y.list) /\ Replaces(y, Top)
        BY <2>4, <2>5 DEF ListOK, Replaces
      <3>2. TrackedRoot /\ y.seek \in Seekers /\ y.until \in Nat
        BY <1>1, <2>2, <2>4, ScanReads, TopParts DEF ReadFrom
      <3>3. QED
        BY <2>1, <2>3, <2>4, <3>1, <3>2, RootTurns
    <2>7. y.seek.end = stack[1].seek.end
      BY <1>1, <2>2, <2>4, ScanReads DEF ReadFrom
    <2>8. QED
      BY <1>1, <1>2, <2>1, <2>4, <2>5, <2>6, <2>7, ScanReads, ScanStep
  <1>5. QED
    BY <1>3, <1>4

\* The scan calls parseValueType.
LEMMA ScanPeriodTypeKeeps ==
  ASSUME TypeInv, ScanPeriodType
  PROVE  TypeInv'
  <1> DEFINE f == ProfileField(11)
             obj == NewObject(Table["ValueType"])
             s == Skip(Length.seek, Size)
             i == SubSeeker(Length.seek, Size)
             y == [Top EXCEPT !.seek = s]
             x == Frame("ValueType", obj, i, <<f>>, 0)
  <1>1. Scanning /\ loop' = loop /\ tracker' = tracker /\ status' = status
    BY DEF ScanPeriodType, scan
  <1>2. input' = input /\ wide' \in BOOLEAN
    BY ReadLengthStays DEF ScanPeriodType
  <1>3. /\ Len(stack) = 1 /\ Top = stack[1] /\ Top.class = "Profile" /\ Top.list = <<>>
        /\ Table = Tables[input.copy] /\ Tables[input.copy]["Profile"] = ProfileTable /\ copy # "google"
        /\ "Profile" \in DOMAIN Tables[input.copy]
    BY <1>1, ScanReads, RootIs, TopIs
  <1>4. f \in ProfileTable /\ f.kind = "message" /\ f.of = "ValueType"
    BY <1>1, ScanReads, ProfileFieldsAre, Members
  <1>5. stack' = Append([stack EXCEPT ![Len(stack)] = y], x)
    BY <1>3 DEF ScanPeriodType
  <1>6. s \in Seekers /\ i \in Seekers /\ s.end = stack[1].seek.end
    BY <1>1, ScanReads DEF Seekers, Skip, SubSeeker
  <1>7. ObjectOK(input, f.of, obj)
    <2>1. f.of \in DOMAIN Tables[input.copy]
      BY <1>3, <1>4, TopIs DEF TableOK, FieldsOK
    <2>2. QED
      BY <1>3, <1>4, <2>1, TopIs, NewObjectOK
  <1> HIDE DEF s, i, obj, f
  <1>8. /\ DOMAIN y = FrameParts /\ y.seek = s /\ y.until = Top.until /\ y.object = Top.object
        /\ y.list = Top.list /\ y.class = Top.class /\ y.into = Top.into /\ y.slot = Top.slot
    BY TopParts DEF FrameParts
  <1> HIDE DEF y
  <1>9. FrameOK(input, Len(stack), y) /\ Replaces(y, Top)
    BY <1>6, <1>8, TopParts, TopTurns DEF Replaces
  <1>10. FrameOK(input, Len(stack) + 1, x) /\ CallOK(input, y, x) /\ x.slot = 0
    <2>1. x = Frame(f.of, obj, i, <<f>>, 0)
      BY <1>4
    <2>2. FrameOK(input, Len(stack) + 1, x) /\ CallOK(input, y, x)
      BY <1>3, <1>4, <1>6, <1>7, <1>8, <2>1, EnteredOK
    <2>3. QED
      BY <2>2 DEF Frame
  <1> HIDE DEF x
  <1>11. StackOK(input, stack') /\ stack'[1] = y
    <2> DEFINE t == [stack EXCEPT ![Len(stack)] = y]
    <2>1. StackOK(input, stack) /\ Replaces(y, stack[Len(stack)])
      BY <1>3, <1>9, TopIs
    <2>2. StackOK(input, t) /\ Len(t) = 1 /\ t[1] = y
      <3>1. StackOK(input, t) /\ Len(t) = Len(stack)
        BY <1>9, <2>1, StackTurns
      <3>2. 1 \in DOMAIN stack
        BY <1>3, <2>1 DEF StackOK
      <3>3. QED
        BY <1>3, <3>1, <3>2
    <2> HIDE DEF t
    <2>3. FrameOK(input, Len(t) + 1, x) /\ CallOK(input, t[Len(t)], x)
      BY <1>3, <1>10, <2>2
    <2>4. stack' = Append(t, x)
      BY <1>5 DEF t
    <2>5. StackOK(input, stack')
      BY <1>10, <2>2, <2>3, <2>4, StackGrows
    <2>6. \A k \in 1 .. Len(t) : stack'[k] = t[k]
      BY <1>10, <2>2, <2>3, <2>4, StackGrows
    <2>7. QED
      BY <2>2, <2>5, <2>6
  <1>12. status \in Statuses
    BY TopParts
  <1>13. QED
    BY <1>1, <1>2, <1>3, <1>6, <1>8, <1>11, <1>12, ScanReads, ScanStep

\* The scan notes a record, which starts in the file.
LEMMA TrackKeeps ==
  ASSUME TypeInv, Track
  PROVE  TypeInv'
  <1> DEFINE y == [Top EXCEPT !.seek = Skip(Length.seek, Size)]
             R == [curr : 0 .. Len(buffer), len : Nat]
             r == [curr |-> Length.seek.curr, len |-> Size]
  <1>1. Scanning /\ loop' = loop
    BY DEF Track
  <1>2. input' = input /\ wide' \in BOOLEAN
    BY ReadLengthStays DEF Track
  <1>3. CASE ~Length.ok
    <2>1. Fail /\ tracker' = tracker
      BY <1>3 DEF Track
    <2>2. QED
      BY <1>1, <1>2, <2>1, ScanFails
  <1>4. CASE Length.ok
    <2>1. Go(y) /\ status' = status
      BY <1>4 DEF Track
    <2>2. PICK id \in 1 .. MaxId : tracker' = [tracker EXCEPT ![id] = Append(@, r)]
      BY <1>4 DEF Track
    <2>3. r \in R /\ tracker \in [1 .. MaxId -> Seq(R)]
      BY <1>1, <1>4, ScanReads
    <2> HIDE DEF r, R
    <2>4. tracker' \in [1 .. MaxId -> Seq(R)]
      <3>1. Append(tracker[id], r) \in Seq(R)
        BY <2>3, AppendProperties
      <3>2. QED
        BY <2>2, <2>3, <3>1
    <2>5. /\ DOMAIN y = FrameParts /\ y.seek = Skip(Length.seek, Size) /\ y.until = Top.until
          /\ y.object = Top.object
          /\ y.list = Top.list /\ y.class = Top.class /\ y.into = Top.into /\ y.slot = Top.slot
      BY TopParts DEF FrameParts
    <2> HIDE DEF y
    <2>6. Top.list = <<>>
      BY <1>1, ScanReads, RootIs
    <2>7. y.seek \in Seekers /\ y.seek.end = stack[1].seek.end
      <3>1. Length.seek \in Seekers /\ Length.seek.end = stack[1].seek.end /\ Size \in Nat
        BY <1>1, ScanReads
      <3>2. Skip(Length.seek, Size) \in Seekers /\ Skip(Length.seek, Size).end = stack[1].seek.end
        BY <3>1 DEF Seekers, Skip
      <3>3. QED
        BY <2>5, <3>2
    <2>8. StackOK(input, stack') /\ stack'[1] = y
      <3>1. ListOK(input, "Profile", y.list) /\ Replaces(y, Top)
        BY <2>5, <2>6 DEF ListOK, Replaces
      <3>2. TrackedRoot /\ y.until \in Nat
        BY <1>1, <2>5, ScanReads, TopParts
      <3>3. QED
        BY <2>1, <2>5, <2>7, <3>1, <3>2, RootTurns
    <2>9. status' \in Statuses
      BY <2>1, TopParts
    <2>10. QED
      BY <1>1, <1>2, <2>4, <2>5, <2>6, <2>7, <2>8, <2>9, ScanReads, ScanStep DEF R
  <1>5. QED
    BY <1>3, <1>4

\* The scan passes what it does not know.
LEMMA PassWireKeeps ==
  ASSUME TypeInv, PassWire
  PROVE  TypeInv'
  <1> DEFINE y == [Top EXCEPT !.seek = Tag.seek]
  <1>1. /\ Scanning /\ loop' = loop /\ tracker' = tracker /\ input' = input /\ status' = status
        /\ Go(y)
    BY DEF PassWire, scan
  <1>2. wide' = (wide \/ Tag.wide) /\ (wide \/ Tag.wide) \in BOOLEAN
    BY DEF PassWire
  <1>3. /\ DOMAIN y = FrameParts /\ y.seek = Tag.seek /\ y.until = Top.until /\ y.object = Top.object
        /\ y.list = Top.list /\ y.class = Top.class /\ y.into = Top.into /\ y.slot = Top.slot
    BY TopParts DEF FrameParts
  <1> HIDE DEF y
  <1>4. Top.list = <<>>
    BY <1>1, ScanReads, RootIs
  <1>5. StackOK(input, stack') /\ stack'[1] = y
    <2>1. ListOK(input, "Profile", y.list) /\ Replaces(y, Top)
      BY <1>3, <1>4 DEF ListOK, Replaces
    <2>2. TrackedRoot /\ y.until \in Nat /\ y.seek \in Seekers
      BY <1>1, <1>3, ScanReads, TopParts
    <2>3. QED
      BY <1>1, <1>3, <2>1, <2>2, RootTurns
  <1>6. QED
    BY <1>1, <1>2, <1>3, <1>4, <1>5, ScanReads, ScanStep

--------------------------------------------------------------------------------
(* The loops.                                                                  *)

\* The scan ends, and the vectors get their sizes.
LEMMA ResizeKeeps ==
  ASSUME TypeInv, Resize
  PROVE  TypeInv'
  <1>1. TrackedRoot /\ input' = input /\ status' = status /\ wide' \in BOOLEAN
        /\ tracker' = tracker /\ StartLoop(1)
    <2>1. (wide \/ Tag.wide) \in BOOLEAN
      OBVIOUS
    <2>2. QED
      BY <2>1 DEF Resize
  <1>2. PICK o : Go([Top EXCEPT !.object = o]) /\ DOMAIN o = DOMAIN Top.object
    <2> DEFINE looped == {ProfileField(Loops[k]) : k \in DOMAIN Loops}
               o == [n \in DOMAIN Top.object |->
                       IF n \in Names(looped) THEN Resized(Named(looped, n), Top.object[n])
                       ELSE Top.object[n]]
    <2>1. Go([Top EXCEPT !.object = o]) /\ DOMAIN o = DOMAIN Top.object
      BY DEF Resize
    <2>2. QED
      BY <2>1
  <1> DEFINE y == [Top EXCEPT !.object = o]
  <1>3. /\ DOMAIN y = FrameParts /\ y.seek = Top.seek /\ y.until = Top.until /\ y.object = o
        /\ y.list = Top.list /\ y.class = Top.class /\ y.into = Top.into /\ y.slot = Top.slot
    BY TopParts DEF FrameParts
  <1>4. Go(y)
    BY <1>2
  <1> HIDE DEF y
  <1>5. StackOK(input, stack')
    <2>1. ListOK(input, "Profile", y.list) /\ Replaces(y, Top)
      BY <1>1, <1>3, RootIs DEF ListOK, Replaces
    <2>2. y.until \in Nat /\ y.seek \in Seekers
      BY <1>3, TopParts
    <2>3. QED
      BY <1>1, <1>2, <1>3, <1>4, <2>1, <2>2, RootTurns
  <1>6. loop' = 1 /\ left' = DOMAIN tracker[Loops[1]]
    BY <1>1, LoopsAre DEF StartLoop
  <1>7. QED
    BY <1>1, <1>5, <1>6, TopParts, LoopsAre, LoopStep

\* The next loop takes the records of the next field.
LEMMA NextLoopKeeps ==
  ASSUME TypeInv, NextLoop
  PROVE  TypeInv'
  <1>1. /\ input' = input /\ stack' = stack /\ wide' = wide /\ tracker' = tracker /\ StartLoop(loop + 1)
        /\ loop \in DOMAIN Loops
    BY DEF NextLoop, Bulk
  <1>2. status' \in Statuses
    BY TopParts DEF NextLoop, Statuses
  <1>3. loop' \in 1 .. Len(Loops) + 1
    BY <1>1, LoopsAre DEF StartLoop
  <1>4. loop' \in DOMAIN Loops => left' \subseteq DOMAIN tracker[Loops[loop']]
    BY <1>1, LoopsAre DEF StartLoop
  <1>5. StackOK(input, stack')
    BY <1>1, TopIs
  <1>6. wide' \in BOOLEAN
    BY <1>1, TopParts
  <1>7. QED
    BY <1>1, <1>2, <1>3, <1>4, <1>5, <1>6, LoopStep

\* An element of a sequence.
LEMMA ElementOf ==
  ASSUME NEW R, NEW s \in Seq(R), NEW i \in DOMAIN s
  PROVE  s[i] \in R
  BY LenProperties, ElementOfSeq

\* The record that a loop takes, and its field.
LEMMA BulkIs ==
  ASSUME TypeInv, Bulk, NEW i \in left
  PROVE  /\ TrackedRoot /\ loop \in DOMAIN Loops /\ i \in DOMAIN tracker[Loops[loop]]
         /\ Seek(i) \in Seekers /\ BulkField \in ProfileTable
         /\ tracker[Loops[loop]][i] \in [curr : 0 .. Len(buffer), len : Nat]
         /\ BulkField.kind = "int" => BulkField.many
         /\ BulkField.kind = "string" => BulkField.name = "string_table"
  <1>1. TrackedRoot /\ loop \in DOMAIN Loops
    BY DEF Bulk
  <1>2. Loops[loop] \in 1 .. MaxId /\ loop \in 1 .. Len(Loops)
    BY <1>1, LoopsAre
  <1>3. i \in DOMAIN tracker[Loops[loop]]
    BY <1>1 DEF TypeInv
  <1>4. tracker[Loops[loop]] \in Seq([curr : 0 .. Len(buffer), len : Nat])
    BY <1>2 DEF TypeInv
  <1>5. tracker[Loops[loop]][i] \in [curr : 0 .. Len(buffer), len : Nat]
    BY <1>3, <1>4, ElementOf
  <1>6. Seek(i) \in Seekers
    <2>1. tracker[Loops[loop]][i].curr \in Nat /\ tracker[Loops[loop]][i].len \in Nat
      BY <1>5
    <2>2. QED
      BY <2>1 DEF Seek, Seekers
  <1>7. QED
    BY <1>1, <1>3, <1>5, <1>6, ProfileFieldsAre DEF BulkField

\* A loop has a record less to parse.
LEMMA BulkLeaves ==
  ASSUME TypeInv, Bulk, NEW i \in left, StackOK(input, stack'), left' = left \ {i},
         input' = input, status' = status, wide' = wide, tracker' = tracker, loop' = loop
  PROVE  TypeInv'
  <1>1. loop \in DOMAIN Loops /\ left \subseteq DOMAIN tracker[Loops[loop]]
    BY DEF Bulk, TypeInv
  <1>2. loop' \in 1 .. Len(Loops) + 1
    BY <1>1, LoopsAre
  <1>3. QED
    BY <1>1, <1>2, TopParts, LoopStep

\* A loop parses a submessage,
LEMMA BulkMessageKeeps ==
  ASSUME TypeInv, NEW i \in left, BulkMessage(i)
  PROVE  TypeInv'
  <1> DEFINE f == BulkField
             obj == NewObject(Table[f.of])
             x == Frame(f.of, obj, Seek(i), <<f>>, i)
  <1>1. /\ Bulk /\ f.kind = "message" /\ stack' = Append(stack, x) /\ left' = left \ {i}
        /\ input' = input /\ status' = status /\ wide' = wide /\ tracker' = tracker /\ loop' = loop
    BY DEF BulkMessage
  <1>2. TrackedRoot /\ Seek(i) \in Seekers /\ f \in ProfileTable
    BY <1>1, BulkIs
  <1>3. /\ Len(stack) = 1 /\ Top = stack[1] /\ Top.class = "Profile" /\ copy # "google"
        /\ Table = Tables[input.copy] /\ Tables[input.copy]["Profile"] = ProfileTable
        /\ "Profile" \in DOMAIN Tables[input.copy] /\ copy = input.copy
    BY <1>2, RootIs, TopIs
  <1> HIDE DEF f
  <1>4. ObjectOK(input, f.of, obj)
    <2>1. f.of \in DOMAIN Tables[input.copy]
      BY <1>1, <1>2, <1>3, TopIs DEF TableOK, FieldsOK
    <2>2. QED
      BY <1>3, <2>1, TopIs, NewObjectOK
  <1> HIDE DEF obj
  <1>5. FrameOK(input, Len(stack) + 1, x) /\ CallOK(input, Top, x)
    BY <1>1, <1>2, <1>3, <1>4, EnteredOK
  <1> HIDE DEF x
  <1>6. StackOK(input, stack')
    <2>1. StackOK(input, stack) /\ CallOK(input, stack[Len(stack)], x) /\ input.copy # "google"
      BY <1>3, <1>5, TopIs
    <2>2. QED
      BY <1>1, <1>5, <2>1, StackGrows
  <1>7. QED
    BY <1>1, <1>6, BulkLeaves

\* a string,
LEMMA BulkTextKeeps ==
  ASSUME TypeInv, NEW i \in left, BulkText(i)
  PROVE  TypeInv'
  <1> DEFINE v == ReadString(buffer, Seek(i), tracker[Loops[loop]][i].len).value
             o == [Top.object EXCEPT !.string_table = [Top.object.string_table EXCEPT ![i] = v]]
             y == [Top EXCEPT !.object = o]
  <1>1. /\ Bulk /\ left' = left \ {i} /\ Go([Top EXCEPT !.object.string_table[i] = v])
        /\ input' = input /\ status' = status /\ wide' = wide /\ tracker' = tracker /\ loop' = loop
    BY DEF BulkText
  <1> HIDE DEF v
  <1>2. Go(y) /\ DOMAIN o = DOMAIN Top.object
    BY <1>1
  <1> HIDE DEF o
  <1>3. /\ DOMAIN y = FrameParts /\ y.seek = Top.seek /\ y.until = Top.until /\ y.object = o
        /\ y.list = Top.list /\ y.class = Top.class /\ y.into = Top.into /\ y.slot = Top.slot
    BY TopParts DEF FrameParts
  <1> HIDE DEF y
  <1>4. StackOK(input, stack')
    <2>1. TrackedRoot
      BY <1>1, BulkIs
    <2>2. ListOK(input, "Profile", y.list) /\ Replaces(y, Top)
      BY <1>3, <2>1, RootIs DEF ListOK, Replaces
    <2>3. y.until \in Nat /\ y.seek \in Seekers
      BY <1>3, TopParts
    <2>4. QED
      BY <1>2, <1>3, <2>1, <2>2, <2>3, RootTurns
  <1>5. QED
    BY <1>1, <1>4, BulkLeaves

\* or a packed record of comments.
LEMMA BulkCommentKeeps ==
  ASSUME TypeInv, NEW i \in left, BulkComment(i)
  PROVE  TypeInv'
  <1> DEFINE f == BulkField
             y == [Top EXCEPT !.seek = Seek(i), !.list = <<f>>, !.until = Seek(i).end]
  <1>1. /\ Bulk /\ f.kind = "int" /\ left' = left \ {i} /\ Go(y)
        /\ input' = input /\ status' = status /\ wide' = wide /\ tracker' = tracker /\ loop' = loop
    BY DEF BulkComment
  <1>2. TrackedRoot /\ Seek(i) \in Seekers /\ f \in ProfileTable /\ f.many
    BY <1>1, BulkIs
  <1> HIDE DEF f
  <1>3. /\ DOMAIN y = FrameParts /\ y.seek = Seek(i) /\ y.until = Seek(i).end /\ y.object = Top.object
        /\ y.list = <<f>> /\ y.class = Top.class /\ y.into = Top.into /\ y.slot = Top.slot
    BY TopParts DEF FrameParts
  <1> HIDE DEF y
  <1>4. StackOK(input, stack')
    <2>1. ListOK(input, "Profile", y.list) /\ Replaces(y, Top)
      BY <1>1, <1>2, <1>3, RootIs DEF ListOK, Replaces
    <2>2. y.until \in Nat
      BY <1>2, <1>3 DEF Seekers
    <2>3. QED
      BY <1>1, <1>2, <1>3, <2>1, <2>2, RootTurns
  <1>5. QED
    BY <1>1, <1>4, BulkLeaves

--------------------------------------------------------------------------------
(* The type invariant.                                                         *)

\* The root function is called on the whole file.
LEMMA TypeInvInit == BulkInit => TypeInv
  <1> SUFFICES ASSUME BulkInit PROVE TypeInv
    OBVIOUS
  <1> DEFINE o == NewRoot(input.copy, input.root)
             s == [curr |-> 0, end |-> Len(input.buffer)]
             x == Frame(input.root, o, s, <<>>, 0)
             D == [id \in 1 .. MaxId |-> <<>>]
  <1>1. /\ input \in Inputs /\ stack = <<x>> /\ status = "parsing" /\ wide = FALSE
        /\ tracker = D /\ loop = 0 /\ left = {}
    BY DEF BulkInit, Init, TrackedInit
  <1>2. input.root \in {"Profile", "Person"} /\ Depth(input.root) = 3
        /\ input.root \in DOMAIN Tables[input.copy] /\ Len(input.buffer) \in Nat
    BY <1>1, InputFacts DEF Depth
  <1>3. ObjectOK(input, input.root, o)
    BY <1>1, InputFacts DEF ObjectOK
  <1>4. s \in Seekers
    BY <1>2 DEF Seekers
  <1> HIDE DEF o, s
  <1>5. /\ DOMAIN x = FrameParts /\ x.class = input.root /\ x.object = o /\ x.seek = s
        /\ x.list = <<>> /\ x.until = 0 /\ x.slot = 0
    BY DEF Frame, FrameParts
  <1> HIDE DEF x
  <1>6. FrameOK(input, 1, x)
    BY <1>2, <1>3, <1>4, <1>5 DEF FrameOK, ListOK
  <1>7. StackOK(input, stack)
    <2>1. Len(stack) = 1 /\ stack[1] = x /\ stack = [k \in 1 .. 1 |-> stack[k]]
      BY <1>1
    <2>2. QED
      BY <1>5, <1>6, <2>1 DEF StackOK
  <1>8. tracker \in [1 .. MaxId -> Seq([curr : 0 .. Len(buffer), len : Nat])]
    BY <1>1
  <1>9. stack[1].list = <<>> /\ stack[1].seek.end = Len(buffer)
    BY <1>1, <1>5 DEF s, buffer
  <1>10. loop \in 0 .. Len(Loops) + 1 /\ loop \notin DOMAIN Loops
    BY <1>1, LoopsAre
  <1>11. QED
    BY <1>1, <1>7, <1>8, <1>9, <1>10 DEF TypeInv

\* Every step keeps the type invariant.
LEMMA TypeInvStep == TypeInv /\ [BulkNext]_allvars => TypeInv'
  <1> SUFFICES ASSUME TypeInv, [BulkNext]_allvars PROVE TypeInv'
    OBVIOUS
  <1>1. CASE Next /\ UNCHANGED scan
    BY <1>1, MessageStepKeeps
  <1>2. CASE ScanVarint \/ ScanPeriodType \/ Track \/ PassWire
    BY <1>2, ScanVarintKeeps, ScanPeriodTypeKeeps, TrackKeeps, PassWireKeeps
  <1>3. CASE Resize \/ NextLoop
    BY <1>3, ResizeKeeps, NextLoopKeeps
  <1>4. ASSUME NEW i \in left, BulkMessage(i) \/ BulkText(i) \/ BulkComment(i)
        PROVE  TypeInv'
    BY <1>4, BulkMessageKeeps, BulkTextKeeps, BulkCommentKeeps
  <1>5. CASE UNCHANGED allvars
    <2>1. /\ input' = input /\ stack' = stack /\ status' = status /\ wide' = wide
          /\ tracker' = tracker /\ loop' = loop /\ left' = left
      BY <1>5 DEF allvars, vars, scan
    <2>2. copy' = copy /\ buffer' = buffer /\ (Tracked' <=> Tracked)
      BY <2>1 DEF copy, buffer, Tracked
    <2>3. QED
      BY <2>1, <2>2 DEF TypeInv
  <1>6. QED
    BY <1>1, <1>2, <1>3, <1>4, <1>5 DEF BulkNext, Stopped

\* At every time the stack of calls is well formed: each frame has the fields of
\* its class and a position and an end that are naturals, it was called for a
\* submessage of its caller, and the calls are three deep at most; every record
\* that the scan has noted starts in the file, and a loop takes noted records only.
\* This is so for all inputs, whole or cut, of all seven copies.
THEOREM TypeInvariant == Spec => []TypeInv
  <1>1. BulkInit => TypeInv
    BY TypeInvInit
  <1>2. TypeInv /\ [BulkNext]_allvars => TypeInv'
    BY TypeInvStep
  <1>3. QED
    BY <1>1, <1>2, PTL DEF Spec

\* The type invariant that the run checks is part of it.
LEMMA TypesFollow == TypeInv => TypeOK
  <1> SUFFICES ASSUME TypeInv PROVE TypeOK
    OBVIOUS
  <1>1. PICK n \in Nat : n = Len(stack) /\ n > 0 /\ stack = [k \in 1 .. n |-> stack[k]]
    BY TopIs DEF StackOK
  <1>2. DOMAIN stack = 1 .. n
    BY <1>1
  <1>3. \A k \in 1 .. n : FrameOK(input, k, stack[k])
    BY <1>1, TopIs DEF StackOK
  <1>4. n \in 1 .. 3
    <2>1. stack[n].class \in DOMAIN Tables[input.copy] /\ Depth(stack[n].class) + n <= 4
      BY <1>1, <1>3 DEF FrameOK
    <2>2. Depth(stack[n].class) \in 1 .. 3
      BY <2>1, TopIs DEF TableOK, FieldsOK
    <2>3. PICK d \in 1 .. 3 : d = Depth(stack[n].class)
      BY <2>2
    <2>4. d + n <= 4
      BY <2>1, <2>3
    <2>5. n <= 3
      BY <2>4
    <2>6. n > 0
      BY <1>1
    <2>7. QED
      BY <2>5, <2>6
  <1>5. ASSUME NEW k \in 1 .. n
        PROVE  /\ DOMAIN stack[k].object = Names(Table[stack[k].class])
               /\ stack[k].seek.curr \in Nat /\ stack[k].seek.end \in Nat
               /\ Len(stack[k].list) \in 0 .. 1
    <2>1. FrameOK(input, k, stack[k])
      BY <1>3
    <2>2. DOMAIN stack[k].object = Names(Table[stack[k].class])
      BY <2>1, TopIs DEF FrameOK, ObjectOK
    <2>3. stack[k].seek.curr \in Nat /\ stack[k].seek.end \in Nat
      BY <2>1 DEF FrameOK, Seekers
    <2>4. stack[k].list = <<>> \/ \E f : stack[k].list = <<f>>
      BY <2>1 DEF FrameOK, ListOK
    <2>5. Len(stack[k].list) = 0 \/ Len(stack[k].list) = 1
      <3>1. CASE stack[k].list = <<>>
        BY <3>1
      <3>2. ASSUME NEW f, stack[k].list = <<f>> PROVE Len(stack[k].list) = 1
        <4>1. Len(<<f>>) = 1
          OBVIOUS
        <4>2. QED
          BY <3>2, <4>1
      <3>3. QED
        BY <2>4, <3>1, <3>2
    <2>6. QED
      BY <2>2, <2>3, <2>5
  <1>6. ASSUME NEW id \in 1 .. MaxId, NEW i \in DOMAIN tracker[id]
        PROVE  tracker[id][i].curr \in 0 .. Len(buffer)
    <2>1. tracker[id] \in Seq([curr : 0 .. Len(buffer), len : Nat])
      BY DEF TypeInv
    <2>2. tracker[id][i] \in [curr : 0 .. Len(buffer), len : Nat]
      BY <2>1, ElementOf
    <2>3. QED
      BY <2>2
  <1>7. QED
    BY <1>1, <1>2, <1>4, <1>5, <1>6 DEF TypeOK, TypeInv

\* TypeOK holds for all inputs: no parse function reads into an object that has not
\* the fields of its class, no record is noted that starts behind the file, and a
\* loop parses only records that the scan has noted.
THEOREM TypeCorrect == Spec => []TypeOK
  BY TypeInvariant, TypesFollow, PTL

--------------------------------------------------------------------------------
(* Written messages.                                                           *)

\* The writer's tables.
LEMMA SchemaIs ==
  /\ Schema = AllTables(64)
  /\ "broken" \notin DOMAIN Schema /\ "packed" \notin DOMAIN Schema
  <1>1. Schema = AllTables(64)
    BY TablesAre DEF Schema, Width
  <1>2. QED
    BY <1>1 DEF AllTables

\* A part lies in the file, and so does what it leads to.
LEMMA PartIs ==
  ASSUME NEW in \in Inputs, NEW parts, Encoded(in, parts), NEW c, NEW p, NEW e, <<c, p, e>> \in parts
  PROVE  /\ p \in Nat /\ e \in Nat /\ p <= e /\ e <= Len(in.buffer)
         /\ PartsAfter(in, <<c, p, e>>) \subseteq parts /\ Broken \notin parts
         /\ Len(in.buffer) \in Nat
  <1>1. Len(in.buffer) \in Nat
    BY InputFacts
  <1>2. <<c, p, e>> \in (DOMAIN Schema \cup {"packed"}) \X (0 .. Len(in.buffer)) \X (0 .. Len(in.buffer))
    BY DEF Encoded
  <1>3. p \in 0 .. Len(in.buffer) /\ e \in 0 .. Len(in.buffer)
    BY <1>2
  <1>4. p <= e /\ PartsAfter(in, <<c, p, e>>) \subseteq parts
    BY DEF Encoded
  <1>5. Broken \notin parts
    <2>1. SUFFICES ASSUME Broken \in parts PROVE FALSE
      OBVIOUS
    <2>2. Broken \in (DOMAIN Schema \cup {"packed"}) \X (0 .. Len(in.buffer)) \X (0 .. Len(in.buffer))
      BY <2>1 DEF Encoded
    <2>3. "broken" \in DOMAIN Schema \cup {"packed"}
      BY <2>2 DEF Broken
    <2>4. QED
      BY <2>3, SchemaIs
  <1>6. QED
    BY <1>1, <1>3, <1>4, <1>5

\* The end that EndAt finds, of at most n bytes.
LEMMA EndIs ==
  ASSUME NEW bytes, NEW p \in Nat, NEW e \in Nat
  PROVE  EndAt(bytes, p, e) \in Nat
  <1>1. [curr |-> p, end |-> e] \in Seekers
    BY DEF Seekers
  <1>2. QED
    BY <1>1, ReadsTyped DEF EndAt, ReadFrom, Seekers

\* What the reader makes of a varint that lies from s to q.
ReadsTo(bytes, s, w, r, q) ==
  /\ r.ok /\ r.seek = [curr |-> q, end |-> s.end]
  /\ r.value = Low(bytes, s.curr, q, w)
  /\ r.wide => 7 * (q - 1 - s.curr) >= w

\* A varint that lies in the bytes is read.
LEMMA LiesReads ==
  ASSUME NEW bytes, NEW s \in Seekers, NEW w \in Nat, NEW q \in Nat, Lies(bytes, s.curr, q), q <= s.end
  PROVE  ReadsTo(bytes, s, w, Varint(bytes, s, w), q)
  <1>1. PICK r : r = Varint(bytes, s, w)
    OBVIOUS
  <1>2. r.ok
    BY <1>1, VarintLies
  <1>3. r.seek = [curr |-> q, end |-> s.end]
    BY <1>1, VarintLies
  <1>4. r.value = Low(bytes, s.curr, q, w)
    BY ZenonT(60), <1>1, VarintLies
  <1>5. r.wide => 7 * (q - 1 - s.curr) >= w
    BY <1>1, VarintLies
  <1>6. QED
    BY <1>1, <1>2, <1>3, <1>4, <1>5 DEF ReadsTo

\* The same for the two readers of lib.h.
LEMMA LiesRead ==
  ASSUME NEW bytes, NEW s \in Seekers, NEW q \in Nat, NEW n \in Nat, LiesIn(bytes, s.curr, q, n),
         q <= s.end
  PROVE  /\ ReadVarint32(bytes, s).ok /\ ReadVarint32(bytes, s).seek = [curr |-> q, end |-> s.end]
         /\ ReadVarint32(bytes, s).value = Worth(bytes, s.curr, q)
         /\ n <= 5 => ~ReadVarint32(bytes, s).wide
         /\ ReadVarint64(bytes, s).ok /\ ReadVarint64(bytes, s).seek = [curr |-> q, end |-> s.end]
         /\ n <= 10 => ~ReadVarint64(bytes, s).wide
  <1>1. q - s.curr <= n /\ s.curr \in Nat
    BY DEF LiesIn, Seekers
  <1>2. Lies(bytes, s.curr, q)
    BY DEF LiesIn
  <1>3. PICK u \in Seekers : u = [curr |-> s.curr, end |-> q] /\ u.curr = s.curr /\ u.end = q
    <2>1. [curr |-> s.curr, end |-> q] \in Seekers
      BY <1>1 DEF Seekers
    <2>2. QED
      BY <2>1
  <1>4. Lies(bytes, u.curr, q) /\ q <= u.end
    BY <1>2, <1>3
  <1>5. 32 \in Nat /\ 64 \in Nat
    OBVIOUS
  <1>6. /\ ReadsTo(bytes, s, 32, ReadVarint32(bytes, s), q)
        /\ ReadsTo(bytes, s, 64, ReadVarint64(bytes, s), q)
        /\ ReadsTo(bytes, u, 32, ReadVarint32(bytes, u), q)
    BY <1>2, <1>4, <1>5, LiesReads, Zenon DEF ReadVarint32, ReadVarint64
  <1>7. Worth(bytes, s.curr, q) = ReadVarint32(bytes, u).value
    BY <1>3 DEF Worth
  <1>8. /\ n <= 5 => ~(7 * (q - 1 - s.curr) >= 32)
        /\ n <= 10 => ~(7 * (q - 1 - s.curr) >= 64)
    BY <1>1
  <1>9. QED
    BY <1>3, <1>6, <1>7, <1>8 DEF ReadsTo

\* A varint of a part, and what is behind it.
LEMMA ScalarPart ==
  ASSUME NEW in, NEW parts, Broken \notin parts, NEW c, NEW q \in Nat, NEW e \in Nat, NEW n,
         ScalarParts(in, c, q, e, n) \subseteq parts
  PROVE  LET r == EndAt(in.buffer, q, e)
         IN  r \in Nat /\ r <= e /\ LiesIn(in.buffer, q, r, n) /\ q < r /\ <<c, r, e>> \in parts
  <1> DEFINE r == EndAt(in.buffer, q, e)
  <1>1. r \in Nat
    BY EndIs
  <1>2. ScalarParts(in, c, q, e, n)
          = IF r <= e /\ LiesIn(in.buffer, q, r, n) THEN {<<c, r, e>>} ELSE {Broken}
    BY DEF ScalarParts
  <1> HIDE DEF r
  <1>3. r <= e /\ LiesIn(in.buffer, q, r, n) /\ <<c, r, e>> \in parts
    BY <1>2
  <1>4. q < r
    BY <1>3 DEF LiesIn, Lies
  <1>5. QED
    BY <1>1, <1>3, <1>4 DEF r

\* A length of a part.
LEMMA LengthPart ==
  ASSUME NEW in, NEW q \in Nat, NEW e \in Nat, LengthFits(in, q, e), NEW s \in Seekers,
         s.curr = q, s.end = e
  PROVE  LET l == ReadVarint32(in.buffer, s)
             r == EndAt(in.buffer, q, e)
         IN  /\ l.ok /\ l.seek = [curr |-> r, end |-> e] /\ ~l.wide
             /\ r \in Nat /\ r <= e /\ r + Number(l.value) = Behind(in, q, e)
             /\ Behind(in, q, e) <= e
  <1> DEFINE r == EndAt(in.buffer, q, e)
  <1>1. r \in Nat
    BY EndIs
  <1>2. /\ r <= e /\ LiesIn(in.buffer, q, r, 5) /\ Behind(in, q, e) <= e
        /\ Behind(in, q, e) = r + Number(Worth(in.buffer, q, r))
    BY DEF LengthFits, Behind
  <1> HIDE DEF r
  <1>3. LiesIn(in.buffer, s.curr, r, 5) /\ r <= s.end
    BY <1>2
  <1>4. PICK l : l = ReadVarint32(in.buffer, s)
    OBVIOUS
  <1>5. l.ok /\ l.seek = [curr |-> r, end |-> s.end] /\ l.value = Worth(in.buffer, s.curr, r) /\ ~l.wide
    BY <1>1, <1>3, <1>4, LiesRead
  <1>6. QED
    BY <1>1, <1>2, <1>4, <1>5 DEF r

\* The wire types differ.
LEMMA BitsDiffer ==
  /\ Bits(0) # Bits(2) /\ Bits(1) # Bits(2) /\ Bits(1) # Bits(5) /\ Bits(3) # Bits(5) /\ Bits(0) # Bits(1)
  <1>1. 1 \in Bits(2) /\ 1 \notin Bits(0) /\ 1 \notin Bits(1)
    <2>1. 2 ^ 1 = 2
      OBVIOUS
    <2>2. 1 \in 0 .. 30 /\ (2 \div 2) % 2 = 1 /\ (0 \div 2) % 2 # 1 /\ (1 \div 2) % 2 # 1
      OBVIOUS
    <2>3. QED
      BY <2>1, <2>2 DEF Bits
  <1>2. 2 \in Bits(5) /\ 2 \notin Bits(1) /\ 2 \notin Bits(3)
    <2>1. 2 ^ 2 = 4
      OBVIOUS
    <2>2. 2 \in 0 .. 30 /\ (5 \div 4) % 2 = 1 /\ (1 \div 4) % 2 # 1 /\ (3 \div 4) % 2 # 1
      OBVIOUS
    <2>3. QED
      BY <2>1, <2>2 DEF Bits
  <1>3. 0 \in Bits(1) /\ 0 \notin Bits(0)
    <2>1. 2 ^ 0 = 1
      OBVIOUS
    <2>2. 0 \in 0 .. 30 /\ (1 \div 1) % 2 = 1 /\ (0 \div 1) % 2 # 1
      OBVIOUS
    <2>3. QED
      BY <2>1, <2>2 DEF Bits
  <1>4. QED
    BY <1>1, <1>2, <1>3

--------------------------------------------------------------------------------
(* The invariant of a written message: every frame stands in a part of it.     *)

\* A frame does not stand behind its end, which is in the file; what it reads of
\* a packed record is.
InPart(in, parts, frame) ==
  LET s == frame.seek
      f == frame.list[1]
  IN  /\ s.curr <= s.end /\ s.end <= Len(in.buffer)
      /\ frame.list # <<>> =>
           IF CountedIn(in, frame.class, f)
           THEN /\ s.curr + frame.until <= s.end
                /\ Singles(in.buffer, s.curr, s.curr + frame.until)
           ELSE /\ <<"packed", s.curr, frame.until>> \in parts
                /\ frame.until <= s.end

\* Then come the other fields of the frame's message.
GoesOn(in, parts, frame) ==
  LET s == frame.seek
      f == frame.list[1]
      p == IF frame.list = <<>> THEN s.curr
           ELSE IF CountedIn(in, frame.class, f) THEN s.curr + frame.until ELSE frame.until
  IN  <<frame.class, p, s.end>> \in parts

\* The root of a tracked file does not go on after the scan.
Scanned == IF Tracked /\ loop > 0 THEN {1} ELSE {}

StackParts(in, parts, scanned, s) ==
  /\ \A k \in 1 .. Len(s) : InPart(in, parts, s[k]) /\ (k \in scanned \/ GoesOn(in, parts, s[k]))
  /\ \A k \in 2 .. Len(s) : s[k].slot = 0 => s[k].seek.end = s[k - 1].seek.curr

RecordOK(in, parts, f, r) ==
  /\ r.curr + r.len <= Len(in.buffer)
  /\ f.kind = "message" => <<f.of, r.curr, r.curr + r.len>> \in parts
  /\ f.kind = "int" => <<"packed", r.curr, r.curr + r.len>> \in parts

RecordsOK(parts, records) ==
  Tracked => \A k \in DOMAIN Loops : \A i \in DOMAIN records[Loops[k]] :
               RecordOK(input, parts, ProfileField(Loops[k]), records[Loops[k]][i])

PartsInv(parts) ==
  /\ Encoded(input, parts)
  /\ StackParts(input, parts, Scanned, stack)
  /\ RecordsOK(parts, tracker)
  /\ ~wide

\* A sequence with another last element.
LEMMA LastTurns ==
  ASSUME NEW s, NEW n \in Nat, n > 0, Len(s) = n, s = [k \in 1 .. n |-> s[k]],
         NEW y, NEW t, t = [s EXCEPT ![n] = y]
  PROVE  /\ Len(t) = n /\ t = [k \in 1 .. n |-> t[k]] /\ t[n] = y
         /\ \A k \in 1 .. n - 1 : t[k] = s[k]
  <1>1. s \in Seq({s[k] : k \in 1 .. n} \cup {y})
    OBVIOUS
  <1>2. t \in Seq({s[k] : k \in 1 .. n} \cup {y}) /\ Len(t) = n
    BY <1>1
  <1>3. t = [k \in 1 .. n |-> t[k]]
    BY <1>2
  <1>4. n \in DOMAIN s /\ \A k \in 1 .. n - 1 : k \in DOMAIN s /\ k # n
    OBVIOUS
  <1>5. QED
    BY <1>2, <1>3, <1>4

\* The same for one more element.
LEMMA LastGrows ==
  ASSUME NEW s, NEW n \in Nat, Len(s) = n, s = [k \in 1 .. n |-> s[k]],
         NEW x, NEW t, t = Append(s, x)
  PROVE  /\ Len(t) = n + 1 /\ t = [k \in 1 .. n + 1 |-> t[k]] /\ t[n + 1] = x
         /\ \A k \in 1 .. n : t[k] = s[k]
  <1> DEFINE S == {s[k] : k \in 1 .. n} \cup {x}
  <1>1. s \in Seq(S) /\ x \in S
    OBVIOUS
  <1> HIDE DEF S
  <1>2. t \in Seq(S) /\ Len(t) = n + 1 /\ t[n + 1] = x /\ \A k \in 1 .. n : t[k] = s[k]
    BY <1>1, AppendProperties
  <1>3. t \in [1 .. Len(t) -> S]
    BY <1>2, LenProperties
  <1>4. QED
    BY <1>2, <1>3

\* And without the last.
LEMMA LastGoes ==
  ASSUME NEW s, NEW n \in Nat, n > 1, Len(s) = n, s = [k \in 1 .. n |-> s[k]],
         NEW t, t = SubSeq(s, 1, n - 1)
  PROVE  /\ Len(t) = n - 1 /\ t = [k \in 1 .. n - 1 |-> t[k]]
         /\ \A k \in 1 .. n - 1 : t[k] = s[k]
  <1> DEFINE S == {s[k] : k \in 1 .. n}
  <1>1. s \in Seq(S)
    OBVIOUS
  <1> HIDE DEF S
  <1>2. t \in Seq(S) /\ Len(t) = n - 1 /\ \A k \in 1 .. n - 1 : t[k] = s[k]
    <2>1. /\ 1 \in Int /\ n - 1 \in Int /\ \A i \in 1 .. n - 1 : s[i] \in S
      BY <1>1, LenProperties
    <2> DEFINE m == n - 1
    <2> HIDE DEF m
    <2>2. SubSeq(s, 1, m) \in Seq(S) /\ (1 <= m => Len(SubSeq(s, 1, m)) = m - 1 + 1)
      BY SMTT(30), <2>1, SubSeqProperties DEF m
    <2>3. \A k \in 1 .. m - 1 + 1 : SubSeq(s, 1, m)[k] = s[1 + k - 1]
      BY <2>1, SubSeqProperties DEF m
    <2>4. t = SubSeq(s, 1, m) /\ 1 <= m /\ m - 1 + 1 = n - 1 /\ \A k \in 1 .. n - 1 : 1 + k - 1 = k
      BY DEF m
    <2>5. QED
      BY <2>2, <2>3, <2>4
  <1>3. t = [k \in 1 .. n - 1 |-> t[k]]
    BY <1>2
  <1>4. QED
    BY <1>2, <1>3

\* The stack of a written message, when the innermost frame is replaced,
LEMMA PartsTurn ==
  ASSUME NEW in, NEW parts, NEW scanned, NEW s, NEW n \in Nat, n > 0, Len(s) = n,
         s = [k \in 1 .. n |-> s[k]], StackParts(in, parts, scanned, s),
         NEW y, InPart(in, parts, y), n \in scanned \/ GoesOn(in, parts, y),
         y.slot = s[n].slot, n > 1 => y.seek.end = s[n].seek.end,
         NEW t, t = [s EXCEPT ![n] = y]
  PROVE  StackParts(in, parts, scanned, t)
  <1>1. Len(t) = n /\ t[n] = y
    BY LastTurns
  <1>2. \A k \in 1 .. n - 1 : t[k] = s[k]
    BY LastTurns
  <1>3. \A k \in 1 .. n : InPart(in, parts, s[k]) /\ (k \in scanned \/ GoesOn(in, parts, s[k]))
    BY DEF StackParts
  <1>4. ASSUME NEW k \in 1 .. n
        PROVE  InPart(in, parts, t[k]) /\ (k \in scanned \/ GoesOn(in, parts, t[k]))
    <2>1. CASE k = n
      BY <1>1, <2>1
    <2>2. CASE k # n
      <3>1. k \in 1 .. n - 1
        BY <2>2
      <3>2. QED
        BY <1>2, <1>3, <3>1
    <2>3. QED
      BY <2>1, <2>2
  <1>5. ASSUME NEW k \in 2 .. n, t[k].slot = 0 PROVE t[k].seek.end = t[k - 1].seek.curr
    <2>1. s[k].slot = 0 => s[k].seek.end = s[k - 1].seek.curr
      BY DEF StackParts
    <2>2. k - 1 \in 1 .. n - 1 /\ t[k - 1] = s[k - 1]
      BY <1>2
    <2>3. CASE k = n
      BY <1>1, <1>5, <2>1, <2>2, <2>3
    <2>4. CASE k # n
      <3>1. k \in 1 .. n - 1
        BY <2>4
      <3>2. t[k] = s[k]
        BY <1>2, <3>1
      <3>3. QED
        BY <1>5, <2>1, <2>2, <3>2
    <2>5. QED
      BY <2>3, <2>4
  <1>6. QED
    BY <1>1, <1>4, <1>5 DEF StackParts

\* when a frame is pushed,
LEMMA PartsGrow ==
  ASSUME NEW in, NEW parts, NEW scanned, NEW s, NEW n \in Nat, n > 0, Len(s) = n,
         s = [k \in 1 .. n |-> s[k]], StackParts(in, parts, scanned, s),
         NEW x, InPart(in, parts, x), GoesOn(in, parts, x),
         x.slot = 0 => x.seek.end = s[n].seek.curr,
         NEW t, t = Append(s, x)
  PROVE  StackParts(in, parts, scanned, t)
  <1>1. Len(t) = n + 1 /\ t[n + 1] = x
    BY LastGrows
  <1>2. \A k \in 1 .. n : t[k] = s[k]
    BY LastGrows
  <1>3. \A k \in 1 .. n : InPart(in, parts, s[k]) /\ (k \in scanned \/ GoesOn(in, parts, s[k]))
    BY DEF StackParts
  <1>4. ASSUME NEW k \in 1 .. n + 1
        PROVE  InPart(in, parts, t[k]) /\ (k \in scanned \/ GoesOn(in, parts, t[k]))
    <2>1. CASE k = n + 1
      BY <1>1, <2>1
    <2>2. CASE k # n + 1
      <3>1. k \in 1 .. n
        BY <2>2
      <3>2. QED
        BY <1>2, <1>3, <3>1
    <2>3. QED
      BY <2>1, <2>2
  <1>5. ASSUME NEW k \in 2 .. n + 1, t[k].slot = 0 PROVE t[k].seek.end = t[k - 1].seek.curr
    <2>1. k - 1 \in 1 .. n
      OBVIOUS
    <2>2. t[k - 1] = s[k - 1]
      BY <1>2, <2>1
    <2>3. CASE k = n + 1
      <3>1. k - 1 = n
        BY <2>3
      <3>2. QED
        BY <1>1, <1>5, <2>2, <2>3, <3>1
    <2>4. CASE k # n + 1
      <3>1. k \in 2 .. n
        BY <2>4
      <3>2. t[k] = s[k]
        BY <1>2, <3>1
      <3>3. s[k].slot = 0 => s[k].seek.end = s[k - 1].seek.curr
        BY <3>1 DEF StackParts
      <3>4. QED
        BY <1>5, <2>2, <3>2, <3>3
    <2>5. QED
      BY <2>3, <2>4
  <1>6. QED
    BY <1>1, <1>4, <1>5 DEF StackParts

\* and when the innermost is popped.
LEMMA PartsShrink ==
  ASSUME NEW in, NEW parts, NEW scanned, NEW s, NEW n \in Nat, n > 1, Len(s) = n,
         s = [k \in 1 .. n |-> s[k]], StackParts(in, parts, scanned, s),
         NEW t, t = SubSeq(s, 1, n - 1)
  PROVE  StackParts(in, parts, scanned, t)
  <1>1. Len(t) = n - 1
    BY LastGoes
  <1>2. \A k \in 1 .. n - 1 : t[k] = s[k]
    BY LastGoes
  <1>3. ASSUME NEW k \in 1 .. n - 1
        PROVE  InPart(in, parts, t[k]) /\ (k \in scanned \/ GoesOn(in, parts, t[k]))
    BY <1>2 DEF StackParts
  <1>4. ASSUME NEW k \in 2 .. n - 1, t[k].slot = 0 PROVE t[k].seek.end = t[k - 1].seek.curr
    <2>1. k \in 1 .. n - 1 /\ k - 1 \in 1 .. n - 1 /\ k \in 2 .. n
      OBVIOUS
    <2>2. QED
      BY <1>2, <1>4, <2>1 DEF StackParts
  <1>5. QED
    BY <1>1, <1>3, <1>4 DEF StackParts

--------------------------------------------------------------------------------
(* What is read from a part.                                                   *)

\* The innermost parse function stands before a field, or at its end.
AtField(parts) ==
  /\ Encoded(input, parts) /\ Top.list = <<>>
  /\ InPart(input, parts, Top) /\ GoesOn(input, parts, Top)

\* The part in which the innermost function stands.
LEMMA AtFieldIs ==
  ASSUME TypeInv, NEW parts, AtField(parts)
  PROVE  /\ <<Top.class, Top.seek.curr, Top.seek.end>> \in parts /\ Broken \notin parts
         /\ Top.seek.curr \in Nat /\ Top.seek.end \in Nat /\ Top.seek.curr <= Top.seek.end
         /\ Top.seek.end <= Len(input.buffer) /\ Top.seek \in Seekers
         /\ Top.class # "packed" /\ Top.class \in DOMAIN Tables[input.copy] /\ input \in Inputs
         /\ PartsAfter(input, <<Top.class, Top.seek.curr, Top.seek.end>>) \subseteq parts
  <1>1. <<Top.class, Top.seek.curr, Top.seek.end>> \in parts
    BY DEF AtField, GoesOn
  <1>2. Top.class \in DOMAIN Schema
    BY TopParts, InputFacts
  <1>3. Encoded(input, parts) /\ input \in Inputs
    BY TopParts DEF AtField
  <1>4. /\ Top.seek.curr \in Nat /\ Top.seek.end \in Nat /\ Top.seek.curr <= Top.seek.end
        /\ Top.seek.end <= Len(input.buffer) /\ Broken \notin parts
        /\ PartsAfter(input, <<Top.class, Top.seek.curr, Top.seek.end>>) \subseteq parts
    BY <1>1, <1>3, PartIs
  <1>5. QED
    BY <1>1, <1>2, <1>3, <1>4, SchemaIs, TopParts

\* The parts that the field with the tag leads to.
TagParts(parts) ==
  LET c == Top.class
      q == Tag.seek.curr
      e == Top.seek.end
      takers == Takers(input, c, Tag.value)
  IN  /\ takers = {} => UnknownParts(input, c, Tag.value, q, e) \subseteq parts
      /\ \A f \in takers : FieldParts(input, c, f, Tag.value, q, e) \subseteq parts

\* The parse functions and the writer see the same tag.
LEMMA TagIs ==
  ASSUME TypeInv, NEW parts, AtField(parts)
  PROVE  /\ ~Tag.wide
         /\ Tag.value = {} => Top.seek.curr = Top.seek.end /\ Tag.seek = Top.seek
         /\ Tag.value # {} => /\ TagParts(parts) /\ Tag.seek \in Seekers
                              /\ Tag.seek.end = Top.seek.end /\ Tag.seek.curr <= Top.seek.end
  <1> DEFINE c == Top.class
             p == Top.seek.curr
             e == Top.seek.end
             q == EndAt(input.buffer, p, e)
             tag == Worth(input.buffer, p, q)
             r == ReadVarint32(input.buffer, Top.seek)
  <1>1. /\ p \in Nat /\ e \in Nat /\ p <= e /\ Top.seek \in Seekers /\ Broken \notin parts
        /\ c # "packed" /\ PartsAfter(input, <<c, p, e>>) \subseteq parts
    BY AtFieldIs
  <1>2. Tag = IF r.ok THEN r ELSE [r EXCEPT !.value = {}]
    BY DEF Tag, ReadTag, buffer
  <1>3. r = [ok |-> r.ok, seek |-> r.seek, value |-> r.value, wide |-> r.wide]
    BY <1>1 DEF ReadVarint32, Varint, Seekers
  <1>4. CASE p = e
    <2>1. ~r.ok /\ ~r.wide /\ r.seek = Top.seek
      <3>1. PICK v : v = Varint(input.buffer, Top.seek, 32)
        OBVIOUS
      <3>2. 32 \in Nat /\ Top.seek.curr >= Top.seek.end
        BY <1>1, <1>4
      <3>3. ~v.ok /\ ~v.wide /\ v.seek = Top.seek
        BY <1>1, <3>1, <3>2, VarintAtEnd
      <3>4. QED
        BY <3>1, <3>3 DEF ReadVarint32
    <2> HIDE DEF r
    <2>2. ~Tag.wide /\ Tag.value = {} /\ Tag.seek = Top.seek
      BY <1>2, <1>3, <2>1
    <2>3. QED
      BY <1>4, <2>2
  <1>5. CASE p # e
    <2>1. q \in Nat
      BY <1>1, EndIs
    <2>2. PartsAfter(input, <<c, p, e>>)
            = IF ~(q <= e /\ LiesIn(input.buffer, p, q, 5)) \/ tag = {} THEN {Broken}
              ELSE IF Takers(input, c, tag) = {} THEN UnknownParts(input, c, tag, q, e)
              ELSE UNION {FieldParts(input, c, f, tag, q, e) : f \in Takers(input, c, tag)}
      BY <1>1, <1>5 DEF PartsAfter
    <2> HIDE DEF q, tag, r
    <2>3. q <= e /\ LiesIn(input.buffer, p, q, 5) /\ tag # {}
      BY <1>1, <2>2
    <2>4. r.ok /\ r.seek = [curr |-> q, end |-> e] /\ r.value = tag /\ ~r.wide
      <3>1. 5 \in Nat /\ LiesIn(input.buffer, Top.seek.curr, q, 5) /\ q <= Top.seek.end
        BY <2>3
      <3>2. PICK v : v = ReadVarint32(input.buffer, Top.seek)
        OBVIOUS
      <3>3. /\ v.ok /\ v.seek = [curr |-> q, end |-> Top.seek.end]
            /\ v.value = Worth(input.buffer, Top.seek.curr, q) /\ ~v.wide
        BY <1>1, <2>1, <3>1, <3>2, LiesRead
      <3>4. QED
        BY <3>2, <3>3 DEF r, tag
    <2>5. Tag = r
      BY <1>2, <2>4
    <2>6. Tag.seek.curr = q /\ Tag.seek.end = e /\ Tag.seek \in Seekers /\ Tag.value = tag /\ ~Tag.wide
      BY <1>1, <2>1, <2>4, <2>5 DEF Seekers
    <2>7. /\ Takers(input, c, tag) = {} => UnknownParts(input, c, tag, q, e) \subseteq parts
          /\ \A f \in Takers(input, c, tag) : FieldParts(input, c, f, tag, q, e) \subseteq parts
      BY <1>1, <2>2, <2>3
    <2>8. TagParts(parts)
      BY <2>6, <2>7 DEF TagParts
    <2>9. QED
      BY <2>3, <2>6, <2>8
  <1>6. QED
    BY <1>4, <1>5

\* A field of the copy's table that takes the tag, and the writer's.
LEMMA TakerIs ==
  ASSUME TypeInv, NEW f \in Tables[input.copy][Top.class], Bits(f.id) = FieldId(Tag.value), Takes(f)
  PROVE  \E g \in Takers(input, Top.class, Tag.value) :
           /\ Same(f, g) /\ f.kind \in {"int", "bool", "string", "message"}
           /\ f.kind = "int" => f.width \in {32, 64}
           /\ CountedIn(input, Top.class, g) <=> Counted(f)
           /\ AsScalar(input, Top.class, g, Tag.value) <=> Wired(0) /\ Scalar(f)
  <1>1. PICK g \in Schema[Top.class] : Same(f, g)
    BY TopParts, InputFacts DEF Agrees
  <1>2. f.kind \in {"int", "bool", "string", "message"} /\ (f.kind = "int" => f.width \in {32, 64})
    BY TopIs, TopParts DEF TableOK, FieldsOK
  <1>3. CountedIn(input, Top.class, g) <=> Counted(f)
    BY <1>1 DEF CountedIn, Counted, copy, Same
  <1>4. Scalar(g) <=> Scalar(f)
    BY <1>1 DEF Scalar, Same
  <1>5. AsScalar(input, Top.class, g, Tag.value) <=> Wired(0) /\ Scalar(f) /\ ~Counted(f)
    BY <1>3, <1>4 DEF AsScalar, Wired
  <1>6. Wired(0) => ~Wired(2)
    BY BitsDiffer DEF Wired
  <1>7. AsScalar(input, Top.class, g, Tag.value) <=> Wired(0) /\ Scalar(f)
    BY <1>5, <1>6 DEF Takes
  <1>8. AsScalar(input, Top.class, g, Tag.value) \/ AsBytes(g, Tag.value)
    BY <1>1, <1>4, <1>5 DEF Takes, AsBytes, Wired, Same
  <1>9. g \in Takers(input, Top.class, Tag.value)
    BY <1>1, <1>8 DEF Takers, Same
  <1>10. QED
    BY <1>1, <1>2, <1>3, <1>7, <1>9

\* Without a case that takes the field, the writer has none.
LEMMA NoTaker ==
  ASSUME TypeInv, NEW g \in Takers(input, Top.class, Tag.value)
  PROVE  /\ Wired(0) \/ Wired(2)
         /\ \E f \in Tables[input.copy][Top.class] :
              /\ Same(f, g) /\ Bits(f.id) = FieldId(Tag.value) /\ Takes(f)
  <1>1. /\ g \in Schema[Top.class] /\ Bits(g.id) = FieldId(Tag.value)
        /\ AsScalar(input, Top.class, g, Tag.value) \/ AsBytes(g, Tag.value)
    BY DEF Takers
  <1>2. PICK f \in Tables[input.copy][Top.class] : Same(g, f)
    BY <1>1, TopParts, InputFacts DEF Agrees
  <1>3. CountedIn(input, Top.class, g) <=> Counted(f)
    BY <1>2 DEF CountedIn, Counted, copy, Same
  <1>4. Scalar(g) <=> Scalar(f)
    BY <1>2 DEF Scalar, Same
  <1>5. Takes(f)
    BY <1>1, <1>2, <1>3, <1>4 DEF Takes, AsScalar, AsBytes, Wired, Same
  <1>6. Same(f, g) /\ Bits(f.id) = FieldId(Tag.value)
    BY <1>1, <1>2 DEF Same
  <1>7. QED
    BY <1>1, <1>5, <1>6 DEF AsScalar, AsBytes, Wired

\* The number that a case reads.
LEMMA ScalarIs ==
  ASSUME TypeInv, NEW parts, AtField(parts), Tag.value # {}, NEW f \in Tables[input.copy][Top.class],
         Bits(f.id) = FieldId(Tag.value), Scalar(f), Wired(0), ~Counted(f)
  PROVE  LET r == Read(f, Tag.seek)
         IN  /\ r.ok /\ r.seek.end = Top.seek.end /\ ~r.wide /\ r.seek.curr <= Top.seek.end
             /\ <<Top.class, r.seek.curr, Top.seek.end>> \in parts
  <1> DEFINE c == Top.class
             q == Tag.seek.curr
             e == Top.seek.end
             m == EndAt(input.buffer, q, e)
  <1>1. PICK g \in Takers(input, c, Tag.value) :
          /\ Same(f, g) /\ AsScalar(input, c, g, Tag.value)
          /\ f.kind = "int" => f.width \in {32, 64}
    BY TakerIs DEF Takes
  <1>2. /\ Tag.seek \in Seekers /\ Tag.seek.end = e /\ q \in Nat /\ e \in Nat
        /\ Broken \notin parts /\ FieldParts(input, c, g, Tag.value, q, e) \subseteq parts
    BY TagIs, AtFieldIs DEF TagParts, Seekers
  <1>3. ScalarParts(input, c, q, e, Room(g)) \subseteq parts
    BY <1>1, <1>2 DEF FieldParts
  <1>4. /\ m \in Nat /\ m <= e /\ LiesIn(input.buffer, q, m, Room(g)) /\ <<c, m, e>> \in parts
    BY <1>2, <1>3, ScalarPart
  <1>5. Room(g) \in Nat /\ (Room(g) <= 5 \/ (f.width # 32 /\ Room(g) <= 10))
    BY <1>1 DEF Room, Same, Scalar
  <1> HIDE DEF m
  <1>6. LiesIn(input.buffer, Tag.seek.curr, m, Room(g)) /\ m <= Tag.seek.end
    BY <1>2, <1>4
  <1>7. PICK v : v = ReadVarint32(input.buffer, Tag.seek)
    OBVIOUS
  <1>8. v.ok /\ v.seek = [curr |-> m, end |-> e] /\ (Room(g) <= 5 => ~v.wide)
    BY <1>2, <1>4, <1>5, <1>6, <1>7, LiesRead
  <1>9. PICK z : z = ReadVarint64(input.buffer, Tag.seek)
    OBVIOUS
  <1>10. z.ok /\ z.seek = [curr |-> m, end |-> e] /\ (Room(g) <= 10 => ~z.wide)
    BY <1>2, <1>4, <1>5, <1>6, <1>9, LiesRead
  <1>11. Read(f, Tag.seek) = IF f.width = 32 THEN v ELSE z
    BY <1>7, <1>9 DEF Read, buffer
  <1>12. QED
    BY <1>4, <1>5, <1>8, <1>10, <1>11

\* The length that a case reads, and the payload.
LEMMA LengthIs ==
  ASSUME TypeInv, NEW parts, AtField(parts), Tag.value # {}, NEW f \in Tables[input.copy][Top.class],
         Bits(f.id) = FieldId(Tag.value), Wired(2), ~Scalar(f) \/ (f.kind = "int" /\ f.many)
  PROVE  LET r == Length.seek.curr
             e == Top.seek.end
             t == Length.seek.curr + Size
         IN  /\ Length.ok /\ ~Length.wide /\ Length.seek = [curr |-> r, end |-> e]
             /\ r \in Nat /\ Size \in Nat /\ t <= e /\ <<Top.class, t, e>> \in parts
             /\ f.kind = "message" => <<f.of, r, t>> \in parts
             /\ f.kind = "int" /\ ~Counted(f) => <<"packed", r, t>> \in parts
             /\ Counted(f) /\ f.kind = "int" => Singles(input.buffer, r, t)
  <1> DEFINE c == Top.class
             q == Tag.seek.curr
             e == Top.seek.end
             r == EndAt(input.buffer, q, e)
             t == Behind(input, q, e)
  <1>1. PICK g \in Takers(input, c, Tag.value) :
          /\ Same(f, g) /\ ~AsScalar(input, c, g, Tag.value)
          /\ CountedIn(input, c, g) <=> Counted(f)
    <2>1. Takes(f) /\ ~Wired(0)
      BY BitsDiffer DEF Takes, Wired
    <2>2. QED
      BY <2>1, TakerIs
  <1>2. /\ Tag.seek \in Seekers /\ Tag.seek.end = e /\ q \in Nat /\ e \in Nat
        /\ Broken \notin parts /\ FieldParts(input, c, g, Tag.value, q, e) \subseteq parts
    BY TagIs, AtFieldIs DEF TagParts, Seekers
  <1>3. /\ LengthFits(input, q, e)
        /\ <<c, t, e>> \in parts /\ PayloadParts(input, c, g, r, t) \subseteq parts
    <2>1. FieldParts(input, c, g, Tag.value, q, e)
            = IF ~LengthFits(input, q, e) THEN {Broken}
              ELSE {<<c, t, e>>} \cup PayloadParts(input, c, g, r, t)
      BY <1>1 DEF FieldParts
    <2> HIDE DEF t, r
    <2>2. QED
      BY <1>2, <2>1
  <1> HIDE DEF t, r
  <1>4. /\ Length.ok /\ Length.seek = [curr |-> r, end |-> e] /\ ~Length.wide
        /\ r \in Nat /\ r + Size = t /\ t <= e
    <2>1. PICK l : l = ReadVarint32(input.buffer, Tag.seek)
      OBVIOUS
    <2>2. /\ l.ok /\ l.seek = [curr |-> r, end |-> e] /\ ~l.wide
          /\ r \in Nat /\ r + Number(l.value) = t /\ t <= e
      BY <1>2, <1>3, <2>1, LengthPart DEF r, t
    <2>3. Length = l /\ Size = Number(l.value)
      BY <2>1 DEF Length, Size, buffer
    <2>4. QED
      BY <2>2, <2>3
  <1>5. Size \in Nat
    BY LengthTyped
  <1>6. f.kind = "message" => <<f.of, r, t>> \in parts
    BY <1>1, <1>3 DEF PayloadParts, Same
  <1>7. f.kind = "int" /\ ~Counted(f) => <<"packed", r, t>> \in parts
    BY <1>1, <1>3 DEF PayloadParts, Same
  <1>8. Counted(f) /\ f.kind = "int" => Singles(input.buffer, r, t)
    BY <1>1, <1>2, <1>3 DEF PayloadParts, Same
  <1>9. r = Length.seek.curr /\ t = Length.seek.curr + Size
    BY <1>4
  <1>10. QED
    BY <1>3, <1>4, <1>5, <1>6, <1>7, <1>8, <1>9

--------------------------------------------------------------------------------
(* The actions in a written message.                                           *)

\* What every action does to the stack of a written message.
Proceeds(parts) ==
  /\ StackParts(input, parts, Scanned, stack') /\ ~wide'
  /\ Len(stack') < Len(stack) => Top.seek.curr = Top.seek.end

\* The innermost frame is the last one.
LEMMA StackIs ==
  ASSUME TypeInv
  PROVE  \E n \in Nat : n > 0 /\ Len(stack) = n /\ stack = [k \in 1 .. n |-> stack[k]] /\ Top = stack[n]
  BY TopIs DEF StackOK

\* The innermost frame stands in a part.
LEMMA TopInPart ==
  ASSUME TypeInv, NEW parts, PartsInv(parts)
  PROVE  /\ InPart(input, parts, Top) /\ Encoded(input, parts)
         /\ Len(stack) \in Scanned \/ GoesOn(input, parts, Top)
         /\ InLoop => AtField(parts)
  <1>1. PICK n \in Nat : n > 0 /\ Len(stack) = n /\ Top = stack[n]
    BY StackIs
  <1>2. InPart(input, parts, Top) /\ (n \in Scanned \/ GoesOn(input, parts, Top))
    <2>1. n \in 1 .. n
      BY <1>1
    <2>2. QED
      BY <1>1, <2>1 DEF PartsInv, StackParts
  <1>3. InLoop => n \notin Scanned
    BY <1>1 DEF InLoop, Looping, Scanned
  <1>4. QED
    BY <1>1, <1>2, <1>3 DEF AtField, PartsInv, InLoop

\* An action replaces the innermost frame,
LEMMA GoProceeds ==
  ASSUME TypeInv, NEW parts, PartsInv(parts), NEW y, InPart(input, parts, y),
         Len(stack) \in Scanned \/ GoesOn(input, parts, y), y.slot = Top.slot,
         Len(stack) > 1 => y.seek.end = Top.seek.end, Go(y), ~wide'
  PROVE  Proceeds(parts)
  <1>1. PICK n \in Nat : n > 0 /\ Len(stack) = n /\ stack = [k \in 1 .. n |-> stack[k]] /\ Top = stack[n]
    BY StackIs
  <1>2. StackParts(input, parts, Scanned, stack)
    BY DEF PartsInv
  <1>3. /\ n \in Scanned \/ GoesOn(input, parts, y)
        /\ y.slot = stack[n].slot /\ (n > 1 => y.seek.end = stack[n].seek.end)
        /\ stack' = [stack EXCEPT ![n] = y]
    BY <1>1 DEF Go
  <1>4. PICK t : t = stack'
    OBVIOUS
  <1>5. t = [stack EXCEPT ![n] = y]
    BY <1>3, <1>4
  <1>6. StackParts(input, parts, Scanned, t)
    BY <1>1, <1>2, <1>3, <1>5, PartsTurn
  <1>7. Len(t) = n
    BY <1>1, <1>5, LastTurns
  <1>8. QED
    BY <1>1, <1>4, <1>6, <1>7 DEF Proceeds

\* or calls a parse function,
LEMMA EnterProceeds ==
  ASSUME TypeInv, NEW parts, PartsInv(parts), NEW y, InPart(input, parts, y),
         Len(stack) \in Scanned \/ GoesOn(input, parts, y), y.slot = Top.slot,
         y.seek.end = Top.seek.end,
         NEW x, InPart(input, parts, x), GoesOn(input, parts, x),
         x.slot = 0 => x.seek.end = y.seek.curr,
         stack' = Append([stack EXCEPT ![Len(stack)] = y], x), ~wide'
  PROVE  Proceeds(parts)
  <1>1. PICK n \in Nat : n > 0 /\ Len(stack) = n /\ stack = [k \in 1 .. n |-> stack[k]] /\ Top = stack[n]
    BY StackIs
  <1>2. StackParts(input, parts, Scanned, stack)
    BY DEF PartsInv
  <1>3. PICK t : t = [stack EXCEPT ![n] = y]
    OBVIOUS
  <1>4. /\ n \in Scanned \/ GoesOn(input, parts, y)
        /\ y.slot = stack[n].slot /\ y.seek.end = stack[n].seek.end
    BY <1>1
  <1>5. StackParts(input, parts, Scanned, t)
    BY <1>1, <1>2, <1>3, <1>4, PartsTurn
  <1>6. Len(t) = n /\ t = [k \in 1 .. n |-> t[k]] /\ t[n] = y
    <2>1. Len(t) = n
      BY <1>1, <1>3, LastTurns
    <2>2. t = [k \in 1 .. n |-> t[k]]
      BY <1>1, <1>3, LastTurns
    <2>3. t[n] = y
      BY <1>1, <1>3, LastTurns
    <2>4. QED
      BY <2>1, <2>2, <2>3
  <1>7. PICK u : u = stack'
    OBVIOUS
  <1>8. u = Append(t, x) /\ (x.slot = 0 => x.seek.end = t[n].seek.curr)
    BY <1>1, <1>3, <1>6, <1>7
  <1>9. StackParts(input, parts, Scanned, u)
    BY <1>1, <1>5, <1>6, <1>8, PartsGrow
  <1>10. Len(u) = n + 1
    BY <1>6, <1>8, LastGrows
  <1>11. ~(Len(stack') < Len(stack))
    BY <1>1, <1>7, <1>10
  <1>12. QED
    BY <1>7, <1>9, <1>11 DEF Proceeds

\* or returns.
LEMMA ReturnProceeds ==
  ASSUME TypeInv, NEW parts, PartsInv(parts), NEW ok, NEW y, InPart(input, parts, y),
         Len(stack) \in Scanned \/ GoesOn(input, parts, y), y.slot = Top.slot, y.into = Top.into,
         y.seek.end = Top.seek.end, Return(ok, y), ~wide',
         Len(stack) = 1 \/ Top.seek.curr = Top.seek.end
  PROVE  Proceeds(parts)
  <1>1. PICK n \in Nat : n > 0 /\ Len(stack) = n /\ stack = [k \in 1 .. n |-> stack[k]] /\ Top = stack[n]
    BY StackIs
  <1>2. CASE Go(y)
    BY <1>2, GoProceeds
  <1>3. CASE ~Go(y)
    <2> DEFINE s == SubSeq(stack, 1, n - 1)
               o == Put(s[n - 1].object, y.into[1], y.slot, y.object)
               z == [s[n - 1] EXCEPT !.object = o]
    <2>1. n > 1 /\ n - 1 \in Nat
      BY <1>1, <1>3 DEF Return
    <2>2. stack' = [s EXCEPT ![n - 1] = z]
      BY <1>1, <1>3 DEF Return
    <2>3. StackParts(input, parts, Scanned, stack)
      BY DEF PartsInv
    <2>4. Len(s) = n - 1 /\ s = [k \in 1 .. n - 1 |-> s[k]]
      BY <1>1, <2>1, LastGoes
    <2>5. s[n - 1] = stack[n - 1]
      <3>1. \A k \in 1 .. n - 1 : s[k] = stack[k]
        BY <1>1, <2>1, LastGoes
      <3>2. n - 1 \in 1 .. n - 1
        BY <2>1
      <3>3. QED
        BY <3>1, <3>2
    <2>6. StackParts(input, parts, Scanned, s)
      BY <1>1, <2>1, <2>3, PartsShrink
    <2> HIDE DEF s, o
    <2>7. DOMAIN s[n - 1] = FrameParts
      <3>1. FrameOK(input, n - 1, stack[n - 1])
        <4>1. n - 1 \in 1 .. n
          BY <2>1
        <4>2. QED
          BY <1>1, <4>1, TopIs DEF StackOK
      <3>2. QED
        BY <2>5, <3>1 DEF FrameOK
    <2>8. /\ z.class = s[n - 1].class /\ z.seek = s[n - 1].seek /\ z.list = s[n - 1].list
          /\ z.until = s[n - 1].until /\ z.slot = s[n - 1].slot
      BY <2>7 DEF FrameParts
    <2> HIDE DEF z
    <2>9. InPart(input, parts, z) /\ (n - 1 \in Scanned \/ GoesOn(input, parts, z))
      <3>1. InPart(input, parts, s[n - 1]) /\ (n - 1 \in Scanned \/ GoesOn(input, parts, s[n - 1]))
        <4>1. n - 1 \in 1 .. Len(s)
          BY <2>1, <2>4
        <4>2. QED
          BY <2>6, <4>1 DEF StackParts
      <3>2. QED
        BY <2>8, <3>1 DEF InPart, GoesOn
    <2>10. PICK m \in Nat : m = n - 1 /\ m > 0
      BY <2>1
    <2>11. PICK t : t = stack'
      OBVIOUS
    <2>12. t = [s EXCEPT ![m] = z]
      BY <2>2, <2>10, <2>11
    <2>13. StackParts(input, parts, Scanned, t)
      BY <2>4, <2>6, <2>8, <2>9, <2>10, <2>12, PartsTurn
    <2>14. Top.seek.curr = Top.seek.end
      BY <1>1, <2>1
    <2>15. QED
      BY <2>11, <2>13, <2>14 DEF Proceeds
  <1>4. QED
    BY <1>2, <1>3

\* The tag 0 is read at the end of a part only.
LEMMA EndOfMessageProceeds ==
  ASSUME TypeInv, NEW parts, PartsInv(parts), EndOfMessage
  PROVE  Proceeds(parts)
  <1> DEFINE y == [Top EXCEPT !.seek = Tag.seek]
  <1>1. PICK ok : Return(ok, y)
    BY DEF EndOfMessage
  <1>2. AtField(parts) /\ Tag.value = {}
    BY TopInPart DEF EndOfMessage
  <1>3. Top.seek.curr = Top.seek.end /\ Tag.seek = Top.seek
    BY <1>2, TagIs
  <1>4. /\ y.seek = Top.seek /\ y.until = Top.until
        /\ y.list = Top.list /\ y.class = Top.class /\ y.into = Top.into /\ y.slot = Top.slot
    BY <1>3, TopParts DEF FrameParts
  <1> HIDE DEF y
  <1>5. InPart(input, parts, y) /\ GoesOn(input, parts, y)
    BY <1>2, <1>4 DEF AtField, InPart, GoesOn
  <1>6. ~wide'
    BY <1>2, TagIs DEF EndOfMessage, PartsInv
  <1>7. y.seek.end = Top.seek.end
    BY <1>4
  <1>8. QED
    BY <1>1, <1>3, <1>4, <1>5, <1>6, <1>7, ReturnProceeds

\* A field that a case takes.
LEMMA CaseIs ==
  ASSUME TypeInv, NEW parts, PartsInv(parts), NEW f \in Cases
  PROVE  /\ AtField(parts) /\ Tag.value # {} /\ f \in Tables[input.copy][Top.class]
         /\ Bits(f.id) = FieldId(Tag.value) /\ ~wide /\ ~Tag.wide /\ Top.list = <<>>
         /\ Top.seek.end \in Nat /\ Top.seek.end <= Len(input.buffer) /\ DOMAIN Top = FrameParts
         /\ Len(input.buffer) \in Nat
  <1>1. InField /\ f \in Tables[input.copy][Top.class] /\ Bits(f.id) = FieldId(Tag.value)
    BY CasesAre
  <1>2. AtField(parts) /\ Tag.value # {} /\ Top.list = <<>>
    BY <1>1, TopInPart DEF InField, InLoop
  <1>3. ~Tag.wide /\ Top.seek.end \in Nat /\ Top.seek.end <= Len(input.buffer) /\ input \in Inputs
    BY <1>2, TagIs, AtFieldIs
  <1>4. QED
    BY <1>1, <1>2, <1>3, TopParts, InputFacts DEF PartsInv

\* A frame that goes on with the next field.
LEMMA NextField ==
  ASSUME NEW parts, NEW y, y.list = <<>>, <<y.class, y.seek.curr, y.seek.end>> \in parts,
         y.seek.curr <= y.seek.end, y.seek.end <= Len(input.buffer)
  PROVE  InPart(input, parts, y) /\ GoesOn(input, parts, y)
  BY DEF InPart, GoesOn

\* A number is read up to where the writer ended it.
LEMMA ReadScalarProceeds ==
  ASSUME TypeInv, NEW parts, PartsInv(parts), NEW f \in Cases, ReadScalar(f)
  PROVE  Proceeds(parts)
  <1> DEFINE r == Read(f, Tag.seek)
             o == Store(Top.object, f, Value(f, r.value))
             y == [Top EXCEPT !.seek = r.seek, !.fresh = FALSE, !.object = o]
  <1>1. /\ r.ok /\ r.seek.end = Top.seek.end /\ ~r.wide /\ r.seek.curr <= Top.seek.end
        /\ <<Top.class, r.seek.curr, Top.seek.end>> \in parts
    BY CaseIs, ScalarIs DEF ReadScalar
  <1>2. Go(y) /\ ~wide'
    BY <1>1, CaseIs DEF ReadScalar, Bad
  <1> HIDE DEF r, o
  <1>3. /\ y.seek = r.seek /\ y.list = <<>> /\ y.class = Top.class /\ y.slot = Top.slot
    BY CaseIs DEF FrameParts
  <1> HIDE DEF y
  <1>4. InPart(input, parts, y) /\ GoesOn(input, parts, y)
    BY <1>1, <1>3, CaseIs, NextField
  <1>5. y.seek.end = Top.seek.end
    BY <1>1, <1>3
  <1>6. QED
    BY <1>2, <1>3, <1>4, <1>5, GoProceeds

\* A delimited field that a case takes.
LEMMA DelimitedIs ==
  ASSUME TypeInv, NEW parts, PartsInv(parts), NEW f \in Cases, Delimited, ReadLength,
         ~Scalar(f) \/ (f.kind = "int" /\ f.many)
  PROVE  /\ ~wide' /\ ~Bad(Length, 32) /\ ~TooLong
         /\ Length.seek = [curr |-> Length.seek.curr, end |-> Top.seek.end]
         /\ Length.seek.curr \in Nat /\ Size \in Nat /\ Length.seek.curr + Size <= Top.seek.end
         /\ <<Top.class, Length.seek.curr + Size, Top.seek.end>> \in parts
         /\ f.kind = "message" => <<f.of, Length.seek.curr, Length.seek.curr + Size>> \in parts
         /\ f.kind = "int" /\ ~Counted(f) =>
              <<"packed", Length.seek.curr, Length.seek.curr + Size>> \in parts
         /\ Counted(f) /\ f.kind = "int" =>
              Singles(input.buffer, Length.seek.curr, Length.seek.curr + Size)
  <1> DEFINE r == Length.seek.curr
             e == Top.seek.end
             t == Length.seek.curr + Size
  <1>1. /\ AtField(parts) /\ Tag.value # {} /\ f \in Tables[input.copy][Top.class]
        /\ Bits(f.id) = FieldId(Tag.value) /\ ~wide /\ ~Tag.wide /\ e \in Nat
    BY CaseIs
  <1>2. Wired(2)
    BY DEF Delimited
  <1>3. /\ Length.ok /\ ~Length.wide /\ Length.seek = [curr |-> r, end |-> e]
        /\ r \in Nat /\ Size \in Nat /\ t <= e /\ <<Top.class, t, e>> \in parts
        /\ f.kind = "message" => <<f.of, r, t>> \in parts
        /\ f.kind = "int" /\ ~Counted(f) => <<"packed", r, t>> \in parts
        /\ Counted(f) /\ f.kind = "int" => Singles(input.buffer, r, t)
    BY <1>1, <1>2, LengthIs
  <1>4. ~wide' /\ ~Bad(Length, 32)
    BY <1>1, <1>3 DEF ReadLength, Bad
  <1>5. ~TooLong
    <2>1. Length.seek.end = e
      BY <1>3
    <2>2. ~(t > e)
      BY <1>1, <1>3
    <2>3. QED
      BY <2>1, <2>2 DEF TooLong
  <1>6. QED
    BY <1>3, <1>4, <1>5

\* A string lies in its message.
LEMMA ReadTextProceeds ==
  ASSUME TypeInv, NEW parts, PartsInv(parts), NEW f \in Cases, ReadText(f)
  PROVE  Proceeds(parts)
  <1> DEFINE r == ReadString(buffer, Length.seek, Size)
             o == Store(Top.object, f, r.value)
             y == [Top EXCEPT !.seek = r.seek, !.fresh = FALSE, !.object = o]
             t == Length.seek.curr + Size
  <1>1. Delimited /\ ReadLength /\ f.kind = "string" /\ ~Scalar(f)
    BY DEF ReadText, Scalar
  <1>2. /\ ~wide' /\ ~Bad(Length, 32)
        /\ Length.seek = [curr |-> Length.seek.curr, end |-> Top.seek.end]
        /\ Length.seek.curr \in Nat /\ Size \in Nat /\ t <= Top.seek.end
        /\ <<Top.class, t, Top.seek.end>> \in parts
    BY <1>1, DelimitedIs
  <1>3. /\ AtField(parts) /\ Top.list = <<>> /\ Top.seek.end \in Nat /\ Top.seek.end <= Len(input.buffer)
        /\ DOMAIN Top = FrameParts
    BY CaseIs
  <1>4. r.ok /\ r.seek.curr = t /\ r.seek.end = Top.seek.end
    <2>1. Length.seek.end = Top.seek.end
      BY <1>2
    <2>2. ~(Length.seek.curr + Size > Length.seek.end)
      BY <1>2, <1>3, <2>1
    <2>3. Skip(Length.seek, Size).curr = t /\ Skip(Length.seek, Size).end = Top.seek.end
      BY <1>2 DEF Skip
    <2>4. QED
      BY <2>2, <2>3 DEF ReadString
  <1>5. Go(y)
    BY <1>2, <1>4 DEF ReadText
  <1> HIDE DEF r, o
  <1>6. /\ y.seek = r.seek /\ y.list = <<>> /\ y.class = Top.class /\ y.slot = Top.slot
    BY <1>3 DEF FrameParts
  <1> HIDE DEF y, t
  <1>7. /\ y.seek.curr = t /\ y.seek.end = Top.seek.end
    BY <1>4, <1>6
  <1>8. InPart(input, parts, y) /\ GoesOn(input, parts, y)
    BY <1>2, <1>3, <1>6, <1>7, NextField
  <1>9. QED
    BY <1>2, <1>5, <1>6, <1>7, <1>8, GoProceeds

\* A packed record lies in its message.
LEMMA EnterListProceeds ==
  ASSUME TypeInv, NEW parts, PartsInv(parts), NEW f \in Cases, EnterList(f)
  PROVE  Proceeds(parts)
  <1> DEFINE r == Length.seek.curr
             e == Top.seek.end
             t == Length.seek.curr + Size
             u == IF Counted(f) THEN Size ELSE t
             y == [Top EXCEPT !.seek = Length.seek, !.fresh = FALSE, !.list = <<f>>, !.until = u]
  <1>1. Delimited /\ ReadLength /\ f.kind = "int" /\ f.many
    BY DEF EnterList
  <1>2. /\ ~wide' /\ ~Bad(Length, 32) /\ ~TooLong
        /\ Length.seek = [curr |-> r, end |-> e]
        /\ r \in Nat /\ Size \in Nat /\ t <= e /\ <<Top.class, t, e>> \in parts
        /\ ~Counted(f) => <<"packed", r, t>> \in parts
        /\ Counted(f) => Singles(input.buffer, r, t)
    BY <1>1, DelimitedIs
  <1>3. /\ e \in Nat /\ e <= Len(input.buffer) /\ DOMAIN Top = FrameParts
    BY CaseIs
  <1>4. Go(y)
    BY <1>2 DEF EnterList
  <1> HIDE DEF u
  <1>5. /\ y.seek = Length.seek /\ y.list = <<f>> /\ y.class = Top.class /\ y.slot = Top.slot
        /\ y.until = u
    BY <1>3 DEF FrameParts
  <1> HIDE DEF y, t, e, r
  <1>6. y.seek.curr = r /\ y.seek.end = e /\ y.list # <<>> /\ y.list[1] = f
    BY <1>2, <1>5
  <1>7. CountedIn(input, y.class, f) <=> Counted(f)
    BY <1>5 DEF CountedIn, Counted, copy
  <1>8. /\ Counted(f) => r + y.until = t
        /\ ~Counted(f) => y.until = t
    BY <1>5 DEF u, t, r
  <1>9. r <= e
    BY <1>2, <1>3 DEF t, r, e
  <1>10. InPart(input, parts, y)
    BY <1>2, <1>3, <1>6, <1>7, <1>8, <1>9 DEF InPart, e
  <1>11. GoesOn(input, parts, y)
    BY <1>2, <1>5, <1>6, <1>7, <1>8 DEF GoesOn
  <1>12. y.seek.end = Top.seek.end
    BY <1>6 DEF e
  <1>13. QED
    BY <1>2, <1>4, <1>5, <1>10, <1>11, <1>12, GoProceeds

\* A submessage ends where its caller goes on.
LEMMA EnterMessageProceeds ==
  ASSUME TypeInv, NEW parts, PartsInv(parts), NEW f \in Cases, EnterMessage(f)
  PROVE  Proceeds(parts)
  <1> DEFINE r == Length.seek.curr
             e == Top.seek.end
             t == Length.seek.curr + Size
             old == IF f.many THEN <<>> ELSE Top.object[f.name]
             obj == IF style = "google" /\ old # <<>> THEN old[1] ELSE NewObject(Table[f.of])
             s == Skip(Length.seek, Size)
             i == SubSeeker(Length.seek, Size)
             y == [Top EXCEPT !.seek = s, !.fresh = FALSE]
             x == Frame(f.of, obj, i, <<f>>, 0)
  <1>1. Delimited /\ ReadLength /\ f.kind = "message" /\ ~Scalar(f)
    BY DEF EnterMessage, Scalar
  <1>2. /\ ~wide' /\ ~Bad(Length, 32) /\ ~TooLong
        /\ Length.seek = [curr |-> r, end |-> e]
        /\ r \in Nat /\ Size \in Nat /\ t <= e /\ <<Top.class, t, e>> \in parts
        /\ <<f.of, r, t>> \in parts
    BY <1>1, DelimitedIs
  <1>3. /\ e \in Nat /\ e <= Len(input.buffer) /\ DOMAIN Top = FrameParts /\ Top.list = <<>>
        /\ Len(input.buffer) \in Nat
    BY CaseIs
  <1>4. stack' = Append([stack EXCEPT ![Len(stack)].seek = s, ![Len(stack)].fresh = FALSE], x)
    BY <1>2 DEF EnterMessage
  <1>5. [stack EXCEPT ![Len(stack)].seek = s, ![Len(stack)].fresh = FALSE]
          = [stack EXCEPT ![Len(stack)] = y]
    BY TopIs DEF StackOK
  <1>6. s.curr = t /\ s.end = e /\ i.curr = r /\ i.end = t
    BY <1>2 DEF Skip, SubSeeker
  <1> HIDE DEF s, i, obj
  <1>7. y.seek = s /\ y.list = <<>> /\ y.class = Top.class /\ y.slot = Top.slot
    BY <1>3 DEF FrameParts
  <1>8. x.seek = i /\ x.list = <<>> /\ x.class = f.of
    BY DEF Frame
  <1> HIDE DEF y, x
  <1>9. y.seek.curr = t /\ y.seek.end = e /\ x.seek.curr = r /\ x.seek.end = t
    BY <1>6, <1>7, <1>8
  <1> HIDE DEF t, e
  <1>10. InPart(input, parts, y) /\ GoesOn(input, parts, y)
    BY <1>2, <1>3, <1>7, <1>9, NextField
  <1>11. r <= t /\ t <= Len(input.buffer)
    BY <1>2, <1>3 DEF t
  <1> HIDE DEF r
  <1>12. InPart(input, parts, x) /\ GoesOn(input, parts, x)
    BY <1>2, <1>8, <1>9, <1>11, NextField
  <1>13. y.seek.end = Top.seek.end /\ stack' = Append([stack EXCEPT ![Len(stack)] = y], x)
    BY <1>4, <1>5, <1>9 DEF e
  <1>14. x.seek.end = y.seek.curr
    BY <1>9
  <1>15. QED
    BY <1>2, <1>7, <1>10, <1>12, <1>13, <1>14, EnterProceeds

\* The packed record that a frame reads.
LEMMA PackedIs ==
  ASSUME TypeInv, NEW parts, PartsInv(parts), Top.list # <<>>
  PROVE  LET f == Top.list[1]
         IN  /\ f.kind = "int" /\ f.many /\ f.width = 64 /\ Top.list = <<f>>
             /\ CountedIn(input, Top.class, f) <=> Counted(f)
             /\ Counted(f) => style # "google"
             /\ Top.seek \in Seekers /\ Top.until \in Nat /\ ~wide /\ DOMAIN Top = FrameParts
             /\ Top.seek.curr <= Top.seek.end /\ Top.seek.end <= Len(input.buffer)
             /\ Len(input.buffer) \in Nat
             /\ Counted(f) => /\ Top.seek.curr + Top.until <= Top.seek.end
                              /\ Singles(input.buffer, Top.seek.curr, Top.seek.curr + Top.until)
             /\ ~Counted(f) => <<"packed", Top.seek.curr, Top.until>> \in parts /\ Top.until <= Top.seek.end
             /\ Len(stack) \in Scanned
                  \/ <<Top.class, IF Counted(f) THEN Top.seek.curr + Top.until ELSE Top.until, Top.seek.end>>
                       \in parts
  <1> DEFINE f == Top.list[1]
  <1>1. f \in Tables[input.copy][Top.class] /\ Top.list = <<f>> /\ f.kind = "int" /\ f.many
    BY ListIs
  <1> HIDE DEF f
  <1>2. f.width = 64
    BY <1>1, TopIs, TopParts DEF TableOK, FieldsOK
  <1>3. CountedIn(input, Top.class, f) <=> Counted(f)
    BY DEF CountedIn, Counted, copy
  <1>4. Counted(f) => style # "google"
    BY DEF Counted, style, Style
  <1>5. InPart(input, parts, Top) /\ (Len(stack) \in Scanned \/ GoesOn(input, parts, Top)) /\ ~wide
    BY TopInPart DEF PartsInv
  <1>6. Len(input.buffer) \in Nat
    BY TopParts, InputFacts
  <1>7. /\ Top.seek.curr <= Top.seek.end /\ Top.seek.end <= Len(input.buffer)
        /\ Counted(f) => /\ Top.seek.curr + Top.until <= Top.seek.end
                         /\ Singles(input.buffer, Top.seek.curr, Top.seek.curr + Top.until)
        /\ ~Counted(f) => <<"packed", Top.seek.curr, Top.until>> \in parts /\ Top.until <= Top.seek.end
    BY <1>3, <1>5 DEF InPart, f
  <1>8. Len(stack) \in Scanned
           \/ <<Top.class, IF Counted(f) THEN Top.seek.curr + Top.until ELSE Top.until, Top.seek.end>> \in parts
    BY <1>3, <1>5 DEF GoesOn, f
  <1>9. QED
    BY <1>1, <1>2, <1>3, <1>4, <1>5, <1>6, <1>7, <1>8, TopParts DEF f

\* The frame after one value of the record.
LEMMA NextValue ==
  ASSUME TypeInv, NEW parts, PartsInv(parts), Top.list # <<>>, More
  PROVE  LET f == Top.list[1]
             s == IF style = "google" THEN [Top.seek EXCEPT !.end = Top.until] ELSE Top.seek
             r == Read(f, s)
         IN  /\ r.ok /\ ~r.wide /\ r.seek.curr \in Nat
             /\ Counted(f) => r.seek.curr = Top.seek.curr + 1 /\ Top.until > 0
             /\ ~Counted(f) => r.seek.curr <= Top.until /\ <<"packed", r.seek.curr, Top.until>> \in parts
  <1> DEFINE f == Top.list[1]
             s == IF style = "google" THEN [Top.seek EXCEPT !.end = Top.until] ELSE Top.seek
             p == Top.seek.curr
             u == Top.until
             r == Read(f, s)
  <1>1. /\ f.width = 64 /\ Top.seek \in Seekers /\ u \in Nat /\ p \in Nat /\ Top.seek.end \in Nat
        /\ Counted(f) => style # "google"
        /\ Counted(f) => p + u <= Top.seek.end /\ Singles(input.buffer, p, p + u)
        /\ ~Counted(f) => <<"packed", p, u>> \in parts /\ u <= Top.seek.end
    BY PackedIs DEF Seekers
  <1>2. s \in Seekers /\ s.curr = p /\ s.end = IF style = "google" THEN u ELSE Top.seek.end
    BY <1>1 DEF Seekers
  <1> HIDE DEF s
  <1>3. r = ReadVarint64(input.buffer, s)
    BY <1>1 DEF Read, buffer
  <1> HIDE DEF r
  <1>4. ASSUME NEW q \in Nat, NEW n \in Nat, n <= 10, LiesIn(input.buffer, p, q, n), q <= s.end
        PROVE  r.ok /\ ~r.wide /\ r.seek.curr = q
    <2>1. LiesIn(input.buffer, s.curr, q, n)
      BY <1>2, <1>4
    <2>2. r.ok /\ r.seek = [curr |-> q, end |-> s.end] /\ ~r.wide
      BY <1>2, <1>3, <1>4, <2>1, LiesRead
    <2>3. QED
      BY <2>2
  <1>5. CASE Counted(f)
    <2>1. u > 0 /\ p + 1 <= s.end
      BY <1>1, <1>2, <1>5 DEF More
    <2>2. LiesIn(input.buffer, p, p + 1, 1)
      <3>1. p \in p .. p + u - 1 /\ p .. p + 1 - 2 = {} /\ p + 1 - 1 = p /\ p + 1 - p <= 1 /\ p < p + 1
        BY <1>1, <2>1
      <3>2. 7 \notin ByteAt(input.buffer, p + 1 - 1)
        BY <1>1, <1>5, <3>1 DEF Singles
      <3>3. QED
        BY <3>1, <3>2 DEF LiesIn, Lies
    <2>3. p + 1 \in Nat
      BY <1>1
    <2>4. r.ok /\ ~r.wide /\ r.seek.curr = p + 1
      BY <1>4, <2>1, <2>2, <2>3
    <2>5. QED
      BY <1>5, <2>1, <2>3, <2>4 DEF r, s
  <1>6. CASE ~Counted(f)
    <2>1. p < u /\ <<"packed", p, u>> \in parts
      BY <1>1, <1>6 DEF More
    <2>2. PartsAfter(input, <<"packed", p, u>>) \subseteq parts /\ Broken \notin parts
      BY <2>1, TopParts, TopInPart, PartIs
    <2>3. PartsAfter(input, <<"packed", p, u>>) = ScalarParts(input, "packed", p, u, 10)
      BY <1>1, <2>1 DEF PartsAfter
    <2> DEFINE q == EndAt(input.buffer, p, u)
    <2>4. /\ q \in Nat /\ q <= u /\ LiesIn(input.buffer, p, q, 10) /\ <<"packed", q, u>> \in parts
      BY <1>1, <2>2, <2>3, ScalarPart
    <2> HIDE DEF q
    <2>5. q <= s.end
      BY <1>1, <1>2, <1>6, <2>4
    <2>6. r.ok /\ ~r.wide /\ r.seek.curr = q
      BY <1>4, <2>4, <2>5
    <2>7. QED
      BY <1>6, <2>4, <2>6 DEF r, s
  <1>7. QED
    BY <1>5, <1>6

\* The values of a packed record are read to its end, and no further.
LEMMA NextInListProceeds ==
  ASSUME TypeInv, NEW parts, PartsInv(parts), NextInList
  PROVE  Proceeds(parts)
  <1> DEFINE f == Top.list[1]
             s == IF style = "google" THEN [Top.seek EXCEPT !.end = Top.until] ELSE Top.seek
             r == Read(f, s)
             o == Store(Top.object, f, r.value)
             u == IF Counted(f) THEN Top.until - 1 ELSE Top.until
             y == [Top EXCEPT !.seek.curr = r.seek.curr, !.object = o,
                              !.until = IF Counted(f) THEN @ - 1 ELSE @]
  <1>1. Top.list # <<>> /\ More
    BY DEF NextInList, InList
  <1>2. /\ r.ok /\ ~r.wide /\ r.seek.curr \in Nat
        /\ Counted(f) => r.seek.curr = Top.seek.curr + 1 /\ Top.until > 0
        /\ ~Counted(f) => r.seek.curr <= Top.until /\ <<"packed", r.seek.curr, Top.until>> \in parts
    BY <1>1, NextValue
  <1>3. /\ CountedIn(input, Top.class, f) <=> Counted(f)
        /\ Top.seek \in Seekers /\ Top.until \in Nat /\ ~wide /\ DOMAIN Top = FrameParts
        /\ Top.seek.curr \in Nat /\ Top.seek.end \in Nat
        /\ Top.seek.end <= Len(input.buffer) /\ Len(input.buffer) \in Nat
        /\ Counted(f) => /\ Top.seek.curr + Top.until <= Top.seek.end
                         /\ Singles(input.buffer, Top.seek.curr, Top.seek.curr + Top.until)
        /\ ~Counted(f) => Top.until <= Top.seek.end
        /\ Len(stack) \in Scanned
             \/ <<Top.class, IF Counted(f) THEN Top.seek.curr + Top.until ELSE Top.until, Top.seek.end>> \in parts
    BY <1>1, PackedIs DEF Seekers
  <1>4. Go(y) /\ ~wide'
    BY <1>2, <1>3 DEF NextInList, Bad
  <1> HIDE DEF r, s
  <1>5. /\ y.seek = [Top.seek EXCEPT !.curr = r.seek.curr] /\ y.until = u
        /\ y.list = Top.list /\ y.class = Top.class /\ y.slot = Top.slot
    BY <1>3 DEF FrameParts
  <1> HIDE DEF u, y, o
  <1>6. y.seek.curr = r.seek.curr /\ y.seek.end = Top.seek.end
    BY <1>3, <1>5 DEF Seekers
  <1>7. y.list # <<>> /\ y.list[1] = f /\ (CountedIn(input, y.class, f) <=> Counted(f))
    BY <1>1, <1>3, <1>5
  <1> HIDE DEF f
  <1>8. CASE Counted(f)
    <2>1. y.until = Top.until - 1 /\ y.seek.curr = Top.seek.curr + 1
      BY <1>2, <1>5, <1>6, <1>8 DEF u
    <2>2. y.seek.curr + y.until = Top.seek.curr + Top.until /\ y.seek.curr <= Top.seek.end
      <3>1. Top.seek.curr + Top.until <= Top.seek.end /\ Top.until > 0
        BY <1>2, <1>3, <1>8
      <3>2. /\ Top.seek.curr + 1 + (Top.until - 1) = Top.seek.curr + Top.until
            /\ Top.seek.curr + 1 <= Top.seek.end
        BY SMTT(30), <1>3, <3>1
      <3>3. QED
        BY <2>1, <3>2
    <2>3. Singles(input.buffer, y.seek.curr, Top.seek.curr + Top.until)
      BY <1>3, <1>8, <2>1 DEF Singles
    <2>4. InPart(input, parts, y)
      BY <1>3, <1>6, <1>7, <1>8, <2>2, <2>3 DEF InPart
    <2>5. Len(stack) \in Scanned \/ GoesOn(input, parts, y)
      BY <1>3, <1>5, <1>6, <1>7, <1>8, <2>2 DEF GoesOn
    <2>6. QED
      BY <1>4, <1>5, <1>6, <2>4, <2>5, GoProceeds
  <1>9. CASE ~Counted(f)
    <2>1. y.until = Top.until
      BY <1>5, <1>9 DEF u
    <2>2. y.seek.curr <= Top.seek.end
      BY <1>2, <1>3, <1>6, <1>9
    <2>3. InPart(input, parts, y)
      BY <1>2, <1>3, <1>6, <1>7, <1>9, <2>1, <2>2 DEF InPart
    <2>4. Len(stack) \in Scanned \/ GoesOn(input, parts, y)
      BY <1>3, <1>5, <1>6, <1>7, <1>9, <2>1 DEF GoesOn
    <2>5. QED
      BY <1>4, <1>5, <1>6, <2>3, <2>4, GoProceeds
  <1>10. QED
    BY <1>8, <1>9

\* Behind a packed record comes the next field.
LEMMA LeaveListProceeds ==
  ASSUME TypeInv, NEW parts, PartsInv(parts), LeaveList
  PROVE  Proceeds(parts)
  <1> DEFINE f == Top.list[1]
             y == [Top EXCEPT !.list = <<>>]
  <1>1. Top.list # <<>> /\ ~More /\ Go(y) /\ wide' = wide
    BY DEF LeaveList, InList
  <1>2. /\ Top.until \in Nat /\ ~wide /\ DOMAIN Top = FrameParts
        /\ Top.seek.curr \in Nat /\ Top.seek.end \in Nat
        /\ Top.seek.curr <= Top.seek.end /\ Top.seek.end <= Len(input.buffer)
        /\ ~Counted(f) => <<"packed", Top.seek.curr, Top.until>> \in parts
        /\ Len(stack) \in Scanned
             \/ <<Top.class, IF Counted(f) THEN Top.seek.curr + Top.until ELSE Top.until, Top.seek.end>> \in parts
    BY <1>1, PackedIs DEF Seekers
  <1>3. /\ Counted(f) => Top.until = 0
        /\ ~Counted(f) => Top.until = Top.seek.curr
    <2>1. CASE Counted(f)
      BY <1>1, <1>2, <2>1 DEF More
    <2>2. CASE ~Counted(f)
      <3>1. ~(Top.seek.curr < Top.until)
        BY <1>1, <2>2 DEF More
      <3>2. Top.seek.curr <= Top.until
        BY <1>2, <2>2, TopParts, TopInPart, PartIs
      <3>3. QED
        BY <1>2, <2>2, <3>1, <3>2
    <2>3. QED
      BY <2>1, <2>2
  <1>4. (IF Counted(f) THEN Top.seek.curr + Top.until ELSE Top.until) = Top.seek.curr
    BY <1>2, <1>3
  <1>5. /\ y.seek = Top.seek /\ y.list = <<>> /\ y.class = Top.class /\ y.slot = Top.slot
    BY <1>2 DEF FrameParts
  <1> HIDE DEF y, f
  <1>6. InPart(input, parts, y)
    BY <1>2, <1>5 DEF InPart
  <1>7. Len(stack) \in Scanned \/ GoesOn(input, parts, y)
    BY <1>2, <1>4, <1>5 DEF GoesOn
  <1>8. y.seek.end = Top.seek.end
    BY <1>5
  <1>9. QED
    BY <1>1, <1>2, <1>5, <1>6, <1>7, <1>8, GoProceeds

\* The field that no case takes is in no table of the writer.
LEMMA UnknownIs ==
  ASSUME TypeInv, NEW parts, PartsInv(parts), PassField
  PROVE  /\ AtField(parts) /\ Tag.value # {} /\ ~wide /\ ~Tag.wide /\ Top.list = <<>>
         /\ UnknownParts(input, Top.class, Tag.value, Tag.seek.curr, Top.seek.end) \subseteq parts
         /\ Tag.seek \in Seekers /\ Tag.seek.end = Top.seek.end /\ Tag.seek.curr <= Top.seek.end
         /\ Top.seek.end <= Len(input.buffer) /\ Broken \notin parts
  <1>1. AtField(parts) /\ Tag.value # {} /\ Top.list = <<>> /\ InField
    BY TopInPart DEF PassField, InField, InLoop
  <1>2. /\ ~Tag.wide /\ TagParts(parts) /\ Tag.seek \in Seekers /\ Tag.seek.end = Top.seek.end
        /\ Tag.seek.curr <= Top.seek.end
    BY <1>1, TagIs
  <1>3. Takers(input, Top.class, Tag.value) = {}
    <2>1. SUFFICES ASSUME NEW g \in Takers(input, Top.class, Tag.value) PROVE FALSE
      OBVIOUS
    <2>2. Wired(0) \/ Wired(2)
      BY NoTaker
    <2>3. PICK f \in Tables[input.copy][Top.class] : Bits(f.id) = FieldId(Tag.value) /\ Takes(f)
      BY NoTaker
    <2>4. f \in Cases
      BY <1>1, <2>3, TopIs DEF Cases
    <2>5. QED
      BY <2>2, <2>3, <2>4 DEF PassField, Rejects
  <1>4. UnknownParts(input, Top.class, Tag.value, Tag.seek.curr, Top.seek.end) \subseteq parts
    BY <1>2, <1>3 DEF TagParts
  <1>5. QED
    BY <1>1, <1>2, <1>4, AtFieldIs DEF PartsInv

\* Only the root is a Profile.
LEMMA ProfileIsRoot ==
  ASSUME TypeInv, Top.class = "Profile"
  PROVE  Len(stack) = 1
  <1>1. PICK n \in Nat : n > 0 /\ n = Len(stack)
    BY TopIs
  <1>2. Depth(Top.class) + Len(stack) <= 4 /\ Depth(Top.class) = 3
    BY TopIs DEF FrameOK, Depth
  <1>3. QED
    BY <1>1, <1>2

\* A submessage of a tracked file is no Profile.
LEMMA SkipsAre ==
  ASSUME TypeInv, Looping
  PROVE  Skips(input, Top.class) <=> style = "google"
  <1>1. style = "google" <=> input.copy = "google"
    <2>1. input.copy \in {"sequential", "generated", "generator", "google", "parallel", "pthreads", "dac"}
      BY TopParts, InputFacts
    <2>2. QED
      BY <2>1 DEF style, Style, copy
  <1>2. input.copy \in {"parallel", "pthreads"} => Top.class # "Profile"
    <2>1. input.copy \in {"parallel", "pthreads"} => Len(stack) # 1
      BY DEF Looping, Tracked, copy
    <2>2. QED
      BY <2>1, ProfileIsRoot
  <1>3. QED
    BY <1>1, <1>2 DEF Skips

\* Google goes behind the field.
LEMMA UnknownEndsAre ==
  ASSUME TypeInv, NEW parts, PartsInv(parts), PassField, style = "google", NEW end \in UnknownEnds
  PROVE  end <= Top.seek.end /\ <<Top.class, end, Top.seek.end>> \in parts
  <1> DEFINE c == Top.class
             e == Top.seek.end
             q == Tag.seek.curr
             r == ReadVarint64(buffer, Tag.seek)
             m == EndAt(input.buffer, q, e)
             t == Behind(input, q, e)
  <1>1. /\ UnknownParts(input, c, Tag.value, q, e) \subseteq parts /\ Broken \notin parts
        /\ Tag.seek \in Seekers /\ Tag.seek.end = e /\ q \in Nat /\ e \in Nat
    BY UnknownIs DEF Seekers
  <1>2. Skips(input, c) /\ input.copy = "google"
    <2>1. Looping
      BY DEF PassField, InField, InLoop
    <2>2. Skips(input, c)
      BY <2>1, SkipsAre
    <2>3. input.copy \in {"sequential", "generated", "generator", "google", "parallel", "pthreads", "dac"}
      BY TopParts, InputFacts
    <2>4. QED
      BY <2>2, <2>3 DEF style, Style, copy
  <1>3. FieldId(Tag.value) # {}
    BY <1>1, <1>2 DEF UnknownParts
  <1>4. CASE Wired(0)
    <2>1. ScalarParts(input, c, q, e, 10) \subseteq parts
      BY <1>1, <1>2, <1>3, <1>4 DEF UnknownParts, Wired
    <2>2. m \in Nat /\ m <= e /\ LiesIn(input.buffer, q, m, 10) /\ <<c, m, e>> \in parts
      BY <1>1, <2>1, ScalarPart
    <2> HIDE DEF m
    <2>3. LiesIn(input.buffer, Tag.seek.curr, m, 10) /\ m <= Tag.seek.end /\ 10 \in Nat
      BY <1>1, <2>2
    <2>4. PICK v : v = ReadVarint64(input.buffer, Tag.seek)
      OBVIOUS
    <2>5. v.ok /\ v.seek = [curr |-> m, end |-> Tag.seek.end]
      BY <1>1, <2>2, <2>3, <2>4, LiesRead
    <2>6. r.ok /\ r.seek.curr = m
      BY <2>4, <2>5 DEF buffer
    <2> HIDE DEF r
    <2>7. end = m
      BY <1>3, <1>4, <2>6 DEF UnknownEnds, r
    <2>8. QED
      BY <2>2, <2>7
  <1>5. CASE Wired(2) /\ ~Wired(0)
    <2>1. LengthFits(input, q, e) /\ <<c, t, e>> \in parts
      BY <1>1, <1>2, <1>3, <1>5 DEF UnknownParts, Wired
    <2> HIDE DEF t
    <2>2. PICK l : l = ReadVarint32(input.buffer, Tag.seek)
      OBVIOUS
    <2>3. l.ok /\ l.seek = [curr |-> m, end |-> e] /\ m + Number(l.value) = t /\ t <= e
      BY <1>1, <2>1, <2>2, LengthPart DEF t
    <2> HIDE DEF m
    <2>4. Length = l /\ Size = Number(l.value)
      BY <2>2 DEF Length, Size, buffer
    <2>5. Length.ok /\ Length.seek.curr + Size = t
      BY <2>3, <2>4
    <2>6. ~Wired(1)
      BY <1>5, BitsDiffer DEF Wired
    <2>7. end = t
      BY <1>3, <1>5, <2>5, <2>6 DEF UnknownEnds
    <2>8. QED
      BY <2>1, <2>3, <2>7
  <1>6. CASE ~Wired(0) /\ ~Wired(2)
    <2>1. Wired(5) /\ q + 4 <= e /\ <<c, q + 4, e>> \in parts
      BY <1>1, <1>2, <1>3, <1>6 DEF UnknownParts, Wired
    <2>2. ~Wired(1) /\ ~Wired(3)
      BY <2>1, BitsDiffer DEF Wired
    <2>3. end = q + 4
      BY <1>3, <1>6, <2>1, <2>2 DEF UnknownEnds
    <2>4. QED
      BY <2>1, <2>3
  <1>7. QED
    BY <1>4, <1>5, <1>6

\* What no case takes is passed as the writer meant it.
LEMMA PassFieldProceeds ==
  ASSUME TypeInv, NEW parts, PartsInv(parts), PassField
  PROVE  Proceeds(parts)
  <1>1. /\ AtField(parts) /\ Tag.value # {} /\ ~wide /\ ~Tag.wide /\ Top.list = <<>>
        /\ UnknownParts(input, Top.class, Tag.value, Tag.seek.curr, Top.seek.end) \subseteq parts
        /\ Tag.seek \in Seekers /\ Tag.seek.end = Top.seek.end /\ Tag.seek.curr <= Top.seek.end
        /\ Top.seek.end <= Len(input.buffer) /\ Broken \notin parts
    BY UnknownIs
  <1>2. ~wide' /\ Looping
    BY <1>1 DEF PassField, InField, InLoop
  <1>3. CASE Rejects \/ (Closed(Top.class) /\ Cases = {})
    <2>1. Return(FALSE, Top)
      BY <1>3 DEF PassField
    <2>2. Closed(Top.class)
      BY <1>3 DEF Rejects
    <2>3. style = "dac" /\ input.copy = "dac"
      <3>1. input.copy \in {"sequential", "generated", "generator", "google", "parallel", "pthreads", "dac"}
        BY TopParts, InputFacts
      <3>2. QED
        BY <2>2, <3>1 DEF Closed, style, Style, copy
    <2>4. ~Skips(input, Top.class)
      BY <2>3, <1>2, SkipsAre
    <2>5. Top.class \notin DC!ValueTypeIsClosed
      BY <1>1, <2>3, <2>4 DEF UnknownParts
    <2>6. Top.class = "Profile"
      BY <2>2, <2>5 DEF Closed, DC!ProfileIsClosed
    <2>7. Len(stack) = 1
      BY <2>6, ProfileIsRoot
    <2>8. InPart(input, parts, Top) /\ GoesOn(input, parts, Top)
      BY <1>1 DEF AtField
    <2>9. QED
      BY <1>2, <2>1, <2>7, <2>8, ReturnProceeds
  <1>4. CASE ~(Rejects \/ (Closed(Top.class) /\ Cases = {}))
    <2>1. PICK end \in IF style = "google" THEN UnknownEnds ELSE {Tag.seek.curr} :
            IF end > Tag.seek.end /\ style = "google" THEN Fail
            ELSE Go([Top EXCEPT !.fresh = FALSE, !.seek = [Tag.seek EXCEPT !.curr = end]])
      BY <1>4 DEF PassField
    <2>2. end <= Top.seek.end /\ <<Top.class, end, Top.seek.end>> \in parts
      <3>1. CASE style = "google"
        BY <2>1, <3>1, UnknownEndsAre
      <3>2. CASE style # "google"
        <4>1. ~Skips(input, Top.class)
          BY <1>2, <3>2, SkipsAre
        <4>2. <<Top.class, Tag.seek.curr, Top.seek.end>> \in parts
          BY <1>1, <4>1 DEF UnknownParts
        <4>3. QED
          BY <1>1, <2>1, <3>2, <4>2
      <3>3. QED
        BY <3>1, <3>2
    <2> DEFINE s == [Tag.seek EXCEPT !.curr = end]
               y == [Top EXCEPT !.fresh = FALSE, !.seek = s]
    <2>3. s.curr = end /\ s.end = Top.seek.end
      BY <1>1 DEF Seekers
    <2>4. Go(y)
      <3>1. Top.seek.end \in Nat /\ end \in Nat
        BY <1>1, <2>2, TopParts, PartIs DEF AtField
      <3>2. ~(end > Tag.seek.end)
        BY <1>1, <2>2, <3>1
      <3>3. QED
        BY <2>1, <3>2
    <2> HIDE DEF s
    <2>5. y.seek = s /\ y.list = <<>> /\ y.class = Top.class /\ y.slot = Top.slot
      BY <1>1, TopParts DEF FrameParts
    <2> HIDE DEF y
    <2>6. y.seek.curr = end /\ y.seek.end = Top.seek.end
      BY <2>3, <2>5
    <2>7. InPart(input, parts, y) /\ GoesOn(input, parts, y)
      BY <1>1, <2>2, <2>5, <2>6, NextField
    <2>8. QED
      BY <1>2, <2>4, <2>5, <2>6, <2>7, GoProceeds
  <1>5. QED
    BY <1>3, <1>4

\* All actions of MessageParse.
LEMMA NextProceeds ==
  ASSUME TypeInv, NEW parts, PartsInv(parts), Next
  PROVE  Proceeds(parts)
  <1>1. CASE EndOfMessage \/ NextInList \/ LeaveList \/ PassField
    BY <1>1, EndOfMessageProceeds, NextInListProceeds, LeaveListProceeds, PassFieldProceeds
  <1>2. ASSUME NEW f \in Cases, ReadScalar(f) \/ ReadText(f) \/ EnterMessage(f) \/ EnterList(f)
        PROVE  Proceeds(parts)
    BY <1>2, ReadScalarProceeds, ReadTextProceeds, EnterMessageProceeds, EnterListProceeds
  <1>3. QED
    BY <1>1, <1>2 DEF Next

--------------------------------------------------------------------------------
(* The scan in a written file.                                                 *)

\* The scan stands before a field of the Profile.
LEMMA ScanIs ==
  ASSUME TypeInv, NEW parts, PartsInv(parts), Scanning
  PROVE  /\ AtField(parts) /\ Tag.value # {} /\ ~wide /\ ~Tag.wide /\ Top.list = <<>>
         /\ TagParts(parts) /\ Tag.seek \in Seekers
         /\ Tag.seek.end = Top.seek.end /\ Tag.seek.curr <= Top.seek.end
         /\ Top.seek.end \in Nat /\ Top.seek.end <= Len(input.buffer) /\ Broken \notin parts
         /\ Top.class = "Profile" /\ Len(stack) = 1 /\ Skips(input, Top.class)
         /\ input.copy # "google" /\ input.copy # "sequential" /\ Tracked
         /\ Table["Profile"] = Tables[input.copy][Top.class] /\ DOMAIN Top = FrameParts
         /\ Table["Profile"] = ProfileTable /\ Len(input.buffer) \in Nat
  <1>1. TrackedRoot /\ loop = 0 /\ Tag.value # {}
    BY DEF Scanning
  <1>2. /\ Len(stack) = 1 /\ Top.class = "Profile" /\ Top.list = <<>> /\ Tracked /\ copy = input.copy
        /\ Tables[input.copy]["Profile"] = ProfileTable /\ Table["Profile"] = ProfileTable
    BY <1>1, RootIs
  <1>3. input.copy \in {"parallel", "pthreads"}
    BY <1>2 DEF Tracked
  <1>4. Scanned = {}
    BY <1>1 DEF Scanned
  <1>5. AtField(parts) /\ ~wide
    BY <1>2, <1>4, TopInPart DEF AtField, PartsInv
  <1>6. /\ ~Tag.wide /\ TagParts(parts) /\ Tag.seek \in Seekers
        /\ Tag.seek.end = Top.seek.end /\ Tag.seek.curr <= Top.seek.end
    BY <1>1, <1>5, TagIs
  <1>7. Top.seek.end \in Nat /\ Top.seek.end <= Len(input.buffer) /\ Broken \notin parts
    BY <1>5, AtFieldIs
  <1>8. Skips(input, Top.class)
    BY <1>2, <1>3 DEF Skips
  <1>9. Len(input.buffer) \in Nat
    BY TopParts, InputFacts
  <1>10. QED
    BY <1>1, <1>2, <1>3, <1>5, <1>6, <1>7, <1>8, <1>9, TopParts

\* Its frame goes on behind the field.
LEMMA ScanGoes ==
  ASSUME TypeInv, NEW parts, PartsInv(parts), Scanning, NEW y, y.list = <<>>, y.class = Top.class,
         y.slot = Top.slot, y.seek.end = Top.seek.end, y.seek.curr <= Top.seek.end,
         <<Top.class, y.seek.curr, Top.seek.end>> \in parts, Go(y), ~wide'
  PROVE  Proceeds(parts)
  <1>1. Top.seek.end <= Len(input.buffer)
    BY ScanIs
  <1>2. InPart(input, parts, y) /\ GoesOn(input, parts, y)
    BY <1>1, NextField
  <1>3. QED
    BY <1>2, GoProceeds

\* The scan reads a number of any id.
LEMMA ScanVarintProceeds ==
  ASSUME TypeInv, NEW parts, PartsInv(parts), ScanVarint
  PROVE  Proceeds(parts)
  <1> DEFINE c == Top.class
             e == Top.seek.end
             q == Tag.seek.curr
             m == EndAt(input.buffer, q, e)
             r == ReadVarint64(buffer, Tag.seek)
             takers == {f \in Table["Profile"] : OfId(f.id) /\ f.kind = "int"}
             o == IF takers = {} THEN Top.object ELSE Store(Top.object, CHOOSE f \in takers : TRUE, r.value)
             y == [Top EXCEPT !.seek = r.seek, !.object = o]
  <1>1. Scanning /\ Wired(0) /\ ~Wired(2)
    BY BitsDiffer DEF ScanVarint, Wired
  <1>2. /\ TagParts(parts) /\ Tag.seek \in Seekers /\ Tag.seek.end = e /\ q \in Nat /\ e \in Nat
        /\ Broken \notin parts /\ Skips(input, c) /\ input.copy # "google" /\ Top.list = <<>>
        /\ ~wide /\ ~Tag.wide /\ DOMAIN Top = FrameParts
    BY <1>1, ScanIs DEF Seekers
  <1>3. m \in Nat /\ m <= e /\ LiesIn(input.buffer, q, m, 10) /\ <<c, m, e>> \in parts
    <2>1. CASE Takers(input, c, Tag.value) = {}
      <3>1. UnknownParts(input, c, Tag.value, q, e) \subseteq parts
        BY <1>2, <2>1 DEF TagParts
      <3>2. ScalarParts(input, c, q, e, 10) \subseteq parts
        BY <1>1, <1>2, <3>1 DEF UnknownParts, Wired
      <3>3. QED
        BY <1>2, <3>2, ScalarPart
    <2>2. ASSUME NEW g \in Takers(input, c, Tag.value)
          PROVE  m \in Nat /\ m <= e /\ LiesIn(input.buffer, q, m, 10) /\ <<c, m, e>> \in parts
      <3>1. FieldParts(input, c, g, Tag.value, q, e) \subseteq parts
        BY <1>2, <2>2 DEF TagParts
      <3>2. AsScalar(input, c, g, Tag.value)
        BY <1>1, <2>2 DEF Takers, AsBytes, Wired
      <3>3. ScalarParts(input, c, q, e, Room(g)) \subseteq parts
        BY <3>1, <3>2 DEF FieldParts
      <3>4. Room(g) \in Nat /\ Room(g) <= 10
        BY DEF Room
      <3>5. m \in Nat /\ m <= e /\ LiesIn(input.buffer, q, m, Room(g)) /\ <<c, m, e>> \in parts
        BY <1>2, <3>3, ScalarPart
      <3> HIDE DEF m
      <3>6. LiesIn(input.buffer, q, m, 10)
        BY <1>2, <3>4, <3>5 DEF LiesIn
      <3>7. QED
        BY <3>5, <3>6
    <2>3. QED
      BY <2>1, <2>2
  <1> HIDE DEF m
  <1>4. LiesIn(input.buffer, Tag.seek.curr, m, 10) /\ m <= Tag.seek.end /\ 10 \in Nat
    BY <1>2, <1>3
  <1>5. PICK v : v = ReadVarint64(input.buffer, Tag.seek)
    OBVIOUS
  <1>6. v.ok /\ v.seek = [curr |-> m, end |-> Tag.seek.end] /\ ~v.wide
    BY <1>2, <1>3, <1>4, <1>5, LiesRead
  <1>7. r = v
    BY <1>5 DEF buffer
  <1>8. Go(y) /\ ~wide'
    BY <1>2, <1>6, <1>7 DEF ScanVarint
  <1> HIDE DEF r, o
  <1>9. y.seek = r.seek /\ y.list = <<>> /\ y.class = c /\ y.slot = Top.slot
    BY <1>2 DEF FrameParts
  <1> HIDE DEF y
  <1>10. y.seek.curr = m /\ y.seek.end = e
    BY <1>2, <1>6, <1>7, <1>9
  <1>11. QED
    BY <1>1, <1>3, <1>8, <1>9, <1>10, ScanGoes

\* A length that the scan reads.
LEMMA ScanLength ==
  ASSUME TypeInv, NEW parts, PartsInv(parts), Scanning, Wired(2)
  PROVE  LET r == Length.seek.curr
             e == Top.seek.end
             t == Length.seek.curr + Size
         IN  /\ Length.ok /\ ~Length.wide /\ Length.seek = [curr |-> r, end |-> e]
             /\ r \in Nat /\ Size \in Nat /\ t <= e /\ <<Top.class, t, e>> \in parts
  <1> DEFINE c == Top.class
             q == Tag.seek.curr
             e == Top.seek.end
             r == EndAt(input.buffer, q, e)
             t == Behind(input, q, e)
  <1>1. ~Wired(0)
    BY BitsDiffer DEF Wired
  <1>2. /\ TagParts(parts) /\ Tag.seek \in Seekers /\ Tag.seek.end = e /\ q \in Nat /\ e \in Nat
        /\ Broken \notin parts /\ Skips(input, c) /\ input.copy # "google"
    BY ScanIs DEF Seekers
  <1>3. LengthFits(input, q, e) /\ <<c, t, e>> \in parts
    <2>1. CASE Takers(input, c, Tag.value) = {}
      <3>1. UnknownParts(input, c, Tag.value, q, e) \subseteq parts
        BY <1>2, <2>1 DEF TagParts
      <3>2. QED
        BY <1>1, <1>2, <3>1 DEF UnknownParts, Wired
    <2>2. ASSUME NEW g \in Takers(input, c, Tag.value)
          PROVE  LengthFits(input, q, e) /\ <<c, t, e>> \in parts
      <3>1. FieldParts(input, c, g, Tag.value, q, e) \subseteq parts
        BY <1>2, <2>2 DEF TagParts
      <3>2. ~AsScalar(input, c, g, Tag.value)
        BY <1>1 DEF AsScalar, Wired
      <3>3. QED
        BY <1>2, <3>1, <3>2 DEF FieldParts
    <2>3. QED
      BY <2>1, <2>2
  <1> HIDE DEF t, r
  <1>4. /\ Length.ok /\ Length.seek = [curr |-> r, end |-> e] /\ ~Length.wide
        /\ r \in Nat /\ r + Size = t /\ t <= e
    <2>1. PICK l : l = ReadVarint32(input.buffer, Tag.seek)
      OBVIOUS
    <2>2. /\ l.ok /\ l.seek = [curr |-> r, end |-> e] /\ ~l.wide
          /\ r \in Nat /\ r + Number(l.value) = t /\ t <= e
      BY <1>2, <1>3, <2>1, LengthPart DEF r, t
    <2>3. Length = l /\ Size = Number(l.value)
      BY <2>1 DEF Length, Size, buffer
    <2>4. QED
      BY <2>2, <2>3
  <1>5. Size \in Nat
    BY LengthTyped
  <1>6. r = Length.seek.curr /\ t = Length.seek.curr + Size
    BY <1>4
  <1>7. QED
    BY <1>3, <1>4, <1>5, <1>6

\* The scan calls parseValueType on a part.
LEMMA ScanPeriodTypeProceeds ==
  ASSUME TypeInv, NEW parts, PartsInv(parts), ScanPeriodType
  PROVE  Proceeds(parts)
  <1> DEFINE f == ProfileField(11)
             obj == NewObject(Table["ValueType"])
             r == Length.seek.curr
             e == Top.seek.end
             t == Length.seek.curr + Size
             y == [Top EXCEPT !.seek = Skip(Length.seek, Size)]
             x == Frame("ValueType", obj, SubSeeker(Length.seek, Size), <<f>>, 0)
  <1>1. Scanning /\ Wired(2) /\ OfId(11)
    BY DEF ScanPeriodType
  <1>2. /\ AtField(parts) /\ Tag.value # {} /\ Len(stack) = 1 /\ ~wide /\ ~Tag.wide /\ Top.list = <<>>
        /\ e \in Nat /\ e <= Len(input.buffer) /\ DOMAIN Top = FrameParts /\ Len(input.buffer) \in Nat
        /\ Table["Profile"] = Tables[input.copy][Top.class] /\ Table["Profile"] = ProfileTable
    BY <1>1, ScanIs
  <1>3. f \in ProfileTable /\ f.kind = "message" /\ f.of = "ValueType" /\ f.id = 11
    BY <1>1, ProfileFieldsAre, Members DEF Scanning
  <1>4. Bits(f.id) = FieldId(Tag.value) /\ ~Scalar(f)
    BY <1>1, <1>3 DEF OfId, Scalar
  <1> HIDE DEF f
  <1>5. /\ Length.ok /\ ~Length.wide /\ Length.seek = [curr |-> r, end |-> e]
        /\ r \in Nat /\ Size \in Nat /\ t <= e /\ <<Top.class, t, e>> \in parts
        /\ <<f.of, r, t>> \in parts
    BY <1>1, <1>2, <1>3, <1>4, LengthIs
  <1>6. ~wide'
    BY <1>2, <1>5 DEF ScanPeriodType, ReadLength
  <1>7. stack' = Append([stack EXCEPT ![Len(stack)] = y], x)
    <2>1. Len(stack) = 1 /\ Top = stack[1]
      BY <1>1, RootIs DEF Scanning
    <2>2. QED
      BY <2>1 DEF ScanPeriodType, f
  <1>8. y.seek = Skip(Length.seek, Size) /\ y.list = <<>> /\ y.class = Top.class /\ y.slot = Top.slot
    BY <1>2 DEF FrameParts
  <1> HIDE DEF obj
  <1>9. /\ x.seek = SubSeeker(Length.seek, Size) /\ x.list = <<>> /\ x.class = "ValueType" /\ x.slot = 0
    BY DEF Frame
  <1> HIDE DEF x, y
  <1>10. /\ y.seek.curr = t /\ y.seek.end = e /\ x.seek.curr = r /\ x.seek.end = t
    BY <1>5, <1>8, <1>9 DEF Skip, SubSeeker
  <1>11. InPart(input, parts, y) /\ GoesOn(input, parts, y)
    BY <1>2, <1>5, <1>8, <1>10, NextField
  <1>12. InPart(input, parts, x) /\ GoesOn(input, parts, x)
    <2>1. r <= t /\ t <= Len(input.buffer)
      BY <1>2, <1>5
    <2>2. <<x.class, x.seek.curr, x.seek.end>> \in parts
      BY <1>3, <1>5, <1>9, <1>10
    <2>3. QED
      BY <1>9, <1>10, <2>1, <2>2, NextField
  <1>13. QED
    BY <1>6, <1>7, <1>8, <1>9, <1>10, <1>11, <1>12, EnterProceeds

\* The scan goes behind a record that it notes.
LEMMA TrackProceeds ==
  ASSUME TypeInv, NEW parts, PartsInv(parts), Track
  PROVE  Proceeds(parts)
  <1> DEFINE r == Length.seek.curr
             e == Top.seek.end
             t == Length.seek.curr + Size
             y == [Top EXCEPT !.seek = Skip(Length.seek, Size)]
  <1>1. Scanning /\ Wired(2)
    BY DEF Track
  <1>2. /\ Length.ok /\ ~Length.wide /\ Length.seek = [curr |-> r, end |-> e]
        /\ r \in Nat /\ Size \in Nat /\ t <= e /\ <<Top.class, t, e>> \in parts
    BY <1>1, ScanLength
  <1>3. ~wide /\ ~Tag.wide /\ Top.list = <<>> /\ DOMAIN Top = FrameParts
    BY <1>1, ScanIs
  <1>4. Go(y) /\ ~wide'
    BY <1>2, <1>3 DEF Track, ReadLength
  <1>5. y.seek = Skip(Length.seek, Size) /\ y.list = <<>> /\ y.class = Top.class /\ y.slot = Top.slot
    BY <1>3 DEF FrameParts
  <1> HIDE DEF y
  <1>6. y.seek.curr = t /\ y.seek.end = e
    BY <1>2, <1>5 DEF Skip
  <1>7. QED
    BY <1>1, <1>2, <1>4, <1>5, <1>6, ScanGoes

\* The scan passes a tag of another wire type, which no writer uses for a known field.
LEMMA PassWireProceeds ==
  ASSUME TypeInv, NEW parts, PartsInv(parts), PassWire
  PROVE  Proceeds(parts)
  <1> DEFINE c == Top.class
             e == Top.seek.end
             q == Tag.seek.curr
             y == [Top EXCEPT !.seek = Tag.seek]
  <1>1. Scanning /\ ~Wired(0) /\ ~Wired(2) /\ Go(y)
    BY DEF PassWire
  <1>2. /\ TagParts(parts) /\ Tag.seek.end = e /\ q <= e /\ Skips(input, c) /\ input.copy # "google"
        /\ ~wide /\ ~Tag.wide /\ Top.list = <<>> /\ DOMAIN Top = FrameParts
    BY <1>1, ScanIs
  <1>3. Takers(input, c, Tag.value) = {}
    BY <1>1, NoTaker
  <1>4. <<c, q, e>> \in parts
    <2>1. UnknownParts(input, c, Tag.value, q, e) \subseteq parts
      BY <1>2, <1>3 DEF TagParts
    <2>2. QED
      BY <1>1, <1>2, <2>1 DEF UnknownParts, Wired
  <1>5. ~wide'
    BY <1>2 DEF PassWire
  <1>6. y.seek = Tag.seek /\ y.list = <<>> /\ y.class = c /\ y.slot = Top.slot
    BY <1>2 DEF FrameParts
  <1> HIDE DEF y
  <1>7. QED
    BY <1>1, <1>2, <1>4, <1>5, <1>6, ScanGoes

\* The records that the scan notes lie in the file, and are what their field says.
LEMMA TrackRecords ==
  ASSUME TypeInv, NEW parts, PartsInv(parts), Track
  PROVE  RecordsOK(parts, tracker')
  <1> DEFINE r == [curr |-> Length.seek.curr, len |-> Size]
             t == Length.seek.curr + Size
             R == [curr : 0 .. Len(buffer), len : Nat]
  <1>1. Scanning /\ Wired(2)
    BY DEF Track
  <1>2. /\ Length.ok /\ Length.seek.curr \in Nat /\ Size \in Nat /\ t <= Top.seek.end
        /\ Tracked /\ RecordsOK(parts, tracker)
    BY <1>1, ScanLength, ScanIs DEF PartsInv
  <1>3. PICK id \in 1 .. MaxId : OfId(id) /\ tracker' = [tracker EXCEPT ![id] = Append(@, r)]
    BY <1>2 DEF Track
  <1>4. r \in R /\ tracker \in [1 .. MaxId -> Seq(R)]
    BY <1>1, <1>2, ScanReads
  <1>5. ASSUME NEW k \in DOMAIN Loops, Loops[k] = id
        PROVE  RecordOK(input, parts, ProfileField(Loops[k]), r)
    <2> DEFINE f == ProfileField(Loops[k])
    <2>1. /\ AtField(parts) /\ Tag.value # {} /\ Top.seek.end <= Len(input.buffer)
          /\ Top.seek.end \in Nat /\ Len(input.buffer) \in Nat /\ input.copy # "sequential"
          /\ Table["Profile"] = Tables[input.copy][Top.class] /\ Table["Profile"] = ProfileTable
      BY <1>1, ScanIs
    <2>2. f \in ProfileTable /\ f.id = id /\ (f.kind = "int" => f.many)
      BY <1>1, <1>5, ProfileFieldsAre DEF Scanning
    <2> HIDE DEF f
    <2>3. Bits(f.id) = FieldId(Tag.value)
      BY <1>3, <2>2 DEF OfId
    <2>4. ~Counted(f)
      BY <2>1 DEF Counted, copy
    <2>5. t <= Len(input.buffer)
      BY <1>2, <2>1
    <2>6. f.kind = "message" => <<f.of, Length.seek.curr, t>> \in parts
      BY <1>1, <2>1, <2>2, <2>3, LengthIs DEF Scalar
    <2>7. f.kind = "int" => <<"packed", Length.seek.curr, t>> \in parts
      BY <1>1, <2>1, <2>2, <2>3, <2>4, LengthIs DEF Scalar
    <2>8. QED
      BY <2>5, <2>6, <2>7 DEF RecordOK, f
  <1>6. ASSUME NEW k \in DOMAIN Loops, NEW i \in DOMAIN tracker'[Loops[k]]
        PROVE  RecordOK(input, parts, ProfileField(Loops[k]), tracker'[Loops[k]][i])
    <2>1. Loops[k] \in 1 .. MaxId
      BY LoopsAre
    <2>2. \A j \in DOMAIN tracker[Loops[k]] :
            RecordOK(input, parts, ProfileField(Loops[k]), tracker[Loops[k]][j])
      BY <1>2 DEF RecordsOK
    <2> HIDE DEF r, R
    <2>3. CASE Loops[k] # id
      <3>1. tracker'[Loops[k]] = tracker[Loops[k]]
        BY <1>3, <1>4, <2>1, <2>3
      <3>2. QED
        BY <1>6, <2>2, <3>1
    <2>4. CASE Loops[k] = id
      <3>1. PICK s \in Seq(R) : s = tracker[id]
        BY <1>4
      <3>2. PICK u : u = Append(s, r)
        OBVIOUS
      <3>3. tracker'[Loops[k]] = u
        BY <1>3, <1>4, <2>4, <3>1, <3>2
      <3>4. PICK n \in Nat : n = Len(s) /\ DOMAIN s = 1 .. n
        BY <3>1
      <3>5. u \in Seq(R) /\ Len(u) = n + 1 /\ u[n + 1] = r /\ \A j \in 1 .. n : u[j] = s[j]
        BY <1>4, <3>1, <3>2, <3>4, AppendProperties
      <3>6. DOMAIN u = 1 .. n + 1
        BY <3>5
      <3>7. i \in 1 .. n \/ i = n + 1
        BY <1>6, <3>3, <3>6
      <3>8. QED
        BY <1>5, <2>2, <2>4, <3>1, <3>3, <3>4, <3>5, <3>7
    <2>5. QED
      BY <2>3, <2>4
  <1>7. QED
    BY <1>6 DEF RecordsOK

--------------------------------------------------------------------------------
(* The loops in a written file.                                                *)

\* The frame stays where it is.
LEMMA ObjectProceeds ==
  ASSUME TypeInv, NEW parts, PartsInv(parts), NEW o, Go([Top EXCEPT !.object = o]), ~wide'
  PROVE  Proceeds(parts)
  <1> DEFINE y == [Top EXCEPT !.object = o]
  <1>1. Go(y)
    OBVIOUS
  <1>2. /\ y.seek = Top.seek /\ y.list = Top.list /\ y.until = Top.until
        /\ y.class = Top.class /\ y.slot = Top.slot
    BY TopParts DEF FrameParts
  <1> HIDE DEF y
  <1>3. InPart(input, parts, Top) /\ (Len(stack) \in Scanned \/ GoesOn(input, parts, Top))
    BY TopInPart
  <1>4. InPart(input, parts, y) /\ (Len(stack) \in Scanned \/ GoesOn(input, parts, y))
    BY <1>2, <1>3 DEF InPart, GoesOn
  <1>5. QED
    BY <1>1, <1>2, <1>4, GoProceeds

\* The end of the scan moves no frame.
LEMMA ResizeProceeds ==
  ASSUME TypeInv, NEW parts, PartsInv(parts), Resize
  PROVE  Proceeds(parts)
  <1>1. ~wide'
    <2>1. TrackedRoot /\ loop = 0
      BY DEF Resize
    <2>2. Top.list = <<>> /\ Len(stack) \notin Scanned
      BY <2>1, RootIs DEF Scanned
    <2>3. AtField(parts)
      BY <2>2, TopInPart DEF AtField
    <2>4. QED
      BY <2>3, TagIs DEF Resize, PartsInv
  <1>2. PICK o : Go([Top EXCEPT !.object = o])
    BY DEF Resize
  <1>3. QED
    BY <1>1, <1>2, ObjectProceeds

\* A loop ends.
LEMMA NextLoopProceeds ==
  ASSUME TypeInv, NEW parts, PartsInv(parts), NextLoop
  PROVE  Proceeds(parts)
  <1>1. stack' = stack /\ ~wide'
    BY DEF NextLoop, PartsInv
  <1>2. PICK n \in Nat : n = Len(stack)
    BY StackIs
  <1>3. ~(Len(stack') < Len(stack))
    BY <1>1, <1>2
  <1>4. QED
    BY <1>1, <1>3 DEF Proceeds, PartsInv

\* The record that a loop takes is a part of the file.
LEMMA BulkPart ==
  ASSUME TypeInv, NEW parts, PartsInv(parts), Bulk, NEW i \in left
  PROVE  LET f == BulkField
             s == Seek(i)
         IN  /\ s.curr \in Nat /\ s.end \in Nat /\ s.curr <= s.end /\ s.end <= Len(input.buffer)
             /\ f.kind = "message" => <<f.of, s.curr, s.end>> \in parts
             /\ f.kind = "int" => <<"packed", s.curr, s.end>> \in parts
             /\ Tracked /\ input.copy # "sequential" /\ 1 \in Scanned /\ Len(stack) = 1
  <1> DEFINE r == tracker[Loops[loop]][i]
  <1>1. /\ TrackedRoot /\ loop \in DOMAIN Loops /\ i \in DOMAIN tracker[Loops[loop]]
        /\ r \in [curr : 0 .. Len(buffer), len : Nat]
    BY BulkIs
  <1>2. Tracked /\ Len(stack) = 1 /\ copy = input.copy
    BY <1>1, RootIs
  <1>3. RecordOK(input, parts, BulkField, r)
    BY <1>1, <1>2 DEF PartsInv, RecordsOK, BulkField
  <1>4. Seek(i) = [curr |-> r.curr, end |-> r.curr + r.len]
    BY DEF Seek
  <1>5. r.curr \in Nat /\ r.len \in Nat
    BY <1>1
  <1> HIDE DEF r
  <1>6. loop > 0
    BY <1>1, LoopsAre
  <1>7. input.copy # "sequential" /\ 1 \in Scanned
    BY <1>2, <1>6 DEF Tracked, Scanned
  <1>8. Seek(i).curr = r.curr /\ Seek(i).end = r.curr + r.len
    BY <1>4
  <1>9. QED
    BY <1>2, <1>3, <1>5, <1>7, <1>8 DEF RecordOK

\* A loop calls a parse function on a record,
LEMMA BulkMessageProceeds ==
  ASSUME TypeInv, NEW parts, PartsInv(parts), NEW i \in left, BulkMessage(i)
  PROVE  Proceeds(parts)
  <1> DEFINE f == BulkField
             obj == NewObject(Table[f.of])
             x == Frame(f.of, obj, Seek(i), <<f>>, i)
  <1>1. Bulk /\ f.kind = "message" /\ stack' = Append(stack, x) /\ ~wide'
    BY DEF BulkMessage, PartsInv
  <1>2. /\ Seek(i).curr <= Seek(i).end /\ Seek(i).end <= Len(input.buffer)
        /\ <<f.of, Seek(i).curr, Seek(i).end>> \in parts
    BY <1>1, BulkPart
  <1>3. i # 0
    <2>1. i \in DOMAIN tracker[Loops[loop]] /\ loop \in DOMAIN Loops
      BY <1>1, BulkIs
    <2>2. tracker[Loops[loop]] \in Seq([curr : 0 .. Len(buffer), len : Nat])
      BY <2>1, LoopsAre DEF TypeInv
    <2>3. QED
      BY <2>1, <2>2
  <1> HIDE DEF f, obj
  <1>4. x.seek = Seek(i) /\ x.list = <<>> /\ x.class = f.of /\ x.slot = i
    BY DEF Frame
  <1> HIDE DEF x
  <1>5. InPart(input, parts, x) /\ GoesOn(input, parts, x)
    BY <1>2, <1>4, NextField
  <1>6. PICK n \in Nat : n > 0 /\ Len(stack) = n /\ stack = [k \in 1 .. n |-> stack[k]]
    BY StackIs
  <1>7. PICK t : t = stack'
    OBVIOUS
  <1>8. t = Append(stack, x) /\ ~(x.slot = 0)
    BY <1>1, <1>3, <1>4, <1>7
  <1>9. StackParts(input, parts, Scanned, stack)
    BY DEF PartsInv
  <1>10. StackParts(input, parts, Scanned, t)
    BY <1>5, <1>6, <1>8, <1>9, PartsGrow
  <1>11. Len(t) = n + 1
    BY <1>6, <1>8, LastGrows
  <1>12. ~(Len(stack') < Len(stack))
    BY <1>6, <1>7, <1>11
  <1>13. QED
    BY <1>1, <1>7, <1>10, <1>12 DEF Proceeds

\* reads a string from one,
LEMMA BulkTextProceeds ==
  ASSUME TypeInv, NEW parts, PartsInv(parts), NEW i \in left, BulkText(i)
  PROVE  Proceeds(parts)
  <1> DEFINE v == ReadString(buffer, Seek(i), tracker[Loops[loop]][i].len).value
             o == [Top.object EXCEPT !.string_table = [Top.object.string_table EXCEPT ![i] = v]]
  <1>1. Go([Top EXCEPT !.object.string_table[i] = v]) /\ ~wide'
    BY DEF BulkText, PartsInv
  <1> HIDE DEF v
  <1>2. Go([Top EXCEPT !.object = o])
    BY <1>1
  <1> HIDE DEF o
  <1>3. QED
    BY <1>1, <1>2, ObjectProceeds

\* or the values of one.
LEMMA BulkCommentProceeds ==
  ASSUME TypeInv, NEW parts, PartsInv(parts), NEW i \in left, BulkComment(i)
  PROVE  Proceeds(parts)
  <1> DEFINE f == BulkField
             y == [Top EXCEPT !.seek = Seek(i), !.list = <<f>>, !.until = Seek(i).end]
  <1>1. Bulk /\ f.kind = "int" /\ Go(y) /\ ~wide'
    BY DEF BulkComment, PartsInv
  <1>2. /\ Seek(i).curr \in Nat /\ Seek(i).end \in Nat
        /\ Seek(i).curr <= Seek(i).end /\ Seek(i).end <= Len(input.buffer)
        /\ <<"packed", Seek(i).curr, Seek(i).end>> \in parts
        /\ input.copy # "sequential" /\ 1 \in Scanned /\ Len(stack) = 1
    BY <1>1, BulkPart
  <1> HIDE DEF f
  <1>3. /\ y.seek = Seek(i) /\ y.until = Seek(i).end /\ y.class = Top.class /\ y.slot = Top.slot
        /\ y.list = <<f>>
    BY TopParts DEF FrameParts
  <1> HIDE DEF y
  <1>4. ~CountedIn(input, y.class, y.list[1])
    BY <1>2 DEF CountedIn
  <1>5. InPart(input, parts, y)
    BY <1>2, <1>3, <1>4 DEF InPart
  <1>6. Len(stack) \in Scanned /\ ~(Len(stack) > 1)
    BY <1>2
  <1>7. QED
    BY <1>1, <1>3, <1>5, <1>6, GoProceeds

--------------------------------------------------------------------------------
(* The theorems about written messages.                                        *)

\* Every step proceeds in the parts of the message.
LEMMA BulkNextProceeds ==
  ASSUME TypeInv, NEW parts, PartsInv(parts), BulkNext, ~UNCHANGED allvars
  PROVE  Proceeds(parts)
  <1>1. CASE Next
    BY <1>1, NextProceeds
  <1>2. CASE ScanVarint \/ ScanPeriodType \/ Track \/ PassWire
    BY <1>2, ScanVarintProceeds, ScanPeriodTypeProceeds, TrackProceeds, PassWireProceeds
  <1>3. CASE Resize \/ NextLoop
    BY <1>3, ResizeProceeds, NextLoopProceeds
  <1>4. ASSUME NEW i \in left, BulkMessage(i) \/ BulkText(i) \/ BulkComment(i)
        PROVE  Proceeds(parts)
    BY <1>4, BulkMessageProceeds, BulkTextProceeds, BulkCommentProceeds
  <1>5. QED
    BY <1>1, <1>2, <1>3, <1>4 DEF BulkNext, Stopped

\* No step changes the file, and the loops are not left for the scan.
LEMMA SameFile ==
  ASSUME TypeInv, [BulkNext]_allvars
  PROVE  input' = input /\ Scanned \subseteq Scanned'
  <1>1. input' = input
    <2>1. CASE Next
      BY <2>1, NextKeeps DEF Stays
    <2>2. CASE ScanVarint \/ ScanPeriodType \/ Track \/ PassWire
      BY <2>2 DEF ScanVarint, ScanPeriodType, Track, PassWire, ReadLength
    <2>3. CASE Resize \/ NextLoop \/ \E i \in left : BulkMessage(i) \/ BulkText(i) \/ BulkComment(i)
      BY <2>3 DEF Resize, NextLoop, BulkMessage, BulkText, BulkComment
    <2>4. CASE UNCHANGED allvars
      BY <2>4 DEF allvars, vars
    <2>5. QED
      BY <2>1, <2>2, <2>3, <2>4 DEF BulkNext, Stopped
  <1>2. loop > 0 => loop' > 0
    <2>1. CASE UNCHANGED scan
      BY <2>1 DEF scan
    <2>2. CASE ScanVarint \/ ScanPeriodType \/ Track \/ PassWire
      BY <2>2 DEF ScanVarint, ScanPeriodType, Track, PassWire, scan
    <2>3. CASE Resize \/ NextLoop
      <3>1. loop' = 1 \/ (loop \in DOMAIN Loops /\ loop' = loop + 1)
        BY <2>3 DEF Resize, NextLoop, StartLoop, Bulk
      <3>2. QED
        BY <3>1, LoopsAre
    <2>4. CASE \E i \in left : BulkMessage(i) \/ BulkText(i) \/ BulkComment(i)
      BY <2>4 DEF BulkMessage, BulkText, BulkComment
    <2>5. QED
      BY <2>1, <2>2, <2>3, <2>4 DEF BulkNext, Stopped, allvars, scan
  <1>3. Tracked' <=> Tracked
    BY <1>1 DEF Tracked, copy
  <1>4. QED
    BY <1>1, <1>2, <1>3 DEF Scanned

\* The noted records stay parts of the file.
LEMMA RecordsStay ==
  ASSUME TypeInv, NEW parts, PartsInv(parts), [BulkNext]_allvars
  PROVE  RecordsOK(parts, tracker')
  <1>1. CASE Track
    BY <1>1, TrackRecords
  <1>2. CASE tracker' = tracker
    BY <1>2 DEF PartsInv
  <1>3. Track \/ tracker' = tracker
    BY DEF BulkNext, Stopped, allvars, scan, ScanVarint, ScanPeriodType, PassWire, Resize, NextLoop,
           BulkMessage, BulkText, BulkComment
  <1>4. QED
    BY <1>1, <1>2, <1>3

\* Every step keeps the frames and the records in the parts.
LEMMA PartsInvStep ==
  ASSUME TypeInv, NEW parts, PartsInv(parts), [BulkNext]_allvars
  PROVE  PartsInv(parts)'
  <1>1. input' = input /\ Scanned \subseteq Scanned'
    BY SameFile
  <1>2. StackParts(input, parts, Scanned, stack') /\ ~wide'
    <2>1. CASE UNCHANGED allvars
      BY <2>1 DEF allvars, vars, PartsInv
    <2>2. CASE ~UNCHANGED allvars
      BY <2>2, BulkNextProceeds DEF Proceeds
    <2>3. QED
      BY <2>1, <2>2
  <1>3. StackParts(input, parts, Scanned', stack')
    BY <1>1, <1>2 DEF StackParts
  <1>4. RecordsOK(parts, tracker')
    BY RecordsStay
  <1>5. (Tracked' <=> Tracked) /\ Encoded(input, parts)
    BY <1>1 DEF Tracked, copy, PartsInv
  <1>6. RecordsOK(parts, tracker)'
    <2>1. ASSUME NEW k \in DOMAIN Loops PROVE ProfileField(Loops[k])' = ProfileField(Loops[k])
      BY <1>1 DEF ProfileField, Table, copy
    <2>2. QED
      BY <1>1, <1>4, <1>5, <2>1 DEF RecordsOK
  <1>7. QED
    BY <1>1, <1>2, <1>3, <1>5, <1>6 DEF PartsInv

\* The file is a part itself.
LEMMA PartsInvInit ==
  ASSUME BulkInit, NEW parts, Encoded(input, parts)
  PROVE  PartsInv(parts)
  <1> DEFINE n == Len(input.buffer)
             o == NewRoot(input.copy, input.root)
             x == Frame(input.root, o, [curr |-> 0, end |-> n], <<>>, 0)
  <1>1. /\ input \in Inputs /\ stack = <<x>> /\ wide = FALSE
        /\ tracker = [id \in 1 .. MaxId |-> <<>>]
    BY DEF BulkInit, Init, TrackedInit
  <1>2. <<input.root, 0, n>> \in parts /\ n \in Nat
    BY <1>1, InputFacts DEF Encoded
  <1> HIDE DEF o
  <1>3. x.seek.curr = 0 /\ x.seek.end = n /\ x.class = input.root /\ x.list = <<>>
    BY DEF Frame
  <1> HIDE DEF x
  <1>4. InPart(input, parts, x) /\ GoesOn(input, parts, x)
    BY <1>2, <1>3, NextField DEF n
  <1>5. Len(stack) = 1 /\ stack[1] = x
    BY <1>1
  <1>6. StackParts(input, parts, Scanned, stack)
    BY <1>4, <1>5 DEF StackParts
  <1>7. RecordsOK(parts, tracker)
    BY <1>1, LoopsAre DEF RecordsOK
  <1>8. QED
    BY <1>1, <1>6, <1>7 DEF PartsInv

\* The invariant of a written message.
InParts == TypeInv /\ \E parts : PartsInv(parts)

\* While a written message is parsed, each active parse function stands before a
\* field of a message that the writer has put there, with the same end, and every
\* record that the scan has noted is one that the writer has put there.
THEOREM InPartsAlways == Spec /\ Written => []InParts
  <1>1. BulkInit /\ Written => InParts
    BY TypeInvInit, PartsInvInit DEF Written, InParts
  <1>2. InParts /\ [BulkNext]_allvars => InParts'
    <2> SUFFICES ASSUME InParts, [BulkNext]_allvars PROVE InParts'
      OBVIOUS
    <2>1. TypeInv /\ TypeInv'
      BY TypeInvStep DEF InParts
    <2>2. PICK parts : PartsInv(parts)
      BY DEF InParts
    <2>3. PartsInv(parts)'
      BY <2>1, <2>2, PartsInvStep
    <2>4. QED
      BY <2>1, <2>3 DEF InParts
  <1>3. QED
    BY <1>1, <1>2, PTL DEF Spec

\* Frames in parts are nested.
LEMMA PartsNest == InParts => FramesNest
  <1> SUFFICES ASSUME InParts PROVE FramesNest
    OBVIOUS
  <1>1. TypeInv
    BY DEF InParts
  <1>2. PICK parts : StackParts(input, parts, Scanned, stack)
    BY DEF InParts, PartsInv
  <1>3. PICK n \in Nat : n = Len(stack) /\ stack = [k \in 1 .. n |-> stack[k]]
    BY <1>1, StackIs
  <1>4. DOMAIN stack = 1 .. n
    BY <1>3
  <1>5. ASSUME NEW k \in 1 .. n
        PROVE  /\ stack[k].seek.curr \in Nat /\ stack[k].seek.end \in Nat /\ stack[k].until \in Nat
               /\ InPart(input, parts, stack[k])
    <2>1. FrameOK(input, k, stack[k])
      BY <1>1, <1>3, TopIs DEF StackOK
    <2>2. QED
      BY <1>2, <1>3, <2>1 DEF StackParts, FrameOK, Seekers
  <1>6. ASSUME NEW k \in 1 .. n
        PROVE  /\ stack[k].seek.curr <= stack[k].seek.end /\ stack[k].seek.end <= Len(buffer)
               /\ stack[k].list # <<>> => stack[k].until <= stack[k].seek.end
    <2>1. /\ stack[k].seek.curr \in Nat /\ stack[k].seek.end \in Nat /\ stack[k].until \in Nat
          /\ InPart(input, parts, stack[k])
      BY <1>5
    <2>2. stack[k].list # <<>> => \/ stack[k].seek.curr + stack[k].until <= stack[k].seek.end
                                 \/ stack[k].until <= stack[k].seek.end
      BY <2>1 DEF InPart
    <2>3. stack[k].seek.curr <= stack[k].seek.end /\ stack[k].seek.end <= Len(buffer)
      BY <2>1 DEF InPart, buffer
    <2>4. QED
      BY <2>1, <2>2, <2>3
  <1>7. ASSUME NEW k \in 1 .. n, k > 1, stack[k].slot = 0
        PROVE  /\ stack[k].seek.end = stack[k - 1].seek.curr
               /\ stack[k].seek.end <= stack[k - 1].seek.end
    <2>1. k \in 2 .. n /\ k - 1 \in 1 .. n
      BY <1>7
    <2>2. stack[k].seek.end = stack[k - 1].seek.curr
      BY <1>2, <1>3, <1>7, <2>1 DEF StackParts
    <2>3. QED
      BY <1>6, <2>1, <2>2
  <1>8. QED
    BY <1>4, <1>6, <1>7 DEF FramesNest

\* FramesNest holds for every written message: although Skip, SubSeeker and the loops
\* over packed records compare with no end, no function of any copy reads behind
\* its end, and an inner message ends inside its caller.
THEOREM WrittenFramesNest == Spec /\ Written => []FramesNest
  BY InPartsAlways, PartsNest, PTL

\* NoWideShift holds for every written message: no byte of it is shifted by the width
\* of the variable or more, which would be undefined.
THEOREM WrittenNeverWide == Spec /\ Written => []NoWideShift
  <1>1. InParts => NoWideShift
    BY DEF InParts, PartsInv, NoWideShift
  <1>2. QED
    BY <1>1, InPartsAlways, PTL

\* ReturnsAtEnd holds for every written message: a parse function returns to its
\* caller when it has read all its bytes, never at a 0 among them.
THEOREM WrittenReturnsAtEnd == Spec /\ Written => ReturnsAtEnd
  <1>1. InParts /\ [BulkNext]_allvars
          => [Whole /\ Len(stack') < Len(stack) => Top.seek.curr = Top.seek.end]_allvars
    <2> SUFFICES ASSUME InParts, BulkNext, ~UNCHANGED allvars, Len(stack') < Len(stack)
                 PROVE  Top.seek.curr = Top.seek.end
      OBVIOUS
    <2>1. PICK parts : PartsInv(parts)
      BY DEF InParts
    <2>2. Proceeds(parts)
      BY <2>1, BulkNextProceeds DEF InParts
    <2>3. QED
      BY <2>2 DEF Proceeds
  <1>2. QED
    BY <1>1, InPartsAlways, PTL DEF Spec, ReturnsAtEnd
================================================================================
