------------------------------ MODULE Generators ------------------------------
(***************************************************************************)
(* genFromProto.py: from the messages of a .proto file to message classes. *)
(* A field of a message is what parse_proto_file keeps of its line.        *)
(***************************************************************************)
EXTENDS FieldTable

Attr(repeated, proto_type, var, field_id) ==
  [repeated |-> repeated, proto_type |-> proto_type, var |-> var, field_id |-> field_id]
One(proto_type, var, field_id)  == Attr(FALSE, proto_type, var, field_id)
Many(proto_type, var, field_id) == Attr(TRUE, proto_type, var, field_id)

wire0 == {"uint32", "int32", "uint64", "int64", "bool"}
\* Only the unsigned type is found to be wide.
Has64Unsigned(proto_type) == proto_type = "uint64"

Has64(proto_type) == proto_type \in {"uint64", "int64"}

\* cpp_type ends in * : the type is none of prototype_to_cpptype.
IsPointer(a) == a.proto_type \notin wire0 \cup {"string"}

\* The case that genCase writes for a field, by its type.
genCase(a) ==
  LET kind == IF a.proto_type = "bool" THEN "bool"
              ELSE IF a.proto_type \in wire0 THEN "int"
              ELSE IF a.proto_type = "string" THEN "string" ELSE "message"
      bits == IF a.proto_type \notin wire0 THEN 0 ELSE IF Has64(a.proto_type) THEN 64 ELSE 32
  IN  Field(a.field_id, a.var, kind, bits, a.repeated, IF IsPointer(a) THEN a.proto_type ELSE "")

\* The cases of one parse function; a switch has one case for an id.
parseClass(fields) == {genCase(a) : a \in fields}

\* The constructor that generate_CPP writes: a vector needs no line.
Constructor(fields) ==
  [v \in {a.var : a \in fields} |->
     LET a == CHOOSE b \in fields : b.var = v
     IN  IF a.repeated \/ a.proto_type = "string" \/ IsPointer(a) THEN <<>> ELSE {}]

-----------------------------------------------------------------------------
(* The schemas.                                                            *)

profile_proto ==
  [Profile |->
     {Many("ValueType", "sample_type", 1), Many("Sample", "sample", 2),
      Many("Mapping", "mapping", 3), Many("Location", "location", 4),
      Many("Function", "function", 5), Many("string", "string_table", 6),
      One("int64", "drop_frames", 7), One("int64", "keep_frames", 8),
      One("int64", "time_nanos", 9), One("int64", "duration_nanos", 10),
      One("ValueType", "period_type", 11), One("int64", "period", 12),
      Many("int64", "comment", 13), One("int64", "default_sample_type", 14)},
   ValueType |-> {One("int64", "type", 1), One("int64", "unit", 2)},
   Sample |->
     {Many("uint64", "location_id", 1), Many("int64", "value", 2), Many("Label", "label", 3)},
   Label |->
     {One("int64", "key", 1), One("int64", "str", 2), One("int64", "num", 3),
      One("int64", "num_unit", 4)},
   Mapping |->
     {One("uint64", "id", 1), One("uint64", "memory_start", 2), One("uint64", "memory_limit", 3),
      One("uint64", "file_offset", 4), One("int64", "filename", 5), One("int64", "build_id", 6),
      One("bool", "has_functions", 7), One("bool", "has_filenames", 8),
      One("bool", "has_line_numbers", 9), One("bool", "has_inline_frames", 10)},
   Location |->
     {One("uint64", "id", 1), One("uint64", "mapping_id", 2), One("uint64", "address", 3),
      Many("Line", "line", 4), One("bool", "is_folded", 5)},
   Line |-> {One("uint64", "function_id", 1), One("int64", "line", 2)},
   Function |->
     {One("uint64", "id", 1), One("int64", "name", 2), One("int64", "system_name", 3),
      One("int64", "filename", 4), One("int64", "start_line", 5)}]

person_proto ==
  [Address |-> {One("uint32", "zipcode", 1), One("bool", "international", 2), One("string", "city", 3)},
   Person |->
     {One("string", "name", 1), One("int64", "age", 2), One("Address", "address", 3),
      Many("string", "names", 4), Many("uint64", "ages", 5), Many("Address", "addresses", 6)}]

Schema == [c \in DOMAIN profile_proto \cup DOMAIN person_proto |->
             IF c \in DOMAIN profile_proto THEN profile_proto[c] ELSE person_proto[c]]

Classes == [c \in DOMAIN Schema |-> parseClass(Schema[c])]
=============================================================================
