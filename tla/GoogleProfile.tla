---------------------------- MODULE GoogleProfile ----------------------------
(***************************************************************************)
(* schema/profile.pb.cc, Google's classes for the same messages: what each *)
(* field's case of _InternalParse reads, Clear, _InternalSerialize,        *)
(* ByteSizeLong and MergeFrom.  Unknown fields are kept apart from the     *)
(* members; nothing here reads them.                                       *)
(***************************************************************************)
EXTENDS FieldTable, WireFormat

-----------------------------------------------------------------------------
(* Line                                                                    *)

LineFields == {Int64(1, "function_id"), Int64(2, "line")}

LineClear == [function_id |-> {}, line |-> {}]

LineSerialize(m) == WriteInt(1, m.function_id) \o WriteInt(2, m.line)

LineByteSize(m) == IntSize(m.function_id) + IntSize(m.line)

LineMergeFrom(to, from) ==
  [function_id |-> Merged(to.function_id, from.function_id, {}),
   line |-> Merged(to.line, from.line, {})]

-----------------------------------------------------------------------------
(* Label                                                                   *)

LabelFields == {Int64(1, "key"), Int64(2, "str"), Int64(3, "num"), Int64(4, "num_unit")}

LabelClear == [key |-> {}, str |-> {}, num |-> {}, num_unit |-> {}]

LabelSerialize(m) ==
  WriteInt(1, m.key) \o WriteInt(2, m.str) \o WriteInt(3, m.num) \o WriteInt(4, m.num_unit)

LabelByteSize(m) == IntSize(m.key) + IntSize(m.str) + IntSize(m.num) + IntSize(m.num_unit)

LabelMergeFrom(to, from) ==
  [key |-> Merged(to.key, from.key, {}), str |-> Merged(to.str, from.str, {}),
   num |-> Merged(to.num, from.num, {}), num_unit |-> Merged(to.num_unit, from.num_unit, {})]

-----------------------------------------------------------------------------
(* ValueType                                                               *)

ValueTypeFields == {Int64(1, "type"), Int64(2, "unit")}

ValueTypeClear == [type |-> {}, unit |-> {}]

ValueTypeSerialize(m) == WriteInt(1, m.type) \o WriteInt(2, m.unit)

ValueTypeByteSize(m) == IntSize(m.type) + IntSize(m.unit)

ValueTypeMergeFrom(to, from) ==
  [type |-> Merged(to.type, from.type, {}), unit |-> Merged(to.unit, from.unit, {})]

-----------------------------------------------------------------------------
(* Sample                                                                  *)

SampleFields == {Ints64(1, "location_id"), Ints64(2, "value"), Vector(3, "label", "Label")}

SampleClear == [location_id |-> <<>>, value |-> <<>>, label |-> <<>>]

SampleSerialize(m) ==
  WritePacked(1, m.location_id) \o WritePacked(2, m.value)
    \o WriteMessages(3, m.label, LabelSerialize, LabelByteSize)

\* The labels are left out.
SampleByteSizeShort(m) == PackedSize(m.location_id) + PackedSize(m.value)

SampleByteSize(m) ==
  PackedSize(m.location_id) + PackedSize(m.value) + MessagesSize(m.label, LabelByteSize)

SampleMergeFrom(to, from) ==
  [location_id |-> to.location_id \o from.location_id, value |-> to.value \o from.value,
   label |-> to.label \o from.label]

-----------------------------------------------------------------------------
(* Mapping                                                                 *)

MappingFields ==
  {Int64(1, "id"), Int64(2, "memory_start"), Int64(3, "memory_limit"), Int64(4, "file_offset"),
   Int64(5, "filename"), Int64(6, "build_id"), Bool64(7, "has_functions"),
   Bool64(8, "has_filenames"), Bool64(9, "has_line_numbers"), Bool64(10, "has_inline_frames")}

MappingClear ==
  [id |-> {}, memory_start |-> {}, memory_limit |-> {}, file_offset |-> {}, filename |-> {},
   build_id |-> {}, has_functions |-> {}, has_filenames |-> {}, has_line_numbers |-> {},
   has_inline_frames |-> {}]

MappingSerialize(m) ==
  WriteInt(1, m.id) \o WriteInt(2, m.memory_start) \o WriteInt(3, m.memory_limit)
    \o WriteInt(4, m.file_offset) \o WriteInt(5, m.filename) \o WriteInt(6, m.build_id)
    \o WriteInt(7, m.has_functions) \o WriteInt(8, m.has_filenames)
    \o WriteInt(9, m.has_line_numbers) \o WriteInt(10, m.has_inline_frames)

MappingByteSize(m) ==
  IntSize(m.id) + IntSize(m.memory_start) + IntSize(m.memory_limit) + IntSize(m.file_offset)
    + IntSize(m.filename) + IntSize(m.build_id) + IntSize(m.has_functions)
    + IntSize(m.has_filenames) + IntSize(m.has_line_numbers) + IntSize(m.has_inline_frames)

MappingMergeFrom(to, from) ==
  [id |-> Merged(to.id, from.id, {}),
   memory_start |-> Merged(to.memory_start, from.memory_start, {}),
   memory_limit |-> Merged(to.memory_limit, from.memory_limit, {}),
   file_offset |-> Merged(to.file_offset, from.file_offset, {}),
   filename |-> Merged(to.filename, from.filename, {}),
   build_id |-> Merged(to.build_id, from.build_id, {}),
   has_functions |-> Merged(to.has_functions, from.has_functions, {}),
   has_filenames |-> Merged(to.has_filenames, from.has_filenames, {}),
   has_line_numbers |-> Merged(to.has_line_numbers, from.has_line_numbers, {}),
   has_inline_frames |-> Merged(to.has_inline_frames, from.has_inline_frames, {})]

-----------------------------------------------------------------------------
(* Location                                                                *)

LocationFields ==
  {Int64(1, "id"), Int64(2, "mapping_id"), Int64(3, "address"),
   Vector(4, "line", "Line"), Bool64(5, "is_folded")}

LocationClear ==
  [id |-> {}, mapping_id |-> {}, address |-> {}, line |-> <<>>, is_folded |-> {}]

LocationSerialize(m) ==
  WriteInt(1, m.id) \o WriteInt(2, m.mapping_id) \o WriteInt(3, m.address)
    \o WriteMessages(4, m.line, LineSerialize, LineByteSize) \o WriteInt(5, m.is_folded)

LocationByteSize(m) ==
  MessagesSize(m.line, LineByteSize) + IntSize(m.id) + IntSize(m.mapping_id)
    + IntSize(m.address) + IntSize(m.is_folded)

LocationMergeFrom(to, from) ==
  [line |-> to.line \o from.line, id |-> Merged(to.id, from.id, {}),
   mapping_id |-> Merged(to.mapping_id, from.mapping_id, {}),
   address |-> Merged(to.address, from.address, {}),
   is_folded |-> Merged(to.is_folded, from.is_folded, {})]

-----------------------------------------------------------------------------
(* Function                                                                *)

FunctionFields ==
  {Int64(1, "id"), Int64(2, "name"), Int64(3, "system_name"),
   Int64(4, "filename"), Int64(5, "start_line")}

FunctionClear == [id |-> {}, name |-> {}, system_name |-> {}, filename |-> {}, start_line |-> {}]

FunctionSerialize(m) ==
  WriteInt(1, m.id) \o WriteInt(2, m.name) \o WriteInt(3, m.system_name)
    \o WriteInt(4, m.filename) \o WriteInt(5, m.start_line)

FunctionByteSize(m) ==
  IntSize(m.id) + IntSize(m.name) + IntSize(m.system_name) + IntSize(m.filename)
    + IntSize(m.start_line)

FunctionMergeFrom(to, from) ==
  [id |-> Merged(to.id, from.id, {}), name |-> Merged(to.name, from.name, {}),
   system_name |-> Merged(to.system_name, from.system_name, {}),
   filename |-> Merged(to.filename, from.filename, {}),
   start_line |-> Merged(to.start_line, from.start_line, {})]

-----------------------------------------------------------------------------
(* Profile                                                                 *)

ProfileFields ==
  {Vector(1, "sample_type", "ValueType"), Vector(2, "sample", "Sample"),
   Vector(3, "mapping", "Mapping"), Vector(4, "location", "Location"),
   Vector(5, "function", "Function"), Texts(6, "string_table"), Int64(7, "drop_frames"),
   Int64(8, "keep_frames"), Int64(9, "time_nanos"), Int64(10, "duration_nanos"),
   Pointer(11, "period_type", "ValueType"), Int64(12, "period"), Ints64(13, "comment"),
   Int64(14, "default_sample_type")}

ProfileClear ==
  [sample_type |-> <<>>, sample |-> <<>>, mapping |-> <<>>, location |-> <<>>,
   function |-> <<>>, string_table |-> <<>>, drop_frames |-> {}, keep_frames |-> {},
   time_nanos |-> {}, duration_nanos |-> {}, period_type |-> <<>>, period |-> {},
   comment |-> <<>>, default_sample_type |-> {}]

ProfileSerialize(m) ==
  WriteMessages(1, m.sample_type, ValueTypeSerialize, ValueTypeByteSize)
    \o WriteMessages(2, m.sample, SampleSerialize, SampleByteSize)
    \o WriteMessages(3, m.mapping, MappingSerialize, MappingByteSize)
    \o WriteMessages(4, m.location, LocationSerialize, LocationByteSize)
    \o WriteMessages(5, m.function, FunctionSerialize, FunctionByteSize)
    \o WriteStrings(6, m.string_table) \o WriteInt(7, m.drop_frames)
    \o WriteInt(8, m.keep_frames) \o WriteInt(9, m.time_nanos) \o WriteInt(10, m.duration_nanos)
    \o WriteMessages(11, m.period_type, ValueTypeSerialize, ValueTypeByteSize)
    \o WriteInt(12, m.period) \o WritePacked(13, m.comment) \o WriteInt(14, m.default_sample_type)

ProfileByteSize(m) ==
  MessagesSize(m.sample_type, ValueTypeByteSize) + MessagesSize(m.sample, SampleByteSize)
    + MessagesSize(m.mapping, MappingByteSize) + MessagesSize(m.location, LocationByteSize)
    + MessagesSize(m.function, FunctionByteSize) + StringsSize(m.string_table)
    + PackedSize(m.comment) + MessagesSize(m.period_type, ValueTypeByteSize)
    + IntSize(m.drop_frames) + IntSize(m.keep_frames) + IntSize(m.time_nanos)
    + IntSize(m.duration_nanos) + IntSize(m.period) + IntSize(m.default_sample_type)

\* A period_type that both have is merged, one that only from has is copied.
ProfileMergeFrom(to, from) ==
  [sample_type |-> to.sample_type \o from.sample_type, sample |-> to.sample \o from.sample,
   mapping |-> to.mapping \o from.mapping, location |-> to.location \o from.location,
   function |-> to.function \o from.function,
   string_table |-> to.string_table \o from.string_table, comment |-> to.comment \o from.comment,
   period_type |-> IF to.period_type = <<>> \/ from.period_type = <<>>
                   THEN to.period_type \o from.period_type
                   ELSE <<ValueTypeMergeFrom(to.period_type[1], from.period_type[1])>>,
   drop_frames |-> Merged(to.drop_frames, from.drop_frames, {}),
   keep_frames |-> Merged(to.keep_frames, from.keep_frames, {}),
   time_nanos |-> Merged(to.time_nanos, from.time_nanos, {}),
   duration_nanos |-> Merged(to.duration_nanos, from.duration_nanos, {}),
   period |-> Merged(to.period, from.period, {}),
   default_sample_type |-> Merged(to.default_sample_type, from.default_sample_type, {})]

-----------------------------------------------------------------------------
Classes ==
  [Profile |-> ProfileFields, ValueType |-> ValueTypeFields, Sample |-> SampleFields,
   Label |-> LabelFields, Mapping |-> MappingFields, Location |-> LocationFields,
   Line |-> LineFields, Function |-> FunctionFields]
=============================================================================
