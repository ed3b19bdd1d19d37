-------------------------- MODULE GeneratedMessages ---------------------------
(***************************************************************************)
(* The message classes of generated/profile.pbs.cpp and person.pbs.cpp, as *)
(* genFromProto.py wrote them.                                             *)
(***************************************************************************)
EXTENDS FieldTable

\* The constructor: numbers 0, the pointer null, the vectors empty; and the members
\* that set_x, add_x and get_x reach.
NewProfile ==
  [sample_type |-> <<>>, sample |-> <<>>, mapping |-> <<>>, location |-> <<>>,
   function |-> <<>>, string_table |-> <<>>, drop_frames |-> {}, keep_frames |-> {},
   time_nanos |-> {}, duration_nanos |-> {}, period_type |-> <<>>, period |-> {},
   comment |-> <<>>, default_sample_type |-> {}]

Profile ==
  {Vector(1, "sample_type", "ValueType"), Vector(2, "sample", "Sample"),
   Vector(3, "mapping", "Mapping"), Vector(4, "location", "Location"),
   Vector(5, "function", "Function"), Texts(6, "string_table"), Int64(7, "drop_frames"),
   Int64(8, "keep_frames"), Int64(9, "time_nanos"), Int64(10, "duration_nanos"),
   Pointer(11, "period_type", "ValueType"), Int64(12, "period"), Ints64(13, "comment"),
   Int64(14, "default_sample_type")}

ValueType == {Int64(1, "type"), Int64(2, "unit")}

Sample == {Ints64(1, "location_id"), Ints64(2, "value"), Vector(3, "label", "Label")}

Label == {Int64(1, "key"), Int64(2, "str"), Int64(3, "num"), Int64(4, "num_unit")}

Mapping ==
  {Int64(1, "id"), Int64(2, "memory_start"), Int64(3, "memory_limit"), Int64(4, "file_offset"),
   Int64(5, "filename"), Int64(6, "build_id"), Bool(7, "has_functions"),
   Bool(8, "has_filenames"), Bool(9, "has_line_numbers"), Bool(10, "has_inline_frames")}

Location ==
  {Int64(1, "id"), Int64(2, "mapping_id"), Int64(3, "address"),
   Vector(4, "line", "Line"), Bool(5, "is_folded")}

Line == {Int64(1, "function_id"), Int64(2, "line")}

Function ==
  {Int64(1, "id"), Int64(2, "name"), Int64(3, "system_name"),
   Int64(4, "filename"), Int64(5, "start_line")}

NewAddress == [zipcode |-> {}, international |-> {}, city |-> <<>>]

Address == {Int32(1, "zipcode"), Bool(2, "international"), Text(3, "city")}

NewPerson ==
  [name |-> <<>>, age |-> {}, address |-> <<>>, names |-> <<>>, ages |-> <<>>, addresses |-> <<>>]

Person ==
  {Text(1, "name"), Int64(2, "age"), Pointer(3, "address", "Address"), Texts(4, "names"),
   Ints64(5, "ages"), Vector(6, "addresses", "Address")}

Classes ==
  [Profile |-> Profile, ValueType |-> ValueType, Sample |-> Sample, Label |-> Label, Mapping |-> Mapping,
   Location |-> Location, Line |-> Line, Function |-> Function,
   Person |-> Person, Address |-> Address]
=============================================================================
