------------------------------- MODULE PbsToPb --------------------------------
(***************************************************************************)
(* The conversions of a parsed PBSkip message to Google's classes, which   *)
(* the tests then compare with what Google's parser has made of the same   *)
(* file: the fixed one of profile_pbsTopb.h, the one that testperson.cpp   *)
(* writes out, and the generator of such code, genPBSToPB.py.  Each reads  *)
(* the object of a singular submessage without asking whether there is one *)
(* (Head of an empty pointer has no value here).                           *)
(***************************************************************************)
EXTENDS Generators

Each(es, F(_)) == [i \in DOMAIN es |-> F(es[i])]

ValueTypeToPb(e) == [type |-> e.type, unit |-> e.unit]

LabelToPb(e) == [key |-> e.key, str |-> e.str, num |-> e.num, num_unit |-> e.num_unit]

SampleToPb(e) ==
  [location_id |-> e.location_id, value |-> e.value, label |-> Each(e.label, LabelToPb)]

MappingToPb(e) ==
  [id |-> e.id, memory_start |-> e.memory_start, memory_limit |-> e.memory_limit,
   file_offset |-> e.file_offset, filename |-> e.filename, build_id |-> e.build_id,
   has_functions |-> e.has_functions, has_filenames |-> e.has_filenames,
   has_line_numbers |-> e.has_line_numbers, has_inline_frames |-> e.has_inline_frames]

LineToPb(e) == [function_id |-> e.function_id, line |-> e.line]

\* is_folded, which comes after the nested loop, is forgotten.
LocationToPbShort(e) ==
  [id |-> e.id, mapping_id |-> e.mapping_id, address |-> e.address,
   line |-> Each(e.line, LineToPb), is_folded |-> {}]

LocationToPb(e) ==
  [id |-> e.id, mapping_id |-> e.mapping_id, address |-> e.address,
   line |-> Each(e.line, LineToPb), is_folded |-> e.is_folded]

FunctionToPb(e) ==
  [id |-> e.id, name |-> e.name, system_name |-> e.system_name, filename |-> e.filename,
   start_line |-> e.start_line]

PeriodTypeToPb(pbs) == <<ValueTypeToPb(Head(pbs.period_type))>>

ProfileToPb(pbs) ==
  [sample_type |-> Each(pbs.sample_type, ValueTypeToPb), sample |-> Each(pbs.sample, SampleToPb),
   mapping |-> Each(pbs.mapping, MappingToPb), location |-> Each(pbs.location, LocationToPb),
   function |-> Each(pbs.function, FunctionToPb), string_table |-> pbs.string_table,
   drop_frames |-> pbs.drop_frames, keep_frames |-> pbs.keep_frames,
   time_nanos |-> pbs.time_nanos, duration_nanos |-> pbs.duration_nanos,
   period_type |-> PeriodTypeToPb(pbs), period |-> pbs.period, comment |-> pbs.comment,
   default_sample_type |-> pbs.default_sample_type]

-----------------------------------------------------------------------------
AddressToPb(e) == [zipcode |-> e.zipcode, international |-> e.international, city |-> e.city]

PersonToPb(pbs) ==
  [name |-> pbs.name, age |-> pbs.age, address |-> <<AddressToPb(Head(pbs.address))>>,
   names |-> pbs.names, ages |-> pbs.ages, addresses |-> Each(pbs.addresses, AddressToPb)]

-----------------------------------------------------------------------------
\* What the code that generate_Class writes for class makes of src, by the four
\* kinds of a field.
RECURSIVE GenerateClass(_, _)
GenerateClass(class, src) ==
  [v \in {a.var : a \in Schema[class]} |->
     LET a == CHOOSE b \in Schema[class] : b.var = v
     IN  IF ~IsPointer(a) THEN src[v]
         ELSE IF a.repeated THEN [i \in DOMAIN src[v] |-> GenerateClass(a.proto_type, src[v][i])]
         ELSE <<GenerateClass(a.proto_type, Head(src[v]))>>]
=============================================================================
