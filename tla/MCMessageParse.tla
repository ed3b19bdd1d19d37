---------------------------- MODULE MCMessageParse ----------------------------
(* Small messages of both schemas, for every copy of the parsers.             *)
EXTENDS ParseResults, Encoding, WireFormat, TLC

Short == {0}        \* 1
Long  == {7}        \* 128: two bytes, of which no bit of the first is set
Most  == {63}       \* ten bytes
Minus == 0..63      \* -1

ValueType(type, unit) == [type |-> type, unit |-> unit]
Line(id, line) == [function_id |-> id, line |-> line]
With(class, members) == members @@ Cleared(class)

Label1    == With("Label", [key |-> Short, num |-> Minus])
Label2    == [key |-> Long, str |-> Short, num |-> {}, num_unit |-> Most]
Sample1   == [location_id |-> <<{}, Long>>, value |-> <<Minus>>, label |-> <<Cleared("Label"), Label1>>]
Sample2   == With("Sample", [value |-> <<{}>>, label |-> <<Label2>>])
Mapping1  == With("Mapping", [id |-> Short, file_offset |-> Long, has_functions |-> Short,
                              has_inline_frames |-> Short])
Mapping2  == [n \in DOMAIN Cleared("Mapping") |-> Short]
Location1 == With("Location", [id |-> Most, line |-> <<Line(Short, {0, 7}), Line({}, {})>>,
                               is_folded |-> Short])
Location2 == With("Location", [mapping_id |-> Short, address |-> Long])
Function1 == With("Function", [id |-> Short, name |-> Long, start_line |-> Short])
Function2 == With("Function", [system_name |-> Short, filename |-> Short])

P(members) == With("Profile", members)

SmallProfiles ==
  {P([sample_type |-> <<ValueType(Short, {})>>, period_type |-> <<ValueType(Long, {})>>]),
   P([period_type |-> <<ValueType({}, Short)>>, comment |-> <<{}, Long>>]),
   P([sample |-> <<Sample2>>, time_nanos |-> Long]),
   P([string_table |-> <<<<{3}>>>>, time_nanos |-> Short])}

Profiles ==
  SmallProfiles \cup
  {P(<<>>), P([period_type |-> <<Cleared("ValueType")>>, period |-> Short]),
   P([sample_type |-> <<Cleared("ValueType"), ValueType(Short, {}), ValueType({}, Short)>>,
      period |-> Most]),
   P([sample |-> <<Sample1, Cleared("Sample")>>]),
   P([mapping |-> <<Mapping1, Mapping2>>, default_sample_type |-> Short]),
   P([location |-> <<Location1, Location2>>, period_type |-> <<ValueType(Most, Short)>>]),
   P([function |-> <<Function1, Function2>>, drop_frames |-> Short, keep_frames |-> Long]),
   P([string_table |-> <<<<>>, <<{3}, {}>>, <<{4}>>>>, duration_nanos |-> Minus, comment |-> <<Short>>]),
   P([string_table |-> <<[i \in 1..128 |-> {}]>>, period |-> Short])}

Address1 == [zipcode |-> {31}, international |-> Short, city |-> <<>>]
Address2 == [zipcode |-> Long, international |-> {}, city |-> <<{0}, {}>>]

Q(members) == With("Person", members)
SmallPersons ==
  {Q([name |-> <<{3}>>, age |-> Minus, address |-> <<Address1>>]),
   Q([age |-> Short, ages |-> <<{}, Short>>, addresses |-> <<Address2>>]),
   Q([address |-> <<Address2>>, names |-> <<<<>>, <<{1}>>>>])}
Persons == SmallPersons \cup {Q(<<>>), Q([ages |-> <<{6}, {}, Short>>, addresses |-> <<Address1, Address2>>])}
LongAges == Q([ages |-> <<Long, Short>>, address |-> <<Address1>>])

-----------------------------------------------------------------------------
Message(class, m) == Piece("message", Serialize(class, m), m)

\* Single values of repeated fields, and fields that no class has.
ProfileValue == Piece("value", WriteInt(13, Long), P([comment |-> <<Long>>]))
PersonValue  == Piece("value", WriteInt(5, Long), Q([ages |-> <<Long>>]))
Unknown(empty) ==
  {Piece("unknown", WriteTag(15, 0) \o <<{0, 2}>>, empty),
   Piece("unknown", WriteTag(15, 2) \o <<{0}, {2}>>, empty),
   Piece("unknown", WriteTag(15, 5) \o <<{0}, {0}, {0}, {0}>>, empty)}

ProfilePieces == {Message("Profile", m) : m \in SmallProfiles} \cup {ProfileValue} \cup Unknown(P(<<>>))
PersonPieces  == {Message("Person", m) : m \in SmallPersons} \cup Unknown(Q(<<>>))

Bytes(pieces) == IF Len(pieces) = 1 THEN pieces[1].bytes ELSE pieces[1].bytes \o pieces[2].bytes

Uncut(copies, root, inputs) ==
  {[copy |-> c, root |-> root, pieces |-> p, cut |-> FALSE, buffer |-> Bytes(p)] :
     c \in copies, p \in inputs}

Cuts(copies, root, messages) ==
  UNION {{[copy |-> c, root |-> root, pieces |-> <<Message(root, m)>>, cut |-> TRUE,
           buffer |-> SubSeq(Serialize(root, m), 1, n)] :
            c \in copies, n \in 0..(Len(Serialize(root, m)) - 1)} : m \in messages}

One(root, messages) == {<<Message(root, m)>> : m \in messages}

All  == DOMAIN Style
Four == {"sequential", "generated", "generator", "google"}

MCInputs ==
  Uncut(All, "Profile", One("Profile", Profiles) \cup (ProfilePieces \X ProfilePieces))
  \cup Uncut(Four, "Person", One("Person", Persons) \cup (PersonPieces \X PersonPieces))
  \cup Uncut(Four, "Person", One("Person", {LongAges}))
  \cup Uncut(Four \ {"sequential"}, "Person", PersonPieces \X {PersonValue})
  \cup Cuts(All, "Profile", Profiles)
  \cup Cuts(Four, "Person", Persons)

-----------------------------------------------------------------------------
\* The parts that the whole message leads to: done are those that have been
\* followed, todo the others.
RECURSIVE Grow(_, _, _)
Grow(in, done, todo) ==
  IF todo = {} THEN done
  ELSE LET all == done \cup todo
       IN  Grow(in, all, (UNION {PartsAfter(in, part) : part \in todo \ {Broken}}) \ all)
Parts(in) == Grow(in, {}, {<<in.root, 0, Len(in.buffer)>>})

\* A writer may have made every whole input, but for ages of more than one byte
\* in a packed record that sequential counts.
CountsLongAges(in) == in.copy = "sequential" /\ in.pieces = <<Message("Person", LongAges)>>
ASSUME WrittenInputs ==
  \A in \in MCInputs : ~in.cut /\ ~CountsLongAges(in) => Encoded(in, Parts(in))
=============================================================================
