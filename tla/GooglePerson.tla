---------------------------- MODULE GooglePerson -----------------------------
(***************************************************************************)
(* schema/person.pb.cc: Google's classes for Person and Address.           *)
(***************************************************************************)
EXTENDS FieldTable, WireFormat

AddressFields == {Int32(1, "zipcode"), Bool64(2, "international"), Text(3, "city")}

AddressClear == [zipcode |-> {}, international |-> {}, city |-> <<>>]

AddressSerialize(m) ==
  WriteInt(1, m.zipcode) \o WriteInt(2, m.international) \o WriteString(3, m.city)

AddressByteSize(m) == StringSize(m.city) + IntSize(m.zipcode) + IntSize(m.international)

AddressMergeFrom(to, from) ==
  [city |-> Merged(to.city, from.city, <<>>), zipcode |-> Merged(to.zipcode, from.zipcode, {}),
   international |-> Merged(to.international, from.international, {})]

-----------------------------------------------------------------------------
PersonFields ==
  {Text(1, "name"), Int64(2, "age"), Pointer(3, "address", "Address"), Texts(4, "names"),
   Ints64(5, "ages"), Vector(6, "addresses", "Address")}

PersonClear ==
  [name |-> <<>>, age |-> {}, address |-> <<>>, names |-> <<>>, ages |-> <<>>, addresses |-> <<>>]

PersonSerialize(m) ==
  WriteString(1, m.name) \o WriteInt(2, m.age)
    \o WriteMessages(3, m.address, AddressSerialize, AddressByteSize)
    \o WriteStrings(4, m.names) \o WritePacked(5, m.ages)
    \o WriteMessages(6, m.addresses, AddressSerialize, AddressByteSize)

PersonByteSize(m) ==
  StringsSize(m.names) + PackedSize(m.ages) + MessagesSize(m.addresses, AddressByteSize)
    + StringSize(m.name) + MessagesSize(m.address, AddressByteSize) + IntSize(m.age)

PersonMergeFrom(to, from) ==
  [names |-> to.names \o from.names, ages |-> to.ages \o from.ages,
   addresses |-> to.addresses \o from.addresses, name |-> Merged(to.name, from.name, <<>>),
   address |-> IF to.address = <<>> \/ from.address = <<>> THEN to.address \o from.address
               ELSE <<AddressMergeFrom(to.address[1], from.address[1])>>,
   age |-> Merged(to.age, from.age, {})]

Classes == [Person |-> PersonFields, Address |-> AddressFields]
=============================================================================
