----------------------------- MODULE MessageParse -----------------------------
(***************************************************************************)
(* The parse functions of the message classes on the bytes of a file.  All *)
(* copies have the same loop - read a tag, take the case of its field id,  *)
(* read what the wire type says - and differ in three ways:                *)
(*   lib     sequential, generated, parallel and pthreads, and what        *)
(*           genFromProto.py writes: lib.h ends the process when a 64 bit  *)
(*           varint or a string is cut, and ignores a cut 32 bit varint;   *)
(*   dac     each read returns false, and so does the parse function;      *)
(*   google  schema/*.pb.cc: any such failure fails the whole parse,       *)
(*           unknown fields are skipped and singular submessages merged.   *)
(*                                                                         *)
(* The stack of calls is a sequence of frames, the innermost last.  The    *)
(* Profile of parallel and pthreads is not parsed by this loop: BulkParse. *)
(***************************************************************************)
EXTENDS FieldTable, Seeker

SQ == INSTANCE SequentialMessages
GN == INSTANCE GeneratedMessages
PA == INSTANCE ParallelMessages
PT == INSTANCE PthreadsMessages
DC == INSTANCE DacMessages
GP == INSTANCE GoogleProfile
GE == INSTANCE GooglePerson
PY == INSTANCE Generators

CONSTANT
  Inputs        \* records [copy, root, pieces, cut, buffer]: which copy parses
                \* what class from which bytes; cut: the last bytes are missing

ASSUME InputsAssumption ==
  \A in \in Inputs :
    /\ in.copy \in {"sequential", "generated", "generator", "google", "parallel", "pthreads", "dac"}
    /\ in.root \in {"Profile", "Person"}
    /\ in.copy \in {"parallel", "pthreads", "dac"} => in.root = "Profile"
    /\ in.cut \in BOOLEAN
    /\ in.buffer \in Seq(SUBSET (0..7))

VARIABLES
  input,
  stack,        \* the active parse functions
  status,       \* "parsing", what the root function returns, or "exit"
  wide          \* a varint was shifted by the width of its type

vars == <<input, stack, status, wide>>

Style == [sequential |-> "lib", generated |-> "lib", generator |-> "lib", parallel |-> "lib",
          pthreads |-> "lib", dac |-> "dac", google |-> "google"]

Tables == [sequential |-> SQ!Classes, generated |-> GN!Classes, generator |-> PY!Classes,
           parallel |-> PA!Classes, pthreads |-> PT!Classes, dac |-> DC!Classes,
           google |-> [c \in DOMAIN GP!Classes \cup DOMAIN GE!Classes |->
                         IF c \in DOMAIN GP!Classes THEN GP!Classes[c] ELSE GE!Classes[c]]]

\* The constructors of the root classes.
NewRoot(copy, class) ==
  CASE copy = "sequential" -> IF class = "Profile" THEN SQ!NewProfile ELSE SQ!NewPerson
    [] copy = "generated"  -> IF class = "Profile" THEN GN!NewProfile ELSE GN!NewPerson
    [] copy = "generator"  -> PY!Constructor(PY!Schema[class])
    [] copy = "parallel"   -> PA!NewProfile
    [] copy = "pthreads"   -> PT!NewProfile
    [] copy = "dac"        -> DC!NewProfile
    [] copy = "google"     -> IF class = "Profile" THEN GP!ProfileClear ELSE GE!PersonClear

copy   == input.copy
buffer == input.buffer
style  == Style[copy]
Table  == Tables[copy]

\* class, object and seek are the function's; into is the field of the caller
\* (and slot the index in it, 0: the next) that the object will be stored in;
\* list is the repeated field whose packed record is being read, up to until.
Frame(class, object, seek, into, slot) ==
  [class |-> class, object |-> object, seek |-> seek, into |-> into, slot |-> slot,
   fresh |-> TRUE, list |-> <<>>, until |-> 0]

Init ==
  /\ input \in Inputs
  /\ stack = <<Frame(input.root, NewRoot(input.copy, input.root),
                     [curr |-> 0, end |-> Len(input.buffer)], <<>>, 0)>>
  /\ status = "parsing"
  /\ wide = FALSE

Tracked == copy \in {"parallel", "pthreads"}

Top  == stack[Len(stack)]
Root == stack[1].object

Go(frame) == stack' = [stack EXCEPT ![Len(stack)] = frame]

\* A result that the caller passes on: always in Google's code, and where
\* parseProfile of dac has an if.
Heeds(into) == style = "google" \/ (style = "dac" /\ into[1].name \in DC!Checked)

\* push_back on a vector that has its size already.
PutAppend(object, into, slot, value) == Store(object, into, value)

Put(object, into, slot, value) ==
  IF slot = 0 THEN Store(object, into, value) ELSE [object EXCEPT ![into.name][slot] = value]

\* The innermost function returns ok, with its work in frame.
Return(ok, frame) ==
  IF Len(stack) = 1 \/ (~ok /\ Heeds(frame.into))
  THEN /\ status' = IF ok THEN "true" ELSE "false"
       /\ Go(frame)
  ELSE /\ stack' = [SubSeq(stack, 1, Len(stack) - 1) EXCEPT
                      ![Len(stack) - 1].object = Put(@, frame.into[1], frame.slot, frame.object)]
       /\ UNCHANGED status

\* A read fails: handle_error, or return false.
Fail == IF style = "lib" THEN status' = "exit" /\ UNCHANGED stack ELSE Return(FALSE, Top)

Tag == ReadTag(buffer, Top.seek)
Wired(wire) == Wire(Tag.value) = Bits(wire)

\* The frames that this loop runs, not the scan of a tracked Profile.
Looping == status = "parsing" /\ ~(Tracked /\ Len(stack) = 1)
InLoop  == Looping /\ Top.list = <<>>
InField == InLoop /\ Tag.value # {}

\* The cases of switch (field_id), one at most.
Cases ==
  IF InField
  THEN LET field_id == FieldId(Tag.value) IN {f \in Table[Top.class] : Bits(f.id) = field_id}
  ELSE {}

\* parseProfile and parseValueType of dac look at the wire type first.
Closed(class) ==
  style = "dac" /\ class \in DC!ProfileIsClosed \cup DC!ValueTypeIsClosed
Rejects == Closed(Top.class) /\ ~Wired(0) /\ ~Wired(2)

Counted(f) == copy = "sequential" /\ Top.class = "Person" /\ f.name \in SQ!Counted

Scalar(f) == f.kind \in {"int", "bool"}
Takes(f)  ==
  \/ Scalar(f) /\ Wired(0) /\ ~Counted(f)
  \/ f.kind = "int" /\ f.many /\ Wired(2)
  \/ ~Scalar(f) /\ Wired(2)

Read(f, s) == IF f.width = 32 THEN ReadVarint32(buffer, s) ELSE ReadVarint64(buffer, s)

\* The result of ReadVarint32 is looked at in dac and google only.
Bad(r, width) == ~r.ok /\ (style # "lib" \/ width = 64)

\* A bool is whether the number is not 0.
Value(f, v) == IF f.kind = "bool" /\ v # {} THEN {0} ELSE v

-----------------------------------------------------------------------------
\* ReadTag gives 0, at the end of the message or for a tag that cannot be read.
EndOfMessage ==
  /\ InLoop /\ Tag.value = {}
  /\ Return(CASE style = "lib"    -> TRUE
              [] style = "dac"    -> ~(Top.fresh /\ Top.class \in DC!NonEmpty)
              [] style = "google" -> Top.seek.curr = Top.seek.end,
            [Top EXCEPT !.seek = Tag.seek])
  /\ wide' = (wide \/ Tag.wide)
  /\ UNCHANGED input

\* ReadVarint32 or ReadVarint64, then set_x or add_x
ReadScalar(f) ==
  /\ ~Rejects /\ Scalar(f) /\ Wired(0) /\ ~Counted(f)
  /\ LET r == Read(f, Tag.seek)
     IN  /\ IF Bad(r, f.width) THEN Fail
            ELSE /\ Go([Top EXCEPT !.seek = r.seek, !.fresh = FALSE,
                                   !.object = Store(@, f, Value(f, r.value))])
                 /\ UNCHANGED status
         /\ wide' = (wide \/ Tag.wide \/ r.wide)
  /\ UNCHANGED input

\* The length of a delimited field, and what is done with it.
Length == ReadVarint32(buffer, Tag.seek)
Size   == Number(Length.value)

Delimited == ~Rejects /\ Wired(2)

\* Google checks a length against the end of the message at once.
TooLong == style = "google" /\ Length.seek.curr + Size > Length.seek.end

ReadLength == wide' = (wide \/ Tag.wide \/ Length.wide) /\ UNCHANGED input

\* ReadString into a local string, then set_x or add_x
ReadText(f) ==
  /\ Delimited /\ f.kind = "string"
  /\ LET r == ReadString(buffer, Length.seek, Size)
     IN  IF Bad(Length, 32) \/ ~r.ok THEN Fail
         ELSE /\ Go([Top EXCEPT !.seek = r.seek, !.fresh = FALSE, !.object = Store(@, f, r.value)])
              /\ UNCHANGED status
  /\ ReadLength

\* A new object and a Seeker for it; the caller's goes behind it at once.
\* Google's mutable_x gives the object that is there already.
EnterMessage(f) ==
  /\ Delimited /\ f.kind = "message"
  /\ IF Bad(Length, 32) \/ TooLong THEN Fail
     ELSE /\ stack' =
               LET old == IF f.many THEN <<>> ELSE Top.object[f.name]
                   obj == IF style = "google" /\ old # <<>> THEN old[1] ELSE NewObject(Table[f.of])
               IN  Append([stack EXCEPT ![Len(stack)].seek = Skip(Length.seek, Size),
                                        ![Len(stack)].fresh = FALSE],
                          Frame(f.of, obj, SubSeeker(Length.seek, Size), <<f>>, 0))
          /\ UNCHANGED status
  /\ ReadLength

\* A packed record: endOfMsg is where it stops; a counted one stops after as
\* many values.
EnterList(f) ==
  /\ Delimited /\ f.kind = "int" /\ f.many
  /\ IF Bad(Length, 32) \/ TooLong THEN Fail
     ELSE /\ Go([Top EXCEPT !.seek = Length.seek, !.fresh = FALSE, !.list = <<f>>,
                            !.until = IF Counted(f) THEN Size ELSE Length.seek.curr + Size])
          /\ UNCHANGED status
  /\ ReadLength

InList == status = "parsing" /\ Top.list # <<>>

\* The last byte of the record is left.
MoreButLast == Top.seek.curr + 1 < Top.until

More == IF Counted(Top.list[1]) THEN Top.until > 0 ELSE Top.seek.curr < Top.until

\* ReadVarint64, then add_x.  Google's reader stops at the end of the record.
NextInList ==
  /\ InList /\ More
  /\ LET f == Top.list[1]
         s == IF style = "google" THEN [Top.seek EXCEPT !.end = Top.until] ELSE Top.seek
         r == Read(f, s)
     IN  /\ IF Bad(r, f.width) THEN Fail
            ELSE /\ Go([Top EXCEPT !.seek.curr = r.seek.curr, !.object = Store(@, f, r.value),
                                   !.until = IF Counted(f) THEN @ - 1 ELSE @])
                 /\ UNCHANGED status
         /\ wide' = (wide \/ r.wide)
  /\ UNCHANGED input

LeaveList ==
  /\ InList /\ ~More
  /\ Go([Top EXCEPT !.list = <<>>])
  /\ UNCHANGED <<input, status, wide>>

\* Where Google's UnknownFieldParse may find the end of the field; Past is where
\* it finds none.  No field has the number 0.  A group is not followed: it may
\* end anywhere.
Past == Tag.seek.end + 1

UnknownEnds ==
  LET r == ReadVarint64(buffer, Tag.seek)
  IN  IF FieldId(Tag.value) = {} THEN {Past}
      ELSE IF Wired(0) THEN {IF r.ok THEN r.seek.curr ELSE Past}
      ELSE IF Wired(1) THEN {Tag.seek.curr + 8}
      ELSE IF Wired(2) THEN {IF Length.ok THEN Length.seek.curr + Size ELSE Past}
      ELSE IF Wired(3) THEN Tag.seek.curr..Past
      ELSE IF Wired(5) THEN {Tag.seek.curr + 4} ELSE {Past}

\* The next tag is read at the end of a case, and here there is none.
PassFieldStay ==
  /\ InField
  /\ Rejects \/ \A f \in Cases : ~Takes(f)
  /\ UNCHANGED vars

\* No case takes the field.  Its payload is not skipped in PBSkip: the next tag
\* is read from there.
PassField ==
  /\ InField
  /\ Rejects \/ \A f \in Cases : ~Takes(f)
  /\ IF Rejects \/ (Closed(Top.class) /\ Cases = {})
     THEN Return(FALSE, Top)
     ELSE \E end \in IF style = "google" THEN UnknownEnds ELSE {Tag.seek.curr} :
            IF end > Tag.seek.end /\ style = "google" THEN Fail
            ELSE /\ Go([Top EXCEPT !.fresh = FALSE, !.seek = [Tag.seek EXCEPT !.curr = end]])
                 /\ UNCHANGED status
  /\ wide' = (wide \/ Tag.wide)
  /\ UNCHANGED input

Next ==
  \/ EndOfMessage \/ NextInList \/ LeaveList \/ PassField
  \/ \E f \in Cases : ReadScalar(f) \/ ReadText(f) \/ EnterMessage(f) \/ EnterList(f)
=============================================================================
