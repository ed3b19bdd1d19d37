------------------------------- MODULE BulkParse -------------------------------
(***************************************************************************)
(* MessageParse with Profile::parseProfile of parallel and pthreads: a     *)
(* scan that reads the varint fields and period_type and notes in tracker  *)
(* where the other length-delimited fields lie, then one loop for each of  *)
(* them that parses the records into their slots.  Here the records are    *)
(* parsed one at a time, in every order that the loops allow; what their   *)
(* overlap can do is in TrackerParse and SampleThreads.                    *)
(***************************************************************************)
EXTENDS MessageParse

VARIABLES
  tracker,      \* per field id, the (curr, len) of its records
  loop,         \* 0: the scan; k: the loop over Loops[k]
  left          \* the records that the loop has still to parse

scan == <<tracker, loop, left>>
allvars == <<vars, scan>>

MaxId == 15     \* bound on the field ids of the inputs
Loops == <<1, 2, 3, 4, 5, 6, 13>>

TrackedInit ==
  /\ tracker = [id \in 1..MaxId |-> <<>>]
  /\ loop = 0
  /\ left = {}

TrackedRoot == status = "parsing" /\ Tracked /\ Len(stack) = 1 /\ Top.list = <<>>
Scanning == TrackedRoot /\ loop = 0 /\ Tag.value # {}
OfId(id) == FieldId(Tag.value) = Bits(id)
ProfileField(id) == CHOOSE f \in Table["Profile"] : f.id = id

-----------------------------------------------------------------------------
(* The scan.                                                               *)

\* Wire type 0 is read whatever the id, and then stored by the id.
ScanVarint ==
  /\ Scanning /\ Wired(0)
  /\ LET r == ReadVarint64(buffer, Tag.seek)
         takers == {f \in Table["Profile"] : OfId(f.id) /\ f.kind = "int"}
     IN  /\ IF ~r.ok THEN Fail
            ELSE /\ Go([Top EXCEPT !.seek = r.seek,
                          !.object = IF takers = {} THEN @
                                     ELSE Store(@, CHOOSE f \in takers : TRUE, r.value)])
                 /\ UNCHANGED status
         /\ wide' = (wide \/ Tag.wide \/ r.wide)
  /\ UNCHANGED <<input, scan>>

ScanPeriodType ==
  /\ Scanning /\ Wired(2) /\ OfId(11)
  /\ stack' = Append([stack EXCEPT ![1].seek = Skip(Length.seek, Size)],
                     Frame("ValueType", NewObject(Table["ValueType"]),
                           SubSeeker(Length.seek, Size), <<ProfileField(11)>>, 0))
  /\ ReadLength
  /\ UNCHANGED <<status, scan>>

\* The position is noted after Skip.
TrackAfterSkip ==
  /\ Scanning /\ Wired(2) /\ ~OfId(11)
  /\ IF ~Length.ok THEN Fail /\ UNCHANGED tracker
     ELSE /\ \E id \in 1..MaxId :
               OfId(id) /\ tracker' = [tracker EXCEPT ![id] =
                             Append(@, [curr |-> Length.seek.curr + Size, len |-> Size])]
          /\ Go([Top EXCEPT !.seek = Skip(Length.seek, Size)])
          /\ UNCHANGED status
  /\ ReadLength
  /\ UNCHANGED <<loop, left>>

Track ==
  /\ Scanning /\ Wired(2) /\ ~OfId(11)
  /\ IF ~Length.ok THEN Fail /\ UNCHANGED tracker
     ELSE /\ \E id \in 1..MaxId :
               OfId(id) /\ tracker' = [tracker EXCEPT ![id] =
                             Append(@, [curr |-> Length.seek.curr, len |-> Size])]
          /\ Go([Top EXCEPT !.seek = Skip(Length.seek, Size)])
          /\ UNCHANGED status
  /\ ReadLength
  /\ UNCHANGED <<loop, left>>

PassWire ==
  /\ Scanning /\ ~Wired(0) /\ ~Wired(2)
  /\ Go([Top EXCEPT !.seek = Tag.seek])
  /\ wide' = (wide \/ Tag.wide)
  /\ UNCHANGED <<input, status, scan>>

-----------------------------------------------------------------------------
(* resize() and the loops.  A slot of a vector of pointers is null until   *)
(* its record is parsed; here it is the object that new gives.             *)

EmptySlot(f) == IF f.kind = "message" THEN NewObject(Table[f.of])
                ELSE IF f.kind = "string" THEN <<>> ELSE {}

Resized(f, old) ==
  [i \in 1..Len(tracker[f.id]) |-> IF i <= Len(old) THEN old[i] ELSE EmptySlot(f)]

StartLoop(k) ==
  /\ loop' = k
  /\ left' = IF k <= Len(Loops) THEN DOMAIN tracker[Loops[k]] ELSE {}

Resize ==
  /\ TrackedRoot /\ loop = 0 /\ Tag.value = {}
  /\ LET looped == {ProfileField(Loops[k]) : k \in DOMAIN Loops}
     IN  Go([Top EXCEPT !.object =
               [n \in DOMAIN @ |-> IF n \in Names(looped) THEN Resized(Named(looped, n), @[n])
                                   ELSE @[n]]])
  /\ StartLoop(1)
  /\ wide' = (wide \/ Tag.wide)
  /\ UNCHANGED <<input, status, tracker>>

Bulk == TrackedRoot /\ loop \in DOMAIN Loops
BulkField == ProfileField(Loops[loop])

\* A parallel_for runs its first iteration before the others.  In pthreads only
\* the comments have one; the samples are parsed by NUM_THREADS threads, here
\* one, in whose range are all samples that are not empty.
Turn(i) ==
  /\ i \in left
  /\ IF copy = "pthreads" /\ Loops[loop] # 13 THEN i = Min(left) ELSE i = 1 \/ 1 \notin left

Seek(i) == LET r == tracker[Loops[loop]][i] IN [curr |-> r.curr, end |-> r.curr + r.len]

BulkMessage(i) ==
  /\ Bulk /\ BulkField.kind = "message" /\ Turn(i)
  /\ stack' = Append(stack, Frame(BulkField.of, NewObject(Table[BulkField.of]), Seek(i),
                                  <<BulkField>>, i))
  /\ left' = left \ {i}
  /\ UNCHANGED <<input, status, wide, tracker, loop>>

BulkText(i) ==
  /\ Bulk /\ BulkField.kind = "string" /\ Turn(i)
  /\ Go([Top EXCEPT !.object.string_table[i] =
           ReadString(buffer, Seek(i), tracker[Loops[loop]][i].len).value])
  /\ left' = left \ {i}
  /\ UNCHANGED <<input, status, wide, tracker, loop>>

\* add_comment appends, after the slots that resize() has made.
BulkComment(i) ==
  /\ Bulk /\ BulkField.kind = "int" /\ Turn(i)
  /\ Go([Top EXCEPT !.seek = Seek(i), !.list = <<BulkField>>, !.until = Seek(i).end])
  /\ left' = left \ {i}
  /\ UNCHANGED <<input, status, wide, tracker, loop>>

NextLoop ==
  /\ Bulk /\ left = {}
  /\ StartLoop(loop + 1)
  /\ status' = IF loop = Len(Loops) THEN "true" ELSE status
  /\ UNCHANGED <<input, stack, wide, tracker>>

-----------------------------------------------------------------------------
BulkInit == Init /\ TrackedInit

Stopped == status # "parsing" /\ UNCHANGED allvars

BulkNext ==
  \/ Next /\ UNCHANGED scan
  \/ ScanVarint \/ ScanPeriodType \/ Track \/ PassWire
  \/ Resize \/ NextLoop
  \/ \E i \in left : BulkMessage(i) \/ BulkText(i) \/ BulkComment(i)
  \/ Stopped

\* The program is one thread here: it goes on as long as it can.
Spec == BulkInit /\ [][BulkNext]_allvars /\ WF_allvars(BulkNext)

-----------------------------------------------------------------------------
(* Properties.                                                             *)

TypeOK ==
  /\ status \in {"parsing", "true", "false", "exit"}
  /\ wide \in BOOLEAN
  /\ Len(stack) \in 1..3
  /\ \A k \in DOMAIN stack : /\ DOMAIN stack[k].object = Names(Table[stack[k].class])
                             /\ stack[k].seek.curr \in Nat /\ stack[k].seek.end \in Nat
                             /\ Len(stack[k].list) \in 0..1
  /\ loop \in 0..(Len(Loops) + 1)
  /\ \A id \in 1..MaxId : \A i \in DOMAIN tracker[id] : tracker[id][i].curr \in 0..Len(buffer)
  /\ loop \in DOMAIN Loops => left \subseteq DOMAIN tracker[Loops[loop]]

Whole == ~input.cut

\* In a whole message no function reads past its end, although Skip, SubSeeker
\* and the loops over packed records compare with no end: an inner message ends
\* where its caller goes on, which is inside the caller's message, and a tracked
\* record lies in the file.
FramesNest ==
  Whole =>
    \A k \in DOMAIN stack :
      LET inner == stack[k]
      IN  /\ inner.seek.curr <= inner.seek.end /\ inner.seek.end <= Len(buffer)
          /\ inner.list # <<>> => inner.until <= inner.seek.end
          /\ k > 1 /\ inner.slot = 0 => /\ inner.seek.end = stack[k - 1].seek.curr
                                        /\ inner.seek.end <= stack[k - 1].seek.end

\* No byte of a whole message is shifted by the width of the variable or more,
\* which would be undefined.
NoWideShift == Whole => ~wide

\* In a whole message a parse function returns when it has read all its bytes:
\* no payload is taken for the tag 0 that ends a message.
ReturnsAtEnd ==
  [][Whole /\ Len(stack') < Len(stack) => Top.seek.curr = Top.seek.end]_allvars

\* Every file is parsed to an end, cut or not.
Termination == <>(status # "parsing")
=============================================================================
