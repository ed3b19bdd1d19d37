------------------------------ MODULE TrackerParse -----------------------------
(* Profile::parseProfile of src/parallel/profile.pbs.cpp. One thread scans the *)
(* top-level fields: it stores the scalars, parses period_type, and notes in   *)
(* tracker where every other length-delimited field lies. Then the vectors are *)
(* given their sizes, and one parallel loop for each kind of field fills them, *)
(* iteration i writing slot i.                                                 *)
(*                                                                             *)
(* Iterations of a loop overlap as parallel_for lets them: get_granularity     *)
(* runs iteration 0 before anything else of the loop starts, and at most       *)
(* NumThreads run at a time.                                                   *)
EXTENDS ProfileFields, FiniteSets

CONSTANTS
  Fields,       \* the fields a message may be made of
  MaxFields,    \* bound on their number
  NumThreads

ASSUME FieldsAssumption == MaxFields \in Nat /\ \A f \in Fields : Known(f)

Null == 0       \* an unset pointer, and the default of a resized vector
Fresh == -1     \* an object just constructed
Mixed == -2     \* an object that two fields were parsed into

\* The loops, in the order of their calls.
Loops == <<1, 2, 3, 4, 5, 6, Comment>>

VARIABLES
  msg,
  pos,          \* the number of fields that are scanned
  tracker,      \* for each field id the positions of its records
  profile,      \* what *this holds
  phase,        \* 0: scan; k: loop Loops[k]; Len(Loops) + 1: returned
  at,           \* where each iteration of the loop is
  next,         \* the next value an iteration of the comment loop reads
  end,          \* the end of `comment` that it has loaded
  nullDeref     \* a method was called on a null pointer

vars == <<msg, pos, tracker, profile, phase, at, next, end, nullDeref>>
tasks == <<at, next, end>>

Init ==
  /\ msg \in UNION {[1 .. k -> Fields] : k \in 0 .. MaxFields}
  /\ pos = 0
  /\ tracker = [id \in 1 .. 14 |-> <<>>]
  /\ profile = EmptyProfile
  /\ phase = 0
  /\ at = <<>> /\ next = <<>> /\ end = <<>>
  /\ nullDeref = FALSE

--------------------------------------------------------------------------------
(* The scan.                                                                   *)

Scanning == phase = 0 /\ pos < Len(msg)
Field == msg[pos + 1]

\* The wire type is asked first, then the id.
ScanVarint ==
  /\ Scanning /\ Field.wire = Varint
  /\ profile' =
       IF Field.id \in Scalars THEN SetScalar(profile, Field.id, Field.vals[1])
       ELSE IF Field.id = Comment
         THEN [profile EXCEPT !.comment = Append(@, Field.vals[1])]
         ELSE profile
  /\ pos' = pos + 1
  /\ UNCHANGED <<msg, tracker, phase, tasks, nullDeref>>

ScanPeriodType ==
  /\ Scanning /\ Field.wire = Delimited /\ Field.id = PeriodType
  /\ profile' = [profile EXCEPT !.periodType = Field.vals[1]]
  /\ pos' = pos + 1
  /\ UNCHANGED <<msg, tracker, phase, tasks, nullDeref>>

\* The record is noted after Skip: it is the position of the next field.
TrackAfterSkip ==
  /\ Scanning /\ Field.wire = Delimited /\ Field.id # PeriodType
  /\ tracker' = [tracker EXCEPT ![Field.id] = Append(@, pos + 2)]
  /\ pos' = pos + 1
  /\ UNCHANGED <<msg, profile, phase, tasks, nullDeref>>

Track ==
  /\ Scanning /\ Field.wire = Delimited /\ Field.id # PeriodType
  /\ tracker' = [tracker EXCEPT ![Field.id] = Append(@, pos + 1)]
  /\ pos' = pos + 1
  /\ UNCHANGED <<msg, profile, phase, tasks, nullDeref>>

--------------------------------------------------------------------------------
(* Between the scan and the loops.                                             *)

Resized(s, n, default) ==
  [k \in 1 .. n |-> IF k <= Len(s) THEN s[k] ELSE default]

StartLoop(k) ==
  /\ phase' = k
  /\ LET n == IF k <= Len(Loops) THEN Len(tracker[Loops[k]]) ELSE 0 IN
       /\ at' = [i \in 1 .. n |-> "todo"]
       /\ next' = [i \in 1 .. n |-> 1]
       /\ end' = [i \in 1 .. n |-> 0]

\* `for (auto& e : sample) e = new Sample()` is missing.
ResizeWithoutSamples ==
  /\ phase = 0 /\ pos = Len(msg)
  /\ profile' = [profile EXCEPT
       !.slots = [id \in Repeated |->
         Resized(@[id], Len(tracker[id]), IF id = 6 THEN Fresh ELSE Null)],
       !.comment = Resized(@, Len(tracker[Comment]), 0)]
  /\ StartLoop(1)
  /\ UNCHANGED <<msg, pos, tracker, nullDeref>>

\* resize() of the vectors; the slots of sample are filled with new Samples,
\* those of string_table hold empty strings, the others null pointers.
Resize ==
  /\ phase = 0 /\ pos = Len(msg)
  /\ profile' = [profile EXCEPT
       !.slots = [id \in Repeated |->
         Resized(@[id], Len(tracker[id]), IF id \in {2, 6} THEN Fresh ELSE Null)],
       !.comment = Resized(@, Len(tracker[Comment]), 0)]
  /\ StartLoop(1)
  /\ UNCHANGED <<msg, pos, tracker, nullDeref>>

--------------------------------------------------------------------------------
(* The loops.                                                                  *)

InLoop == phase \in 1 .. Len(Loops)
Id == Loops[phase]
Iterations == DOMAIN at

\* The field that iteration i parses. The positions are those of the scan, so
\* they lie in the message.
Payload(i) == msg[tracker[Id][i]]

Running == {i \in Iterations : at[i] \notin {"todo", "done"}}

\* Iteration 1 here is iteration 0 of the code.
Begin(i) ==
  /\ InLoop /\ at[i] = "todo"
  /\ i = 1 \/ at[1] = "done"
  /\ Cardinality(Running) < NumThreads
  /\ at' = [at EXCEPT ![i] = IF Id = Comment THEN "test"
                             ELSE IF Id \in {2, 6} THEN "parse" ELSE "new"]
  /\ UNCHANGED <<msg, pos, tracker, profile, phase, next, end, nullDeref>>

\* sample_type[i] = new ValueType(), and so on
New(i) ==
  /\ InLoop /\ at[i] = "new"
  /\ profile' = [profile EXCEPT !.slots[Id][i] = Fresh]
  /\ at' = [at EXCEPT ![i] = "parse"]
  /\ UNCHANGED <<msg, pos, tracker, phase, next, end, nullDeref>>

\* sample[i]->parseSample(seeker), and so on; ReadString assigns the string.
Parse(i) ==
  /\ InLoop /\ at[i] = "parse"
  /\ profile' = [profile EXCEPT !.slots[Id][i] =
       IF @ = Fresh THEN Payload(i).vals[1] ELSE Mixed]
  /\ nullDeref' = (nullDeref \/ profile.slots[Id][i] = Null)
  /\ at' = [at EXCEPT ![i] = "done"]
  /\ UNCHANGED <<msg, pos, tracker, phase, next, end>>

\* while (seeker.curr < seeker.end)
CommentTest(i) ==
  /\ InLoop /\ at[i] = "test"
  /\ at' = [at EXCEPT ![i] =
       IF next[i] <= Len(Payload(i).vals) THEN "load" ELSE "done"]
  /\ UNCHANGED <<msg, pos, tracker, profile, phase, next, end, nullDeref>>

\* add_comment is push_back on the one vector, without a lock: load its end,
\* write there, store the end again.
CommentLoad(i) ==
  /\ InLoop /\ at[i] = "load"
  /\ end' = [end EXCEPT ![i] = Len(profile.comment)]
  /\ at' = [at EXCEPT ![i] = "store"]
  /\ UNCHANGED <<msg, pos, tracker, profile, phase, next, nullDeref>>

CommentStore(i) ==
  /\ InLoop /\ at[i] = "store"
  /\ profile' = [profile EXCEPT !.comment =
       Append(Resized(@, end[i], 0), Payload(i).vals[next[i]])]
  /\ next' = [next EXCEPT ![i] = @ + 1]
  /\ at' = [at EXCEPT ![i] = "test"]
  /\ UNCHANGED <<msg, pos, tracker, phase, end, nullDeref>>

\* The next loop starts while iterations of this one are running.
LoopDoneEarly ==
  /\ InLoop
  /\ \A i \in Iterations : at[i] # "todo"
  /\ StartLoop(phase + 1)
  /\ UNCHANGED <<msg, pos, tracker, profile, nullDeref>>

LoopDone ==
  /\ InLoop
  /\ \A i \in Iterations : at[i] = "done"
  /\ StartLoop(phase + 1)
  /\ UNCHANGED <<msg, pos, tracker, profile, nullDeref>>

Returned == phase = Len(Loops) + 1

--------------------------------------------------------------------------------
Iterate(i) ==
  Begin(i) \/ New(i) \/ Parse(i) \/ CommentTest(i) \/ CommentLoad(i) \/ CommentStore(i)

Next ==
  \/ ScanVarint \/ ScanPeriodType \/ Track \/ Resize \/ LoopDone
  \/ \E i \in Iterations : Iterate(i)
  \/ Returned /\ UNCHANGED vars

Spec == Init /\ [][Next]_vars

--------------------------------------------------------------------------------
(* Properties.                                                                 *)

TypeOK ==
  /\ pos \in 0 .. Len(msg) /\ phase \in 0 .. Len(Loops) + 1
  /\ \A id \in DOMAIN tracker : \A k \in DOMAIN tracker[id] :
       tracker[id][k] \in 1 .. pos
  /\ \A i \in Iterations :
       at[i] \in {"todo", "new", "parse", "test", "load", "store", "done"}
  /\ nullDeref \in BOOLEAN

\* The two-phase parse gives what the sequential parser gives, comment apart:
\* every record in its slot, in the order of the message, and the last value of
\* each scalar.
MatchesSequential ==
  LET expected == SequentialParse(msg) IN
  Returned =>
    /\ profile.slots = expected.slots
    /\ profile.scalars = expected.scalars
    /\ profile.periodType = expected.periodType

\* No submessage is parsed into a null pointer: bulk_add_sample, alone among
\* the loops, relies on parseProfile for its objects.
NoNullDeref == ~nullDeref

\* testprofile.cpp compares the profile with Google's: cmp_msg prints MATCH when
\* they are Equivalent. For comment, that is what the sequential parser stores.
CommentsMatch == Returned => profile.comment = SequentialParse(msg).comment

\* The same, but for additional elements: every comment of the message is there.
NoCommentLost ==
  Returned =>
    \A v \in {SequentialParse(msg).comment[k] : k \in DOMAIN SequentialParse(msg).comment} :
      \E k \in DOMAIN profile.comment : profile.comment[k] = v
================================================================================
