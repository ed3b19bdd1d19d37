-------------------------------- MODULE DacParse -------------------------------
(* The divide-and-conquer parser, src/dac: main of time.cpp starts two threads *)
(* on one message. The first parses it; the second looks, from the middle on,  *)
(* for a byte where a field starts, trying checkValidStart at one position     *)
(* after the other, and parses from there into a profile of its own, prof2.    *)
(* Then MergeParallel appends prof2 to what the first thread has made.         *)
(*                                                                             *)
(* A message is a run of fields that an encoder has written. What stands at a  *)
(* position where no field starts is the inside of a field, and may read like  *)
(* anything: a stray. So `at` says for every position what the bytes read like *)
(* when a tag is read there,                                                   *)
(*    [id, wire, tag, size, empty]                                             *)
(* with the numbers of bytes of the tag and of the field; a size of 0 says that *)
(* the message ends inside the varint after the tag. Sizes are such that no    *)
(* position exceeds 2^32, although a stray length might. The value of a field is   *)
(* its position plus one: every field is told from every other.                *)
EXTENDS ProfileFields, FiniteSets, FiniteSetsExt

CONSTANTS
  Fields,        \* the fields a message may be made of
  Strays,        \* what may seem to stand inside a field
  MaxFields,     \* bound on the number of fields
  SuccSkipLim    \* succskiplim

ASSUME SuccSkipLimAssumption == SuccSkipLim \in Nat

NoTag == 0       \* the id of what reads as the tag 0, a zero byte or a cut varint
Unknown == 15    \* any id or wire type that is not in the schema

ASSUME FieldsAssumption ==
  /\ MaxFields \in Nat
  /\ \A f \in Fields \union Strays : f.tag \in Nat /\ f.size \in Nat
  /\ \A f \in Fields : Known([id |-> f.id, wire |-> f.wire, vals |-> <<1>>]) /\ f.size > f.tag

VARIABLES
  size,          \* content.size
  starts,        \* the positions of the message's fields, in order
  at,
  firstPc, firstCurr,
  this,          \* the Profile that main has made
  secondPc,      \* "search", "check", "trial", "accepted", "done"
  i,             \* the position the second thread tries
  curr,          \* its Seeker
  succskip,
  hard,          \* checkValidStart has come to a hard check of position i
  prof2, prof2Is,     \* what prof2 points to: "unset", "live", "deleted"
  mainPc         \* "joining", "merged", "crashed"

message == <<size, starts, at>>
first == <<firstPc, firstCurr, this>>
second == <<secondPc, i, curr, succskip, hard, prof2, prof2Is>>
vars == <<message, first, second, mainPc>>

Start(fields, k) == FoldFunctionOnSet(+, 0, [l \in 1 .. Len(fields) |-> fields[l].size], 1 .. k - 1)

IsMessage(fields, strays) ==
  /\ size = Start(fields, Len(fields) + 1)
  /\ starts = [k \in 1 .. Len(fields) |-> Start(fields, k)]
  /\ at = [p \in 0 .. size - 1 |->
       IF \E k \in DOMAIN starts : starts[k] = p
         THEN fields[CHOOSE k \in DOMAIN starts : starts[k] = p]
         ELSE IF p \in DOMAIN strays THEN strays[p]
         ELSE [id |-> NoTag, wire |-> Varint, tag |-> 1, size |-> 1, empty |-> TRUE]]

\* startCheck and endCheck
Second == size \div 2 .. size - 1

Init ==
  /\ \E fields \in UNION {[1 .. k -> Fields] : k \in 1 .. MaxFields} :
       LET n == Start(fields, Len(fields) + 1)
           inside == (n \div 2 .. n - 1) \ {Start(fields, k) : k \in 1 .. Len(fields)}
       IN \E strays \in [inside -> Strays] : IsMessage(fields, strays)
  /\ firstPc = "parse" /\ firstCurr = 0 /\ this = EmptyProfile
  /\ secondPc = "search" /\ i = size \div 2 /\ curr = 0 /\ succskip = 0 /\ hard = FALSE
  /\ prof2 = EmptyProfile /\ prof2Is = "unset"
  /\ mainPc = "joining"

--------------------------------------------------------------------------------
(* Profile::parseProfile, a field at a time. It returns TRUE at the tag 0.     *)

HasTag(c) == c < size /\ at[c].id # NoTag
AtEnd(c) == ~HasTag(c)

\* What the schema says of id and wire type; parseProfile passes over the tag
\* of a field that has the wrong wire type, and goes on inside it.
Fits(f) == f.id = Comment \/ f.wire = IF f.id \in Scalars THEN Varint ELSE Delimited

\* The string and the packed varints must lie in the message. Nobody looks at
\* the length of a submessage; parseValueType is false for one without fields,
\* and parseProfile asks it for period_type only.
Fails(c) ==
  LET f == at[c] IN
  \/ f.id = Unknown
  \/ /\ Fits(f)
     /\ \/ f.size = 0
        \/ f.id \in {6, Comment} /\ c + f.size > size
        \/ f.id = PeriodType /\ f.empty

GoesOn(c) == ~AtEnd(c) /\ ~Fails(c)

After(c) == c + IF Fits(at[c]) THEN at[c].size ELSE at[c].tag

WithField(p, c) ==
  IF Fits(at[c]) THEN Apply(p, [id |-> at[c].id, wire |-> at[c].wire, vals |-> <<c + 1>>])
  ELSE p

--------------------------------------------------------------------------------
(* The first thread, lf.                                                       *)

FirstParse ==
  /\ firstPc = "parse" /\ GoesOn(firstCurr)
  /\ this' = WithField(this, firstCurr)
  /\ firstCurr' = After(firstCurr)
  /\ UNCHANGED <<message, firstPc, second, mainPc>>

\* A message it cannot parse is only reported.
FirstEnd ==
  /\ firstPc = "parse" /\ ~GoesOn(firstCurr)
  /\ firstPc' = "done"
  /\ UNCHANGED <<message, firstCurr, this, second, mainPc>>

--------------------------------------------------------------------------------
(* The second thread, rf.                                                      *)

\* fillTracker, which main calls before: the starts of the fields that have a
\* length. main keeps those in the second half.
st == {starts[k] : k \in {l \in DOMAIN starts : at[starts[l]].wire = Delimited}} \cap Second

InFieldIdSet(f) ==
  \/ f.wire = Varint /\ f.id \in Scalars \union {Comment}
  \/ f.wire = Delimited /\ f.id \in Repeated \union {PeriodType, Comment}

Search ==
  /\ secondPc = "search" /\ i \in Second
  /\ secondPc' = "check"
  /\ curr' = i /\ succskip' = 0 /\ hard' = FALSE
  /\ UNCHANGED <<message, first, i, prof2, prof2Is, mainPc>>

SearchEnds ==
  /\ secondPc = "search" /\ i \notin Second
  /\ secondPc' = "done"
  /\ UNCHANGED <<message, first, i, curr, succskip, hard, prof2, prof2Is, mainPc>>

\* The same position again.
RejectStay == secondPc' = "search" /\ UNCHANGED i

\* The next position.
Reject == secondPc' = "search" /\ i' = i + 1

CheckRejects ==
  /\ secondPc = "check" /\ ~AtEnd(curr)
  /\ ~(InFieldIdSet(at[curr]) /\ at[curr].size > 0)
  /\ Reject
  /\ UNCHANGED <<message, first, curr, succskip, hard, prof2, prof2Is, mainPc>>

CanSkip == secondPc = "check" /\ ~AtEnd(curr) /\ InFieldIdSet(at[curr]) /\ at[curr].size > 0

\* The hard check may be put off.
CheckSkipsOn ==
  /\ CanSkip
  /\ curr' = curr + at[curr].size
  /\ succskip' = succskip + IF at[curr].wire = Delimited THEN 1 ELSE 0
  /\ UNCHANGED <<message, first, secondPc, i, hard, prof2, prof2Is, mainPc>>

CheckSkips ==
  /\ CanSkip
  /\ at[curr].wire = Delimited => succskip <= SuccSkipLim
  /\ curr' = curr + at[curr].size
  /\ succskip' = succskip + IF at[curr].wire = Delimited THEN 1 ELSE 0
  /\ UNCHANGED <<message, first, secondPc, i, hard, prof2, prof2Is, mainPc>>

\* The trial starts where the check stands, not where the check started.
BeginTrialHere ==
  /\ CanSkip /\ at[curr].wire = Delimited /\ succskip > SuccSkipLim
  /\ secondPc' = "trial" /\ curr' = curr + at[curr].size /\ hard' = TRUE
  /\ prof2' = EmptyProfile /\ prof2Is' = "live"
  /\ UNCHANGED <<message, first, i, succskip, mainPc>>

\* checkValidStartHard: a profile that an earlier trial has made is forgotten.
BeginTrial ==
  /\ CanSkip /\ at[curr].wire = Delimited /\ succskip > SuccSkipLim
  /\ secondPc' = "trial" /\ curr' = i /\ hard' = TRUE
  /\ prof2' = EmptyProfile /\ prof2Is' = "live"
  /\ UNCHANGED <<message, first, i, succskip, mainPc>>

\* The end of the message counts as one field too few.
CheckEndsFalse ==
  /\ secondPc = "check" /\ AtEnd(curr)
  /\ Reject
  /\ UNCHANGED <<message, first, curr, succskip, hard, prof2, prof2Is, mainPc>>

\* The end of the message comes before the hard check: that will do.
CheckEnds ==
  /\ secondPc = "check" /\ AtEnd(curr)
  /\ secondPc' = "accepted"
  /\ UNCHANGED <<message, first, i, curr, succskip, hard, prof2, prof2Is, mainPc>>

TrialParse ==
  /\ secondPc = "trial" /\ GoesOn(curr)
  /\ prof2' = WithField(prof2, curr)
  /\ curr' = After(curr)
  /\ UNCHANGED <<message, first, secondPc, i, succskip, hard, prof2Is, mainPc>>

\* A submessage that is longer than what is left of the message is parsed
\* beyond the end of the buffer, unless something stops it before.
TrialOverruns ==
  /\ secondPc = "trial" /\ GoesOn(curr)
  /\ at[curr].id \in Repeated \union {PeriodType} /\ After(curr) > size
  /\ mainPc' = "crashed"
  /\ UNCHANGED <<message, first, second>>

TrialFails ==
  /\ secondPc = "trial" /\ ~AtEnd(curr) /\ Fails(curr)
  /\ prof2Is' = "deleted"
  /\ Reject
  /\ UNCHANGED <<message, first, curr, succskip, hard, prof2, mainPc>>

TrialEnds ==
  /\ secondPc = "trial" /\ AtEnd(curr)
  /\ secondPc' = "accepted"
  /\ UNCHANGED <<message, first, i, curr, succskip, hard, prof2, prof2Is, mainPc>>

Accept ==
  /\ secondPc = "accepted" /\ i \in st
  /\ secondPc' = "done"
  /\ UNCHANGED <<message, first, i, curr, succskip, hard, prof2, prof2Is, mainPc>>

\* "invalid at"
FalsePositive ==
  /\ secondPc = "accepted" /\ i \notin st
  /\ Reject
  /\ UNCHANGED <<message, first, curr, succskip, hard, prof2, prof2Is, mainPc>>

--------------------------------------------------------------------------------
(* main, after both joins: MergeParallel. It does not merge comment.           *)

Joined == mainPc = "joining" /\ firstPc = "done" /\ secondPc = "done"

\* prof2 comes first.
MergedInFront(p, q) ==
  [slots |-> [id \in Repeated |-> q.slots[id] \o p.slots[id]],
   scalars |-> [id \in Scalars |-> IF p.scalars[id] = 0 THEN q.scalars[id] ELSE p.scalars[id]],
   periodType |-> IF p.periodType = 0 THEN q.periodType ELSE p.periodType,
   comment |-> p.comment]

\* Whatever prof2 has, 0 or not.
MergedOver(p, q) ==
  [slots |-> [id \in Repeated |-> p.slots[id] \o q.slots[id]],
   scalars |-> q.scalars, periodType |-> q.periodType, comment |-> p.comment]

Merged(p, q) ==
  [slots |-> [id \in Repeated |-> p.slots[id] \o q.slots[id]],
   scalars |-> [id \in Scalars |-> IF p.scalars[id] = 0 THEN q.scalars[id] ELSE p.scalars[id]],
   periodType |-> IF p.periodType = 0 THEN q.periodType ELSE p.periodType,
   comment |-> p.comment]

MergeParallel ==
  /\ Joined /\ prof2Is = "live"
  /\ this' = Merged(this, prof2)
  /\ mainPc' = "merged"
  /\ UNCHANGED <<message, firstPc, firstCurr, second>>

\* prof2 does not point to a Profile: nothing is known of what follows.
MergeCrashes ==
  /\ Joined /\ prof2Is # "live"
  /\ mainPc' = "crashed"
  /\ UNCHANGED <<message, first, second>>

Stopped == mainPc # "joining" /\ UNCHANGED vars

--------------------------------------------------------------------------------
First == mainPc = "joining" /\ (FirstParse \/ FirstEnd)

SecondThread ==
  /\ mainPc = "joining"
  /\ \/ Search \/ SearchEnds
     \/ CheckRejects \/ CheckSkips \/ BeginTrial \/ CheckEnds
     \/ TrialParse \/ TrialOverruns \/ TrialFails \/ TrialEnds
     \/ Accept \/ FalsePositive

Main == MergeParallel \/ MergeCrashes

Next == First \/ SecondThread \/ Main \/ Stopped

\* Two threads of the operating system, and main.
Fairness == WF_vars(First) /\ WF_vars(SecondThread) /\ WF_vars(Main)

Spec == Init /\ [][Next]_vars
FairSpec == Spec /\ Fairness
--------------------------------------------------------------------------------
(* Properties.                                                                 *)

\* The fields from position p on, for the sequential parser.
FieldsFrom(p) ==
  LET before == Cardinality({k \in DOMAIN starts : starts[k] < p})
  IN  [k \in 1 .. Len(starts) - before |->
        LET q == starts[before + k]
        IN  [id |-> at[q].id, wire |-> at[q].wire, vals |-> <<q + 1>>]]

Expected == SequentialParse(FieldsFrom(0))

TypeOK ==
  /\ firstPc \in {"parse", "done"} /\ mainPc \in {"joining", "merged", "crashed"}
  /\ secondPc \in {"search", "check", "trial", "accepted", "done"}
  /\ i \in size \div 2 .. size /\ succskip \in 0 .. SuccSkipLim + 1
  /\ secondPc \in {"check", "trial"} => curr >= i
  /\ firstCurr \in {starts[k] : k \in DOMAIN starts} \union {size}
  /\ prof2Is \in {"unset", "live", "deleted"} /\ hard \in BOOLEAN

\* README: "The first half will always parse correctly": whatever the second
\* thread has done, the records of the sequential parser come first in the
\* merged profile, and in their order, and so do the comments. (What prof2 adds
\* behind them is there twice: the first thread parses the whole message.)
FirstIsComplete ==
  mainPc = "merged" =>
    /\ \A id \in Repeated : IsPrefix(Expected.slots[id], this.slots[id])
    /\ this.comment = Expected.comment

\* The search never passes the first field with a length that starts in the
\* second half: checkValidStart is never false for a real start.
FirstStartWins == st # {} => i <= Min(st)

\* A start that has had its hard check leaves in prof2 what the sequential
\* parser makes of the message from there on: nothing of the trials before,
\* and nothing but whole fields.
TrialIsSuffix ==
  secondPc = "done" /\ i \in Second /\ hard => prof2 = SequentialParse(FieldsFrom(i))

\* The first thread parses the whole message, not its first half (time.cpp:76). So
\* the merge of a start that has had its hard check makes every record from there on
\* come a second time, in order; it changes no scalar, no period_type and no
\* comment, whatever false starts have been tried before.
SuffixComesTwice ==
  mainPc = "merged" /\ i \in Second /\ hard =>
    LET suffix == SequentialParse(FieldsFrom(i))
    IN  this = [Expected EXCEPT !.slots = [id \in Repeated |-> @[id] \o suffix.slots[id]]]

\* The search comes to an end, wherever the strays lead it.
Termination == <>(mainPc # "joining")

\* time.cpp: "Needs retries until it is able to parse everything." When both
\* threads are done there is a profile to merge.
TrialIsLive == Joined => prof2Is = "live"

\* time.cpp: a start that is not in st is "a false positive valid start". What
\* has been parsed from there does not reach the merged profile.
MergedIsReal ==
  mainPc = "merged" =>
    \A id \in Repeated : \A k \in DOMAIN this.slots[id] :
      \E l \in DOMAIN starts : this.slots[id][k] = starts[l] + 1
================================================================================
