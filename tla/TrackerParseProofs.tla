-------------------------- MODULE TrackerParseProofs ---------------------------
(* The parallel parseProfile returns what the sequential one returns, for any  *)
(* message of known fields and any number of threads, and never calls a method *)
(* on a null pointer. comment is left out: see the findings.                   *)
EXTENDS TrackerParse, ProfileFieldsProofs, SequenceTheorems

--------------------------------------------------------------------------------
(* The invariant.                                                              *)

\* What a field may store: its value, or a mark of the model.
Values == {f.vals[1] : f \in Fields} \union {Null, Fresh, Mixed}

\* The fields that are scanned, as the sequential parser would store them.
Expected == SequentialParse(Prefix(msg, pos))

\* What the records of a kind hold, in the order of the scan.
Tracked(id) == [k \in 1 .. Len(tracker[id]) |-> msg[tracker[id][k]].vals[1]]

Messages == UNION {[1 .. k -> Fields] : k \in 0 .. MaxFields}

IsProfile(p) ==
  /\ p = [slots |-> p.slots, scalars |-> p.scalars,
          periodType |-> p.periodType, comment |-> p.comment]
  /\ p.slots \in [Repeated -> Seq(Values)]

Shapes ==
  /\ msg \in Messages
  /\ pos \in 0 .. Len(msg)
  /\ phase \in 0 .. Len(Loops) + 1
  /\ phase > 0 => pos = Len(msg)
  /\ tracker \in [1 .. 14 -> Seq(1 .. pos)]
  /\ IsProfile(profile)

\* The scan has stored the scalars and period_type, and noted the rest.
ScanIsRight ==
  Expected = [slots |-> [id \in Repeated |-> Tracked(id)],
              scalars |-> profile.scalars,
              periodType |-> profile.periodType,
              comment |-> Expected.comment]

\* The loop of this phase has an iteration for each record; those of string_table
\* and sample have nothing to allocate, those of comment are of their own kind.
IterationsAre ==
  /\ phase \in 1 .. Len(Loops) => DOMAIN at = 1 .. Len(tracker[Id])
  /\ phase \notin 1 .. Len(Loops) => DOMAIN at = {}
  /\ \A i \in Iterations :
       at[i] \in IF Id = Comment THEN {"todo", "test", "load", "store", "done"}
                 ELSE IF Id \in {2, 6} THEN {"todo", "parse", "done"}
                 ELSE {"todo", "new", "parse", "done"}

\* Slot k of a kind: made by resize until its iteration has been there, then an
\* object nobody has parsed into, then its record.
Slot(id, k) ==
  IF id < phase \/ (id = phase /\ at[k] = "done") THEN Tracked(id)[k]
  ELSE IF id \in {2, 6} \/ (id = phase /\ at[k] = "parse") THEN Fresh ELSE Null

SlotsAre ==
  \A id \in Repeated :
    profile.slots[id] =
      IF phase = 0 THEN <<>> ELSE [k \in 1 .. Len(tracker[id]) |-> Slot(id, k)]

IInv == Shapes /\ ScanIsRight /\ IterationsAre /\ SlotsAre /\ nullDeref = FALSE

--------------------------------------------------------------------------------
(* Lemmas.                                                                     *)

\* A message is a sequence of known fields.
LEMMA MessageFields ==
  ASSUME Shapes
  PROVE  /\ Len(msg) \in Nat /\ DOMAIN msg = 1 .. Len(msg)
         /\ \A k \in 1 .. Len(msg) : msg[k] \in Fields /\ Known(msg[k])
  <1>1. PICK n \in 0 .. MaxFields : msg \in [1 .. n -> Fields]
    BY DEF Shapes, Messages
  <1>2. n \in Nat
    BY FieldsAssumption
  <1>3. Len(msg) = n /\ DOMAIN msg = 1 .. n
    BY <1>1, <1>2
  <1>4. \A k \in 1 .. n : msg[k] \in Fields
    BY <1>1
  <1>5. QED
    BY <1>2, <1>3, <1>4, FieldsAssumption

\* The order of the loops.
LEMMA LoopOrder ==
  /\ Len(Loops) = 7 /\ Loops[7] = Comment
  /\ \A k \in 1 .. 6 : Loops[k] = k
  /\ Comment = 13
  BY DEF Loops, Comment

\* The positions of the records are those of fields.
LEMMA Records ==
  ASSUME Shapes, NEW id \in 1 .. 14
  PROVE  /\ tracker[id] \in Seq(1 .. pos)
         /\ Len(tracker[id]) \in Nat
         /\ \A k \in 1 .. Len(tracker[id]) :
              tracker[id][k] \in 1 .. Len(msg) /\ msg[tracker[id][k]].vals[1] \in Values
  <1>1. tracker[id] \in Seq(1 .. pos) /\ pos \in 0 .. Len(msg) /\ Len(msg) \in Nat
    BY MessageFields DEF Shapes
  <1>2. Len(tracker[id]) \in Nat
        /\ \A k \in 1 .. Len(tracker[id]) : tracker[id][k] \in 1 .. pos
    BY <1>1
  <1>3. \A k \in 1 .. Len(tracker[id]) : tracker[id][k] \in 1 .. Len(msg)
    BY <1>1, <1>2
  <1>4. \A k \in 1 .. Len(tracker[id]) : msg[tracker[id][k]] \in Fields
    BY <1>3, MessageFields
  <1>5. QED
    BY <1>1, <1>2, <1>3, <1>4 DEF Values

\* What a slot holds is a value.
LEMMA SlotIsValue ==
  ASSUME Shapes, NEW id \in Repeated, NEW k \in 1 .. Len(tracker[id])
  PROVE  Slot(id, k) \in Values
  <1>1. Tracked(id)[k] \in Values
    <2>1. id \in 1 .. 14
      BY DEF Repeated
    <2>2. msg[tracker[id][k]].vals[1] \in Values
      BY <2>1, Records
    <2>3. QED
      BY <2>2 DEF Tracked
  <1>2. Fresh \in Values /\ Null \in Values
    BY DEF Values
  <1>3. QED
    BY <1>1, <1>2 DEF Slot

--------------------------------------------------------------------------------
(* The initial states.                                                         *)

\* Nothing is scanned, and the sequential parser of nothing has nothing.
LEMMA InitIInv == Init => IInv
  <1> SUFFICES ASSUME Init PROVE IInv
    OBVIOUS
  <1> USE DEF Init
  <1>1. Shapes
    <2>1. PICK n \in 0 .. MaxFields : msg \in [1 .. n -> Fields]
      OBVIOUS
    <2>2. n \in Nat /\ Len(msg) = n
      BY <2>1, FieldsAssumption
    <2>3. tracker \in [1 .. 14 -> Seq(1 .. pos)]
      OBVIOUS
    <2>4. profile.slots \in [Repeated -> Seq(Values)]
      BY DEF EmptyProfile
    <2>5. profile = [slots |-> profile.slots, scalars |-> profile.scalars,
                     periodType |-> profile.periodType, comment |-> profile.comment]
      BY DEF EmptyProfile
    <2>6. msg \in Messages
      BY <2>1 DEF Messages
    <2>7. QED
      BY <2>2, <2>3, <2>4, <2>5, <2>6, LoopOrder DEF Shapes, IsProfile
  <1>2. ScanIsRight
    <2>1. Expected = EmptyProfile
      BY ParseNothing DEF Expected
    <2>2. ASSUME NEW id \in Repeated PROVE Tracked(id) = <<>>
      BY DEF Tracked, Repeated
    <2>3. [id \in Repeated |-> Tracked(id)] = [id \in Repeated |-> <<>>]
      BY <2>2
    <2>4. QED
      BY <2>1, <2>3 DEF ScanIsRight, EmptyProfile
  <1>3. IterationsAre
    BY LoopOrder DEF IterationsAre, Iterations
  <1>4. SlotsAre
    BY DEF SlotsAre, EmptyProfile
  <1>5. QED
    BY <1>1, <1>2, <1>3, <1>4 DEF IInv

--------------------------------------------------------------------------------
(* The scan.                                                                   *)

\* Scanning a field is a turn of the sequential parser's loop.
LEMMA ScanStep ==
  ASSUME IInv, Scanning, pos' = pos + 1, UNCHANGED msg
  PROVE  /\ Expected' = Apply(Expected, Field)
         /\ Field \in Fields /\ Known(Field) /\ Field.vals[1] \in Values
         /\ pos \in Nat /\ pos + 1 \in 1 .. Len(msg)
  <1>1. pos \in Nat /\ pos + 1 \in 1 .. Len(msg)
    <2>1. Len(msg) \in Nat
      BY MessageFields DEF IInv
    <2>2. pos \in 0 .. Len(msg) /\ pos < Len(msg)
      BY DEF IInv, Shapes, Scanning
    <2>3. QED
      BY <2>1, <2>2
  <1>2. Field \in Fields /\ Known(Field)
    BY <1>1, MessageFields DEF IInv, Field
  <1>3. Expected' = SequentialParse(Prefix(msg, pos + 1))
    BY DEF Expected
  <1>4. QED
    BY <1>1, <1>2, <1>3, ParseOneMore DEF Expected, Field, Values

\* A scalar goes where the sequential parser puts it; a single comment is no
\* concern of the slots.
LEMMA ScanVarintStep ==
  ASSUME IInv, ScanVarint
  PROVE  IInv'
  <1> DEFINE f == Field
  <1>1. /\ Expected' = Apply(Expected, f) /\ Known(f)
        /\ pos \in Nat /\ pos + 1 \in 1 .. Len(msg)
    BY ScanStep DEF ScanVarint
  <1>2. f.wire = Varint /\ phase = 0
    BY DEF ScanVarint, Scanning
  <1> DEFINE E == Expected
  <1>3. E = [slots |-> [id \in Repeated |-> Tracked(id)], scalars |-> profile.scalars,
             periodType |-> profile.periodType, comment |-> E.comment]
    BY DEF IInv, ScanIsRight
  <1>4. profile = [slots |-> profile.slots, scalars |-> profile.scalars,
                   periodType |-> profile.periodType, comment |-> profile.comment]
    BY DEF IInv, Shapes, IsProfile
  <1>5. UNCHANGED <<msg, tracker, phase, tasks, nullDeref>> /\ pos' = pos + 1
    BY DEF ScanVarint
  <1>6. \A id : Tracked(id)' = Tracked(id)
    BY <1>5 DEF Tracked
  <1> HIDE DEF f, E
  <1>7. /\ profile' = [slots |-> profile.slots, scalars |-> profile'.scalars,
                       periodType |-> profile.periodType, comment |-> profile'.comment]
        /\ Expected' = [slots |-> [id \in Repeated |-> Tracked(id)],
                        scalars |-> profile'.scalars,
                        periodType |-> profile.periodType, comment |-> (Expected').comment]
    <2>1. CASE f.id \in Scalars
      <3>1. profile' = SetScalar(profile, f.id, f.vals[1])
        BY <2>1 DEF ScanVarint, f
      <3>2. profile' = [slots |-> profile.slots,
                        scalars |-> [profile.scalars EXCEPT ![f.id] = f.vals[1]],
                        periodType |-> profile.periodType, comment |-> profile.comment]
        BY <3>1, <1>4 DEF SetScalar
      <3>3. Expected' = SetScalar(E, f.id, f.vals[1])
        BY <2>1, <1>1, <1>2 
        DEF Apply, E, Varint, Delimited, Scalars, Repeated, PeriodType, Comment
      <3>4. Expected' = [slots |-> [id \in Repeated |-> Tracked(id)],
                         scalars |-> [profile.scalars EXCEPT ![f.id] = f.vals[1]],
                         periodType |-> profile.periodType, comment |-> E.comment]
        BY <3>3, <1>3 DEF SetScalar
      <3>5. QED
        BY <3>2, <3>4
    <2>2. CASE f.id \notin Scalars
      <3>1. f.id = Comment
        BY <2>2, <1>1, <1>2 DEF Known, Varint, Delimited
      <3>2. profile' = [profile EXCEPT !.comment = Append(@, f.vals[1])]
        BY <2>2, <3>1 DEF ScanVarint, f
      <3>3. Expected' = [E EXCEPT !.comment = E.comment \o f.vals]
        BY <2>2, <3>1, <1>1, <1>2
        DEF Apply, E, Varint, Delimited, Repeated, Scalars, Comment, PeriodType
      <3>4. profile' = [slots |-> profile.slots, scalars |-> profile.scalars,
                        periodType |-> profile.periodType, comment |-> profile'.comment]
        BY <3>2, <1>4
      <3>5. Expected' = [slots |-> [id \in Repeated |-> Tracked(id)],
                         scalars |-> profile.scalars, periodType |-> profile.periodType,
                         comment |-> (Expected').comment]
        <4>1. PICK c : E = [slots |-> [id \in Repeated |-> Tracked(id)],
                            scalars |-> profile.scalars,
                            periodType |-> profile.periodType, comment |-> c]
          BY <1>3
        <4>2. Expected' = [slots |-> [id \in Repeated |-> Tracked(id)],
                           scalars |-> profile.scalars,
                           periodType |-> profile.periodType, comment |-> c \o f.vals]
          BY <3>3, <4>1
        <4>3. QED
          BY <4>2
      <3>6. profile'.scalars = profile.scalars
        BY <3>4
      <3>7. QED
        BY <3>4, <3>5, <3>6
    <2>3. QED
      BY <2>1, <2>2
  <1>8. Shapes'
    <2>1. tracker' \in [1 .. 14 -> Seq(1 .. pos')]
      <3>1. tracker \in [1 .. 14 -> Seq(1 .. pos)]
        BY DEF IInv, Shapes
      <3>2. \A id \in 1 .. 14 : tracker[id] \in Seq(1 .. pos + 1)
        <4>1. TAKE id \in 1 .. 14
        <4>2. 1 .. pos \subseteq 1 .. pos + 1
          BY <1>1
        <4>3. QED
          BY <3>1, <4>2, SeqMonotonic
      <3>3. QED
        BY <1>5, <3>1, <3>2
    <2>2. /\ msg \in Messages
          /\ phase \in 0 .. Len(Loops) + 1
          /\ profile.slots \in [Repeated -> Seq(Values)]
      BY DEF IInv, Shapes, IsProfile
    <2>3. profile'.slots = profile.slots /\ pos' \in 0 .. Len(msg)
      BY <1>1, <1>5, <1>7
    <2>4. IsProfile(profile)'
      BY <1>7, <2>2, <2>3 DEF IsProfile
    <2>5. QED
      BY <1>2, <1>5, <2>1, <2>2, <2>3, <2>4 DEF Shapes
  <1>9. ScanIsRight'
    BY <1>6, <1>7 DEF ScanIsRight
  <1>10. IterationsAre'
    BY <1>5 DEF IInv, IterationsAre, tasks, Iterations, Id
  <1>11. SlotsAre'
    BY <1>2, <1>5, <1>7 DEF IInv, SlotsAre
  <1>12. QED
    BY <1>5, <1>8, <1>9, <1>10, <1>11 DEF IInv

\* period_type is overwritten by both.
LEMMA ScanPeriodTypeStep ==
  ASSUME IInv, ScanPeriodType
  PROVE  IInv'
  <1> DEFINE f == Field
             E == Expected
  <1>1. /\ Expected' = Apply(E, f)
        /\ pos \in Nat /\ pos + 1 \in 1 .. Len(msg)
        /\ f.vals[1] \in Values
    BY ScanStep DEF ScanPeriodType
  <1>2. f.wire = Delimited /\ f.id = PeriodType /\ phase = 0
    BY DEF ScanPeriodType, Scanning
  <1>3. UNCHANGED <<msg, tracker, phase, tasks, nullDeref>> /\ pos' = pos + 1
        /\ profile' = [profile EXCEPT !.periodType = f.vals[1]]
    BY DEF ScanPeriodType
  <1>4. \A id : Tracked(id)' = Tracked(id)
    BY <1>3 DEF Tracked
  <1>5. PICK c : E = [slots |-> [id \in Repeated |-> Tracked(id)],
                      scalars |-> profile.scalars,
                      periodType |-> profile.periodType, comment |-> c]
    BY DEF IInv, ScanIsRight
  <1>6. /\ profile = [slots |-> profile.slots, scalars |-> profile.scalars,
                      periodType |-> profile.periodType, comment |-> profile.comment]
        /\ profile.slots \in [Repeated -> Seq(Values)]
    BY DEF IInv, Shapes, IsProfile
  <1> HIDE DEF f, E
  <1>7. profile' = [slots |-> profile.slots, scalars |-> profile.scalars,
                    periodType |-> f.vals[1], comment |-> profile.comment]
    BY <1>3, <1>6
  <1>8. Expected' = [E EXCEPT !.periodType = f.vals[1]]
    BY <1>1, <1>2
    DEF Apply, Varint, Delimited, Repeated, Scalars, Comment, PeriodType
  <1>9. Expected' = [slots |-> [id \in Repeated |-> Tracked(id)],
                     scalars |-> profile.scalars,
                     periodType |-> f.vals[1], comment |-> c]
    BY <1>5, <1>8
  <1>10. Shapes'
    <2>1. tracker \in [1 .. 14 -> Seq(1 .. pos + 1)]
      <3>1. tracker \in [1 .. 14 -> Seq(1 .. pos)]
        BY DEF IInv, Shapes
      <3>2. \A id \in 1 .. 14 : tracker[id] \in Seq(1 .. pos + 1)
        <4>1. TAKE id \in 1 .. 14
        <4>2. 1 .. pos \subseteq 1 .. pos + 1
          BY <1>1
        <4>3. QED
          BY <3>1, <4>2, SeqMonotonic
      <3>3. QED
        BY <3>1, <3>2
    <2>2. msg \in Messages /\ phase \in 0 .. Len(Loops) + 1
      BY DEF IInv, Shapes
    <2>3. IsProfile(profile)'
      BY <1>6, <1>7 DEF IsProfile
    <2>4. pos' \in 0 .. Len(msg)
      BY <1>1, <1>3
    <2>5. QED
      BY <1>2, <1>3, <2>1, <2>2, <2>3, <2>4 DEF Shapes
  <1>11. ScanIsRight'
    BY <1>4, <1>7, <1>9 DEF ScanIsRight
  <1>12. IterationsAre'
    BY <1>3 DEF IInv, IterationsAre, tasks, Iterations, Id
  <1>13. SlotsAre'
    BY <1>2, <1>3, <1>7 DEF IInv, SlotsAre
  <1>14. QED
    BY <1>3, <1>10, <1>11, <1>12, <1>13 DEF IInv

\* The record of a submessage or a string is the next of its kind.
LEMMA TrackStep ==
  ASSUME IInv, Track
  PROVE  IInv'
  <1> DEFINE f == Field
             E == Expected
             q == f.id
             T(id) == [k \in 1 .. Len(tracker'[id]) |-> msg[tracker'[id][k]].vals[1]]
  <1>1. /\ Expected' = Apply(E, f)
        /\ pos \in Nat /\ pos + 1 \in 1 .. Len(msg)
        /\ f.vals[1] \in Values /\ Known(f)
    BY ScanStep DEF Track
  <1>2. /\ f.wire = Delimited /\ q # PeriodType /\ phase = 0
        /\ UNCHANGED <<msg, profile, phase, tasks, nullDeref>> /\ pos' = pos + 1
        /\ tracker' = [tracker EXCEPT ![q] = Append(@, pos + 1)]
    BY DEF Track, Scanning
  <1>3. q \in Repeated \union {Comment} /\ q \in 1 .. 14
    BY <1>1, <1>2 DEF Known, Varint, Delimited, Repeated, Comment
  <1>4. tracker \in [1 .. 14 -> Seq(1 .. pos)]
    BY DEF IInv, Shapes
  <1>5. ASSUME NEW id \in 1 .. 14
        PROVE  /\ tracker[id] \in Seq(1 .. pos + 1)
               /\ Append(tracker[id], pos + 1) \in Seq(1 .. pos + 1)
               /\ Len(Append(tracker[id], pos + 1)) = Len(tracker[id]) + 1
               /\ Len(tracker[id]) \in Nat
    <2>1. 1 .. pos \subseteq 1 .. pos + 1 /\ pos + 1 \in 1 .. pos + 1
      BY <1>1
    <2>2. tracker[id] \in Seq(1 .. pos)
      BY <1>4
    <2>3. tracker[id] \in Seq(1 .. pos + 1)
      BY <2>1, <2>2, SeqMonotonic
    <2>4. QED
      BY <2>1, <2>3
  <1>6. PICK c : E = [slots |-> [id \in Repeated |-> Tracked(id)],
                      scalars |-> profile.scalars,
                      periodType |-> profile.periodType, comment |-> c]
    BY DEF IInv, ScanIsRight
  <1> HIDE DEF E
  <1> HIDE DEF f, q
  <1>7. ASSUME NEW id \in Repeated, id # q
        PROVE  T(id) = Tracked(id)
    <2>1. tracker'[id] = tracker[id]
      BY <1>2, <1>4, <1>7 DEF Repeated
    <2>2. QED
      BY <2>1 DEF Tracked
  <1>8. ASSUME q \in Repeated
        PROVE  T(q) = Append(Tracked(q), f.vals[1])
    <2>1. tracker[q] \in Seq(1 .. pos) /\ Len(tracker[q]) \in Nat
      BY <1>3, <1>4, <1>5
    <2>2. tracker'[q] = Append(tracker[q], pos + 1)
      BY <1>2, <1>3, <1>4
    <2> DEFINE n == Len(tracker[q])
               S == Append(Tracked(q), f.vals[1])
    <2>3. Tracked(q) \in Seq(Values) /\ Len(Tracked(q)) = n
      <3>1. \A k \in 1 .. n : msg[tracker[q][k]].vals[1] \in Values
        BY <1>3, Records DEF IInv
      <3>2. QED
        BY <2>1, <3>1 DEF Tracked
    <2>4. Len(tracker'[q]) = n + 1
      BY <2>1, <2>2
    <2>5. \A k \in 1 .. n : tracker'[q][k] = tracker[q][k]
      BY <2>1, <2>2
    <2>6. tracker'[q][n + 1] = pos + 1
      BY <2>1, <2>2
    <2>7. S \in Seq(Values) /\ Len(S) = n + 1 /\ S[n + 1] = f.vals[1]
          /\ \A k \in 1 .. n : S[k] = Tracked(q)[k]
      BY <1>1, <2>3, AppendProperties
    <2>8. \A k \in 1 .. n : S[k] = T(q)[k]
      BY <2>1, <2>4, <2>5, <2>7 DEF Tracked
    <2>9. T(q)[n + 1] = S[n + 1]
      BY <2>1, <2>4, <2>6, <2>7 DEF Field, f
    <2> HIDE DEF S
    <2>10. S = [k \in 1 .. n + 1 |-> S[k]]
      BY <2>1, <2>7
    <2>11. \A k \in 1 .. n + 1 : T(q)[k] = S[k]
      <3>1. n \in Nat
        BY <2>1
      <3>2. \A k \in 1 .. n + 1 : k \in 1 .. n \/ k = n + 1
        BY <3>1
      <3> HIDE DEF T, n
      <3>3. QED
        BY <2>8, <2>9, <3>2
    <2>12. T(q) = [k \in 1 .. n + 1 |-> T(q)[k]]
      BY <2>4
    <2>13. T(q) = S
      BY <2>10, <2>11, <2>12
    <2>14. QED
      BY <2>13 DEF S
  <1> HIDE DEF T
  <1>9. ScanIsRight'
    <2> DEFINE Right(e) ==
          Expected' = [slots |-> [id \in Repeated |-> T(id)], scalars |-> profile.scalars,
                       periodType |-> profile.periodType, comment |-> e]
    <2>0. SUFFICES \E e : Right(e)
      <3>1. ASSUME NEW e, Right(e)
            PROVE  Right((Expected').comment)
        BY <3>1
      <3>2. Right((Expected').comment) => ScanIsRight'
        <4>1. msg' = msg /\ profile' = profile
          BY <1>2
        <4>2. \A id \in Repeated : T(id) = Tracked(id)'
          BY <4>1 DEF Tracked, T
        <4>3. QED
          BY <4>1, <4>2 DEF ScanIsRight
      <3>3. QED
        BY <3>1, <3>2
    <2>1. CASE q \in Repeated
      <3>1. Expected' = [E EXCEPT !.slots[q] = Append(E.slots[q], f.vals[1])]
        BY <1>1, <1>2, <2>1
        DEF Apply, Varint, Delimited, Repeated, Scalars, Comment, PeriodType, q
      <3>2. Expected' = [slots |-> [[id \in Repeated |-> Tracked(id)] EXCEPT
                                      ![q] = Append(Tracked(q), f.vals[1])],
                         scalars |-> profile.scalars,
                         periodType |-> profile.periodType, comment |-> c]
        BY <1>6, <2>1, <3>1
      <3>3. [[id \in Repeated |-> Tracked(id)] EXCEPT ![q] = Append(Tracked(q), f.vals[1])]
              = [id \in Repeated |-> T(id)]
        BY <1>7, <1>8, <2>1
      <3>4. QED
        BY <3>2, <3>3
    <2>2. CASE q = Comment
      <3>1. Expected' = [E EXCEPT !.comment = E.comment \o f.vals]
        BY <1>1, <1>2, <2>2
        DEF q, Apply, Varint, Delimited, Repeated, Scalars, Comment, PeriodType
      <3>2. Expected' = [slots |-> [id \in Repeated |-> Tracked(id)],
                         scalars |-> profile.scalars,
                         periodType |-> profile.periodType, comment |-> c \o f.vals]
        BY <1>6, <3>1
      <3>3. [id \in Repeated |-> Tracked(id)] = [id \in Repeated |-> T(id)]
        BY <1>7, <2>2 DEF Repeated, Comment
      <3>4. QED
        BY <3>2, <3>3
    <2>3. QED
      BY <1>3, <2>1, <2>2
  <1>10. Shapes'
    <2>1. tracker' \in [1 .. 14 -> Seq(1 .. pos + 1)]
      BY <1>2, <1>4, <1>5
    <2>2. msg \in Messages /\ phase \in 0 .. Len(Loops) + 1 /\ IsProfile(profile)
      BY DEF IInv, Shapes
    <2>3. IsProfile(profile)'
      BY <1>2, <2>2 DEF IsProfile
    <2>4. pos' \in 0 .. Len(msg)
      BY <1>1, <1>2
    <2>5. QED
      BY <1>2, <2>1, <2>2, <2>3, <2>4 DEF Shapes
  <1>11. IterationsAre'
    BY <1>2, LoopOrder DEF IInv, IterationsAre, tasks, Iterations, Id
  <1>12. SlotsAre'
    BY <1>2 DEF IInv, SlotsAre
  <1>13. QED
    BY <1>2, <1>9, <1>10, <1>11, <1>12 DEF IInv

--------------------------------------------------------------------------------
(* After the scan.                                                             *)

\* What the scan has found stays as it is.
LEMMA ScanStays ==
  ASSUME IInv, UNCHANGED <<msg, pos, tracker>>, phase' \in 0 .. Len(Loops) + 1,
         phase' > 0 => pos = Len(msg),
         IsProfile(profile'), profile'.scalars = profile.scalars,
         profile'.periodType = profile.periodType
  PROVE  Shapes' /\ ScanIsRight' /\ \A id : Tracked(id)' = Tracked(id)
  <1>1. \A id : Tracked(id)' = Tracked(id)
    BY DEF Tracked
  <1>2. Expected' = Expected
    BY DEF Expected
  <1>3. ScanIsRight'
    BY <1>1, <1>2 DEF IInv, ScanIsRight
  <1>4. IsProfile(profile)'
    BY DEF IsProfile
  <1>5. Shapes'
    BY <1>4 DEF IInv, Shapes
  <1>6. QED
    BY <1>1, <1>3, <1>5

\* The iterations of a loop that starts are all to do.
LEMMA StartLoopStep ==
  ASSUME IInv, NEW k \in 1 .. Len(Loops) + 1, StartLoop(k), UNCHANGED tracker
  PROVE  /\ IterationsAre' /\ phase' = k
         /\ \A id \in Repeated : id = k =>
              \A i \in 1 .. Len(tracker[id]) : at'[i] = "todo"
  <1>1. phase' = k /\ tracker' = tracker
    BY DEF StartLoop
  <1>2. CASE k = 8
    <2>1. at' = [i \in 1 .. 0 |-> "todo"]
      BY <1>2, LoopOrder DEF StartLoop
    <2>2. DOMAIN at' = {}
      BY <2>1
    <2>3. QED
      BY <1>1, <1>2, <2>2, LoopOrder DEF IterationsAre, Iterations, Repeated
  <1>3. CASE k \in 1 .. 7
    <2>1. at' = [i \in 1 .. Len(tracker[Loops[k]]) |-> "todo"]
      BY <1>3, LoopOrder DEF StartLoop
    <2>2. Id' = Loops[k]
      BY <1>1 DEF Id
    <2>3. DOMAIN at' = 1 .. Len(tracker[Loops[k]])
          /\ \A i \in DOMAIN at' : at'[i] = "todo"
      BY <2>1
    <2>4. IterationsAre'
      BY <1>1, <1>3, <2>2, <2>3, LoopOrder DEF IterationsAre, Iterations
    <2>5. \A id \in Repeated : id = k => Loops[k] = id
      BY LoopOrder DEF Repeated
    <2>6. QED
      BY <1>1, <2>3, <2>4, <2>5
  <1>4. QED
    BY <1>2, <1>3, LoopOrder

\* resize and new Sample make the slots what they are before their loop.
LEMMA ResizeStep ==
  ASSUME IInv, Resize
  PROVE  IInv'
  <1> DEFINE Default(id) == IF id \in {2, 6} THEN Fresh ELSE Null
             slots == [id \in Repeated |-> [k \in 1 .. Len(tracker[id]) |-> Default(id)]]
             comment == Resized(profile.comment, Len(tracker[Comment]), 0)
  <1>1. /\ phase = 0 /\ pos = Len(msg) /\ StartLoop(1)
        /\ UNCHANGED <<msg, pos, tracker, nullDeref>>
        /\ \A id \in Repeated : profile.slots[id] = <<>>
        /\ profile = [slots |-> profile.slots, scalars |-> profile.scalars,
                      periodType |-> profile.periodType, comment |-> profile.comment]
    BY DEF Resize, IInv, SlotsAre, Shapes, IsProfile
  <1>2. \A id \in Repeated :
          /\ Resized(profile.slots[id], Len(tracker[id]), Default(id)) = slots[id]
          /\ slots[id] \in Seq(Values) /\ Len(tracker[id]) \in Nat
    <2>1. TAKE id \in Repeated
    <2>2. id \in 1 .. 14
      BY DEF Repeated
    <2>3. Len(tracker[id]) \in Nat
      BY <2>2, Records DEF IInv
    <2>4. Default(id) \in Values
      BY DEF Values
    <2>5. Len(profile.slots[id]) = 0
      BY <1>1
    <2> HIDE DEF Default
    <2>6. Resized(profile.slots[id], Len(tracker[id]), Default(id))
            = [k \in 1 .. Len(tracker[id]) |-> Default(id)]
      BY <2>3, <2>5 DEF Resized
    <2>7. QED
      BY <2>3, <2>4, <2>6
  <1>3. profile' = [profile EXCEPT !.slots = slots, !.comment = comment]
    <2>1. profile' = [profile EXCEPT
             !.slots = [id \in Repeated |->
               Resized(profile.slots[id], Len(tracker[id]), Default(id))],
             !.comment = comment]
      BY DEF Resize
    <2>2. [id \in Repeated |-> Resized(profile.slots[id], Len(tracker[id]), Default(id))]
            = slots
      BY <1>2
    <2>3. QED
      BY <2>1, <2>2
  <1> HIDE DEF comment
  <1>4. profile' = [slots |-> slots, scalars |-> profile.scalars,
                    periodType |-> profile.periodType, comment |-> comment]
    BY <1>1, <1>3
  <1>5. IsProfile(profile')
    <2>1. slots \in [Repeated -> Seq(Values)]
      BY <1>2
    <2> HIDE DEF slots
    <2>2. QED
      BY <1>4, <2>1 DEF IsProfile
  <1>6. /\ IterationsAre' /\ phase' = 1
        /\ \A id \in Repeated : id = 1 =>
             \A i \in 1 .. Len(tracker[id]) : at'[i] = "todo"
    BY <1>1, StartLoopStep, LoopOrder
  <1>7. Shapes' /\ ScanIsRight'
    BY <1>1, <1>4, <1>5, <1>6, ScanStays, LoopOrder
  <1>8. SlotsAre'
    <2>1. ASSUME NEW id \in Repeated, NEW k \in 1 .. Len(tracker[id])
          PROVE  Slot(id, k)' = Default(id)
      BY <1>6 DEF Slot, Repeated
    <2>2. profile'.slots = slots
      BY <1>4
    <2>3. \A id \in Repeated :
            profile'.slots[id] = [k \in 1 .. Len(tracker'[id]) |-> Slot(id, k)']
      BY <1>1, <2>1, <2>2
    <2>4. phase' # 0
      BY <1>6
    <2>5. QED
      BY <2>3, <2>4 DEF SlotsAre
  <1>9. QED
    BY <1>1, <1>6, <1>7, <1>8 DEF IInv

--------------------------------------------------------------------------------
(* The loops.                                                                  *)

\* Where iteration i of a loop may be, and the slots it sees.
LEMMA LoopFacts ==
  ASSUME IInv, InLoop, NEW i \in Iterations
  PROVE  /\ phase \in 1 .. 7
         /\ \/ Id \in Repeated /\ Id = phase
            \/ Id = Comment /\ phase = 7
         /\ i \in 1 .. Len(tracker[Id]) /\ Id \in 1 .. 14
         /\ Id \in Repeated => profile.slots[Id][i] = Slot(Id, i)
  <1>1. phase \in 1 .. 7
    BY LoopOrder DEF InLoop
  <1>2. \/ Id \in Repeated /\ Id = phase
        \/ Id = Comment /\ phase = 7
    BY <1>1, LoopOrder DEF Id, Repeated
  <1>3. i \in 1 .. Len(tracker[Id]) /\ Id \in 1 .. 14
    BY <1>1, <1>2, LoopOrder DEF IInv, IterationsAre, Iterations, Repeated
  <1>4. Id \in Repeated => profile.slots[Id][i] = Slot(Id, i)
    <2>1. HAVE Id \in Repeated
    <2>2. profile.slots[Id] = [k \in 1 .. Len(tracker[Id]) |-> Slot(Id, k)]
      BY <1>1, <2>1 DEF IInv, SlotsAre
    <2>3. QED
      BY <1>3, <2>2
  <1>5. QED
    BY <1>1, <1>2, <1>3, <1>4

\* A step of an iteration that stores in no slot.
LEMMA ElsewhereStep ==
  ASSUME IInv, InLoop, NEW i \in Iterations, NEW s,
         UNCHANGED <<msg, pos, tracker, phase, nullDeref>>,
         at' = [at EXCEPT ![i] = s],
         s \in IF Id = Comment THEN {"todo", "test", "load", "store", "done"}
               ELSE IF Id \in {2, 6} THEN {"parse"} ELSE {"new"},
         at[i] # "todo" => Id = Comment,
         IsProfile(profile'), profile'.slots = profile.slots,
         profile'.scalars = profile.scalars, profile'.periodType = profile.periodType
  PROVE  IInv'
  <1>1. Shapes' /\ ScanIsRight' /\ \A id : Tracked(id)' = Tracked(id)
    BY ScanStays DEF IInv, Shapes
  <1>2. /\ phase \in 1 .. 7
        /\ \/ Id \in Repeated /\ Id = phase
           \/ Id = Comment /\ phase = 7
    BY LoopFacts
  <1>3. Id' = Id
    BY DEF Id
  <1>4. DOMAIN at' = DOMAIN at /\ at'[i] = s
        /\ \A j \in DOMAIN at : j # i => at'[j] = at[j]
    BY DEF Iterations
  <1>5. IterationsAre'
    BY <1>3, <1>4 DEF IInv, IterationsAre, Iterations
  <1>6. ASSUME NEW id \in Repeated, NEW k \in 1 .. Len(tracker[id])
        PROVE  Slot(id, k)' = Slot(id, k)
    <2>1. CASE id # phase
      BY <1>1, <2>1 DEF Slot
    <2>2. CASE id = phase /\ k # i
      <3>0. Id = id
        BY <1>2, <2>2 DEF Repeated, Comment
      <3>1. k \in DOMAIN at
        BY <1>2, <3>0, LoopOrder DEF IInv, IterationsAre
      <3>2. at'[k] = at[k]
        BY <2>2, <3>1, <1>4
      <3>3. QED
        BY <1>1, <3>2 DEF Slot
    <2>3. CASE id = phase /\ k = i
      <3>1. Id = id
        BY <1>2, <2>3 DEF Repeated, Comment
      <3>2. at[i] = "todo" /\ id # Comment
        BY <3>1 DEF Repeated, Comment
      <3>3. s = IF id \in {2, 6} THEN "parse" ELSE "new"
        BY <3>1, <3>2
      <3>4. QED
        BY <1>1, <1>4, <2>3, <3>2, <3>3 DEF Slot, Repeated
    <2>4. QED
      BY <2>1, <2>2, <2>3
  <1>7. SlotsAre'
    <2>1. \A id \in Repeated :
            [k \in 1 .. Len(tracker'[id]) |-> Slot(id, k)']
              = [k \in 1 .. Len(tracker[id]) |-> Slot(id, k)]
      BY <1>6
    <2>2. \A id \in Repeated :
            profile'.slots[id] = [k \in 1 .. Len(tracker[id]) |-> Slot(id, k)]
      BY <1>2 DEF IInv, SlotsAre
    <2>3. QED
      BY <1>2, <2>1, <2>2 DEF SlotsAre
  <1>8. QED
    BY <1>1, <1>5, <1>7 DEF IInv

\* An iteration begins.
LEMMA BeginStep ==
  ASSUME IInv, NEW i \in Iterations, Begin(i)
  PROVE  IInv'
  <1> DEFINE s == IF Id = Comment THEN "test" ELSE IF Id \in {2, 6} THEN "parse" ELSE "new"
  <1>1. /\ InLoop /\ at' = [at EXCEPT ![i] = s] /\ at[i] = "todo"
        /\ UNCHANGED <<msg, pos, tracker, profile, phase, nullDeref>>
    BY DEF Begin
  <1>2. IsProfile(profile')
    BY <1>1 DEF IInv, Shapes
  <1>3. s \in IF Id = Comment THEN {"todo", "test", "load", "store", "done"}
              ELSE IF Id \in {2, 6} THEN {"parse"} ELSE {"new"}
    OBVIOUS
  <1> HIDE DEF s
  <1>4. QED
    BY <1>1, <1>2, <1>3, ElsewhereStep

\* An iteration of the comment loop: whatever it makes of comment, it touches no
\* slot.
LEMMA CommentStep ==
  ASSUME IInv, NEW i \in Iterations, CommentTest(i) \/ CommentLoad(i) \/ CommentStore(i)
  PROVE  IInv'
  <1>1. at[i] \in {"test", "load", "store"} /\ InLoop
    BY DEF CommentTest, CommentLoad, CommentStore
  <1>2. Id = Comment
    BY <1>1 DEF IInv, IterationsAre
  <1>3. PICK s \in {"test", "load", "store", "done"} : at' = [at EXCEPT ![i] = s]
    BY DEF CommentTest, CommentLoad, CommentStore
  <1>4. /\ UNCHANGED <<msg, pos, tracker, phase, nullDeref>>
        /\ \/ profile' = profile
           \/ profile' = [profile EXCEPT !.comment =
                Append(Resized(@, end[i], 0), Payload(i).vals[next[i]])]
    BY DEF CommentTest, CommentLoad, CommentStore
  <1>5. IsProfile(profile)
    BY DEF IInv, Shapes
  <1>6. /\ IsProfile(profile') /\ profile'.slots = profile.slots
        /\ profile'.scalars = profile.scalars /\ profile'.periodType = profile.periodType
    <2>1. CASE profile' = profile
      BY <1>5, <2>1
    <2>2. CASE profile' # profile
      <3>1. PICK c : profile' = [profile EXCEPT !.comment = c]
        BY <1>4, <2>2
      <3>2. profile' = [slots |-> profile.slots, scalars |-> profile.scalars,
                        periodType |-> profile.periodType, comment |-> c]
        BY <1>5, <3>1 DEF IsProfile
      <3>3. QED
        BY <1>5, <3>2 DEF IsProfile
    <2>3. QED
      BY <2>1, <2>2
  <1>7. QED
    BY <1>1, <1>2, <1>3, <1>4, <1>6, ElsewhereStep

\* An iteration stores in its slot: v is what is there then, and s where the
\* iteration goes.
LEMMA StoreStep ==
  ASSUME IInv, InLoop, NEW i \in Iterations, NEW v \in Values, NEW s, Id \in Repeated,
         UNCHANGED <<msg, pos, tracker, phase, nullDeref>>,
         at' = [at EXCEPT ![i] = s],
         profile' = [profile EXCEPT !.slots[Id][i] = v],
         \/ s = "parse" /\ Id \notin {2, 6} /\ v = Fresh
         \/ s = "done" /\ v = Tracked(Id)[i]
  PROVE  IInv'
  <1> DEFINE slots == [profile.slots EXCEPT ![Id] = [@ EXCEPT ![i] = v]]
  <1>1. /\ phase \in 1 .. 7 /\ Id = phase
        /\ i \in 1 .. Len(tracker[Id]) /\ Id \in 1 .. 14
    BY LoopFacts DEF Repeated, Comment
  <1>2. IsProfile(profile)
    BY DEF IInv, Shapes
  <1>3. profile' = [slots |-> slots, scalars |-> profile.scalars,
                    periodType |-> profile.periodType, comment |-> profile.comment]
    BY <1>2 DEF IsProfile
  <1>4. profile.slots[Id] = [k \in 1 .. Len(tracker[Id]) |-> Slot(Id, k)]
        /\ profile.slots \in [Repeated -> Seq(Values)]
    BY <1>1, <1>2 DEF IInv, SlotsAre, IsProfile
  <1>5. slots \in [Repeated -> Seq(Values)]
    <2>1. profile.slots[Id] \in Seq(Values)
      BY <1>4
    <2>2. Len(profile.slots[Id]) = Len(tracker[Id])
      <3>1. Len(tracker[Id]) \in Nat
        BY <1>1, Records DEF IInv
      <3>2. QED
        BY <1>4, <3>1
    <2>3. [profile.slots[Id] EXCEPT ![i] = v] \in Seq(Values)
      BY <1>1, <2>1, <2>2, ExceptSeq
    <2>4. QED
      BY <1>4, <2>3
  <1>6. IsProfile(profile')
    <2> HIDE DEF slots
    <2>1. /\ profile'.slots = slots /\ profile'.scalars = profile.scalars
          /\ profile'.periodType = profile.periodType
          /\ profile'.comment = profile.comment
      BY <1>3
    <2>2. profile' = [slots |-> profile'.slots, scalars |-> profile'.scalars,
                      periodType |-> profile'.periodType, comment |-> profile'.comment]
      BY <1>3, <2>1
    <2>3. QED
      BY <1>5, <2>1, <2>2 DEF IsProfile
  <1>7. Shapes' /\ ScanIsRight' /\ \A id : Tracked(id)' = Tracked(id)
    <2> HIDE DEF slots
    <2>1. phase' \in 0 .. Len(Loops) + 1 /\ (phase' > 0 => pos = Len(msg))
      BY DEF IInv, Shapes
    <2>2. QED
      BY <1>3, <1>6, <2>1, ScanStays
  <1>8. DOMAIN at' = DOMAIN at /\ at'[i] = s
        /\ \A j \in DOMAIN at : j # i => at'[j] = at[j]
    BY DEF Iterations
  <1>9. IterationsAre'
    <2>1. Id' = Id
      BY DEF Id
    <2>2. Id # Comment
      BY DEF Repeated, Comment
    <2>3. QED
      BY <1>8, <2>1, <2>2 DEF IInv, IterationsAre, Iterations
  <1>10. SlotsAre'
    <2>1. ASSUME NEW id \in Repeated, NEW k \in 1 .. Len(tracker[id])
          PROVE  Slot(id, k)' = slots[id][k]
      <3>1. profile.slots[id] = [j \in 1 .. Len(tracker[id]) |-> Slot(id, j)]
        BY <1>1 DEF IInv, SlotsAre
      <3>2. CASE id # Id
        <4>1. slots[id] = profile.slots[id]
          BY <1>4, <3>2
        <4>2. Slot(id, k)' = Slot(id, k)
          BY <1>1, <1>7, <3>2 DEF Slot
        <4>3. QED
          BY <3>1, <4>1, <4>2
      <3>3. CASE id = Id /\ k # i
        <4>1. slots[id][k] = profile.slots[id][k]
          BY <1>4, <3>1, <3>3
        <4>2. k \in DOMAIN at
          BY <1>1, <3>3, LoopOrder DEF IInv, IterationsAre
        <4>3. at'[k] = at[k]
          BY <1>8, <3>3, <4>2
        <4>4. Slot(id, k)' = Slot(id, k)
          BY <1>7, <4>3 DEF Slot
        <4>5. QED
          BY <3>1, <4>1, <4>4
      <3>4. CASE id = Id /\ k = i
        <4>1. slots[id][k] = v
          BY <1>4, <3>1, <3>4
        <4>2. Slot(id, k)' = v
          BY <1>1, <1>7, <1>8, <3>4 DEF Slot
        <4>3. QED
          BY <4>1, <4>2
      <3>5. QED
        BY <3>2, <3>3, <3>4
    <2>2. ASSUME NEW id \in Repeated
          PROVE  slots[id] = [k \in 1 .. Len(tracker[id]) |-> slots[id][k]]
      <3>1. profile.slots[id] = [k \in 1 .. Len(tracker[id]) |-> Slot(id, k)]
        BY <1>1 DEF IInv, SlotsAre
      <3>2. CASE id # Id
        <4>1. slots[id] = profile.slots[id]
          BY <1>4, <3>2
        <4>2. QED
          BY <3>1, <4>1
      <3>3. CASE id = Id
        <4>1. slots[id] = [profile.slots[id] EXCEPT ![i] = v]
          BY <1>4, <3>3
        <4>2. QED
          BY <3>1, <4>1
      <3>4. QED
        BY <3>2, <3>3
    <2>3. profile'.slots = slots
      <3> HIDE DEF slots
      <3>1. QED
        BY <1>3
    <2> HIDE DEF slots
    <2>4. ASSUME NEW id \in Repeated
          PROVE  profile'.slots[id] = [k \in 1 .. Len(tracker'[id]) |-> Slot(id, k)']
      <3>1. [k \in 1 .. Len(tracker[id]) |-> slots[id][k]]
              = [k \in 1 .. Len(tracker[id]) |-> Slot(id, k)']
        BY <2>1
      <3>2. QED
        BY <2>2, <2>3, <3>1
    <2>5. phase' # 0
      BY <1>1
    <2>6. QED
      BY <2>4, <2>5 DEF SlotsAre
  <1>11. QED
    BY <1>7, <1>9, <1>10 DEF IInv

\* The object of a record is made.
LEMMA NewStep ==
  ASSUME IInv, NEW i \in Iterations, New(i)
  PROVE  IInv'
  <1>1. /\ InLoop /\ at[i] = "new" /\ at' = [at EXCEPT ![i] = "parse"]
        /\ profile' = [profile EXCEPT !.slots[Id][i] = Fresh]
        /\ UNCHANGED <<msg, pos, tracker, phase, nullDeref>>
    BY DEF New
  <1>2. Id # Comment /\ Id \notin {2, 6}
    BY <1>1 DEF IInv, IterationsAre
  <1>3. Id \in Repeated
    BY <1>1, <1>2, LoopFacts
  <1>4. Fresh \in Values
    BY DEF Values
  <1>5. QED
    BY <1>1, <1>2, <1>3, <1>4, StoreStep

\* A record is parsed into an object that is there, and that nobody else has
\* parsed into.
LEMMA ParseStep ==
  ASSUME IInv, NEW i \in Iterations, Parse(i)
  PROVE  IInv'
  <1>1. /\ InLoop /\ at[i] = "parse" /\ at' = [at EXCEPT ![i] = "done"]
        /\ UNCHANGED <<msg, pos, tracker, phase>>
    BY DEF Parse
  <1>2. Id # Comment
    BY <1>1 DEF IInv, IterationsAre
  <1>3. /\ Id \in Repeated /\ Id = phase
        /\ i \in 1 .. Len(tracker[Id]) /\ Id \in 1 .. 14
        /\ profile.slots[Id][i] = Slot(Id, i)
    BY <1>1, <1>2, LoopFacts
  <1>4. profile.slots[Id][i] = Fresh
    BY <1>1, <1>3 DEF Slot, Repeated
  <1> DEFINE v == Payload(i).vals[1]
  <1>5. v = Tracked(Id)[i] /\ v \in Values
    BY <1>3, Records DEF Tracked, Payload, IInv
  <1>6. nullDeref' = nullDeref
    <2>1. ~nullDeref
      BY DEF IInv
    <2>2. profile.slots[Id][i] # Null
      BY <1>4 DEF Fresh, Null
    <2>3. nullDeref' = (nullDeref \/ profile.slots[Id][i] = Null)
      BY DEF Parse
    <2>4. nullDeref = FALSE
      BY DEF IInv
    <2>5. QED
      BY <2>1, <2>2, <2>3, <2>4, Zenon
  <1>7. profile' = [profile EXCEPT !.slots[Id][i] = v]
    BY <1>4 DEF Parse
  <1> HIDE DEF v
  <1>8. QED
    BY <1>1, <1>3, <1>5, <1>6, <1>7, StoreStep

\* When every iteration is done, every slot of the kind holds its record.
LEMMA LoopDoneStep ==
  ASSUME IInv, LoopDone
  PROVE  IInv'
  <1>1. /\ phase \in 1 .. 7 /\ StartLoop(phase + 1)
        /\ UNCHANGED <<msg, pos, tracker, profile, nullDeref>>
        /\ \A i \in DOMAIN at : at[i] = "done"
    BY LoopOrder DEF LoopDone, InLoop, Iterations
  <1>2. /\ IterationsAre' /\ phase' = phase + 1
        /\ \A id \in Repeated : id = phase + 1 =>
             \A i \in 1 .. Len(tracker[id]) : at'[i] = "todo"
    BY <1>1, StartLoopStep, LoopOrder
  <1>3. Shapes' /\ ScanIsRight' /\ \A id : Tracked(id)' = Tracked(id)
    <2>1. IsProfile(profile') /\ pos = Len(msg)
      BY <1>1 DEF IInv, Shapes
    <2>2. phase' \in 0 .. Len(Loops) + 1
      BY <1>1, <1>2, LoopOrder
    <2>3. QED
      BY <1>1, <2>1, <2>2, ScanStays
  <1>4. ASSUME NEW id \in Repeated, NEW k \in 1 .. Len(tracker[id])
        PROVE  Slot(id, k)' = Slot(id, k)
    <2>1. CASE id < phase
      BY <1>1, <1>2, <1>3, <2>1 DEF Slot, Repeated
    <2>2. CASE id = phase
      <3>1. Id = id
        BY <2>2, LoopOrder DEF Id, Repeated
      <3>2. k \in DOMAIN at
        BY <1>1, <3>1, LoopOrder DEF IInv, IterationsAre
      <3>3. at[k] = "done"
        BY <1>1, <3>2
      <3>4. QED
        BY <1>1, <1>2, <1>3, <2>2, <3>3 DEF Slot
    <2>3. CASE id > phase
      BY <1>1, <1>2, <1>3, <2>3 DEF Slot, Repeated
    <2>4. QED
      BY <1>1, <2>1, <2>2, <2>3 DEF Repeated
  <1>5. SlotsAre'
    <2>1. \A id \in Repeated :
            [k \in 1 .. Len(tracker'[id]) |-> Slot(id, k)']
              = [k \in 1 .. Len(tracker[id]) |-> Slot(id, k)]
      BY <1>1, <1>4
    <2>2. \A id \in Repeated :
            profile'.slots[id] = [k \in 1 .. Len(tracker[id]) |-> Slot(id, k)]
      BY <1>1 DEF IInv, SlotsAre
    <2>3. phase' # 0
      BY <1>1, <1>2
    <2>4. QED
      BY <2>1, <2>2, <2>3 DEF SlotsAre
  <1>6. QED
    BY <1>1, <1>2, <1>3, <1>5 DEF IInv

--------------------------------------------------------------------------------
(* Every step, and what follows.                                               *)

\* No step of the scan or of a loop leaves the invariant.
LEMMA NextStep == IInv /\ [Next]_vars => IInv'
  <1> SUFFICES ASSUME IInv, [Next]_vars PROVE IInv'
    OBVIOUS
  <1>1. CASE ScanVarint
    BY <1>1, ScanVarintStep
  <1>2. CASE ScanPeriodType
    BY <1>2, ScanPeriodTypeStep
  <1>3. CASE Track
    BY <1>3, TrackStep
  <1>4. CASE Resize
    BY <1>4, ResizeStep
  <1>5. CASE LoopDone
    BY <1>5, LoopDoneStep
  <1>6. ASSUME NEW i \in Iterations, Iterate(i) PROVE IInv'
    BY <1>6, BeginStep, NewStep, ParseStep, CommentStep DEF Iterate
  <1>7. CASE UNCHANGED vars
    <2>1. UNCHANGED <<msg, pos, tracker, profile, phase, at, nullDeref>>
      BY <1>7 DEF vars
    <2>2. Shapes' /\ ScanIsRight' /\ \A id : Tracked(id)' = Tracked(id)
      BY <2>1, ScanStays DEF IInv, Shapes
    <2>3. IterationsAre'
      BY <2>1 DEF IInv, IterationsAre, Iterations, Id
    <2>4. \A id, k : Slot(id, k)' = Slot(id, k)
      BY <2>1, <2>2 DEF Slot
    <2>5. SlotsAre'
      BY <2>1, <2>4 DEF IInv, SlotsAre
    <2>6. QED
      BY <2>1, <2>2, <2>3, <2>5 DEF IInv
  <1>8. QED
    BY <1>1, <1>2, <1>3, <1>4, <1>5, <1>6, <1>7 DEF Next

\* Whatever the order and the overlap of the iterations, IInv holds.
THEOREM Invariance == Spec => []IInv
  BY InitIInv, NextStep, PTL DEF Spec

\* Of the scan, the tracker and the iterations: positions are those of fields that
\* have been scanned.
THEOREM Typing == Spec => []TypeOK
  <1>1. IInv => TypeOK
    <2> SUFFICES ASSUME IInv PROVE TypeOK
      OBVIOUS
    <2>1. pos \in 0 .. Len(msg) /\ phase \in 0 .. Len(Loops) + 1
      BY DEF IInv, Shapes
    <2>2. ASSUME NEW id \in DOMAIN tracker, NEW k \in DOMAIN tracker[id]
          PROVE  tracker[id][k] \in 1 .. pos
      <3>1. tracker \in [1 .. 14 -> Seq(1 .. pos)]
        BY DEF IInv, Shapes
      <3>2. tracker[id] \in Seq(1 .. pos)
        BY <3>1
      <3>3. k \in 1 .. Len(tracker[id])
        BY <3>2
      <3>4. QED
        BY <3>2, <3>3, ElementOfSeq
    <2>3. ASSUME NEW i \in Iterations
          PROVE  at[i] \in {"todo", "new", "parse", "test", "load", "store", "done"}
      BY DEF IInv, IterationsAre
    <2>4. nullDeref \in BOOLEAN
      BY DEF IInv
    <2>5. QED
      BY <2>1, <2>2, <2>3, <2>4 DEF TypeOK
  <1>2. QED
    BY <1>1, Invariance, PTL

\* Every object a parse function is called on has been made before, by resize's
\* caller or by the iteration itself.
THEOREM NoNullCall == Spec => []NoNullDeref
  <1>1. IInv => NoNullDeref
    BY DEF IInv, NoNullDeref
  <1>2. QED
    BY <1>1, Invariance, PTL

\* When parseProfile returns, the vectors, the scalars and period_type are those
\* that the sequential parser makes of the same message.
THEOREM ParallelIsSequential == Spec => []MatchesSequential
  <1>1. IInv => MatchesSequential
    <2> SUFFICES ASSUME IInv, Returned PROVE MatchesSequential
      BY DEF MatchesSequential
    <2>1. phase = 8 /\ pos = Len(msg)
      BY LoopOrder DEF Returned, IInv, Shapes
    <2>2. Prefix(msg, pos) = msg
      <3>1. PICK n \in 0 .. MaxFields : msg \in [1 .. n -> Fields]
        BY DEF IInv, Shapes, Messages
      <3>2. pos = n
        BY <2>1, <3>1, FieldsAssumption
      <3>3. QED
        BY <3>1, <3>2 DEF Prefix
    <2>3. SequentialParse(msg)
            = [slots |-> [id \in Repeated |-> Tracked(id)], scalars |-> profile.scalars,
               periodType |-> profile.periodType, comment |-> Expected.comment]
      BY <2>2 DEF IInv, ScanIsRight, Expected
    <2>4. ASSUME NEW id \in Repeated
          PROVE  profile.slots[id] = Tracked(id)
      <3>1. profile.slots[id] = [k \in 1 .. Len(tracker[id]) |-> Slot(id, k)]
        BY <2>1 DEF IInv, SlotsAre
      <3>2. \A k \in 1 .. Len(tracker[id]) : Slot(id, k) = Tracked(id)[k]
        BY <2>1 DEF Slot, Repeated
      <3>3. QED
        BY <3>1, <3>2 DEF Tracked
    <2>5. profile.slots = [id \in Repeated |-> Tracked(id)]
      <3>1. profile.slots \in [Repeated -> Seq(Values)]
        BY DEF IInv, Shapes, IsProfile
      <3>2. QED
        BY <2>4, <3>1
    <2>6. QED
      BY <2>3, <2>5 DEF MatchesSequential
  <1>2. QED
    BY <1>1, Invariance, PTL
================================================================================
