----------------------------- MODULE DacParseProofs ----------------------------
(* The divide-and-conquer parser, for any message of known fields, any strays  *)
(* inside of them and any succskiplim: the first thread parses the whole       *)
(* message, the second never passes the first start it could take, a profile   *)
(* from a checked start is that of the sequential parser, and merging it adds  *)
(* its records a second time.                                                  *)
EXTENDS DacParse, ProfileFieldsProofs, SequenceTheorems, FiniteSetTheorems

--------------------------------------------------------------------------------
(* The invariant.                                                              *)

\* parseValueType of src/dac fails for a ValueType without fields, and with it
\* the parse: with such a period_type no more than TypeOK and TrialIsSuffix holds.
NoEmptyPeriodType == \A f \in Fields : f.id = PeriodType => ~f.empty

Count == Len(starts)
Pos(k) == IF k <= Count THEN starts[k] ELSE size
Reals == {starts[k] : k \in 1 .. Count}

\* The fields lie one behind the other, from 0 to size.
Layout ==
  /\ size \in Nat /\ Count \in Nat \ {0} /\ starts = [k \in 1 .. Count |-> starts[k]]
  /\ \A k \in 1 .. Count + 1 : Pos(k) \in 0 .. size
  /\ \A j, k \in 1 .. Count + 1 : j < k => Pos(j) < Pos(k)
  /\ Pos(1) = 0
  /\ \A k \in 1 .. Count : at[Pos(k)] \in Fields /\ Pos(k + 1) = Pos(k) + at[Pos(k)].size
  /\ \A p \in 0 .. size - 1 : at[p].tag \in Nat /\ at[p].size \in Nat

IsProfile(p) ==
  /\ p = [slots |-> p.slots, scalars |-> p.scalars,
          periodType |-> p.periodType, comment |-> p.comment]
  /\ p.slots \in [Repeated -> Seq(Nat)]

\* What the sequential parser makes of the fields from the a-th to that before
\* the b-th.
Parsed(a, b) == SequentialParse(Prefix(FieldsFrom(Pos(a)), b - a))

FirstInv ==
  /\ firstPc \in {"parse", "done"} /\ mainPc \in {"joining", "merged", "crashed"}
  /\ mainPc = "merged" => firstPc = "done"
  /\ IsProfile(this)
  /\ \E a \in 1 .. Count + 1 :
       /\ firstCurr = Pos(a)
       /\ mainPc # "merged" => this = Parsed(1, a)
       /\ NoEmptyPeriodType /\ firstPc = "done" => a = Count + 1

SecondInv ==
  /\ secondPc \in {"search", "check", "trial", "accepted", "done"}
  /\ i \in size \div 2 .. size
  /\ secondPc \notin {"search", "done"} => i \in Second
  /\ secondPc = "done" /\ i \in Second => i \in st
  /\ succskip \in 0 .. SuccSkipLim + 1 /\ curr \in Nat
  /\ secondPc \in {"check", "trial"} => curr >= i
  /\ prof2Is \in {"unset", "live", "deleted"} /\ hard \in BOOLEAN
  /\ IsProfile(prof2)

\* From a real start the second thread comes to real starts only.
StartInv ==
  secondPc \in {"check", "trial"} /\ i \in Reals => curr \in Reals \union {size}

TrialInv ==
  /\ secondPc = "check" => ~hard
  /\ secondPc = "trial" =>
       \A a \in 1 .. Count : i = Pos(a) =>
         \E b \in a .. Count + 1 : curr = Pos(b) /\ prof2 = Parsed(a, b)
  /\ secondPc \in {"accepted", "done"} /\ hard =>
       \A a \in 1 .. Count : i = Pos(a) => prof2 = Parsed(a, Count + 1)

SearchInv == NoEmptyPeriodType => \A m \in st : i <= m

IInv ==
  /\ Layout /\ FirstInv /\ SecondInv /\ StartInv /\ TrialInv /\ SearchInv
  /\ NoEmptyPeriodType => FirstIsComplete /\ SuffixComesTwice

--------------------------------------------------------------------------------
(* The message.                                                                *)

\* Sums of sizes put the fields one behind the other.
LEMMA LayoutOf ==
  ASSUME NEW m \in Nat \ {0}, NEW fields \in [1 .. m -> Fields],
         NEW D, NEW strays \in [D -> Strays], IsMessage(fields, strays)
  PROVE  Layout
  <1> DEFINE f == [l \in 1 .. Len(fields) |-> fields[l].size]
             T(k) == Sum(f, k - 1)
  <1>1. Len(fields) = m /\ \A k \in 1 .. m : fields[k] \in Fields
    OBVIOUS
  <1>2. \A k \in 1 .. m : f[k] = fields[k].size /\ f[k] \in Nat \ {0}
    <2>1. TAKE k \in 1 .. m
    <2>2. /\ fields[k].tag \in Nat /\ fields[k].size \in Nat
          /\ fields[k].size > fields[k].tag
      BY <1>1, FieldsAssumption
    <2>3. f[k] = fields[k].size
      BY <1>1
    <2>4. QED
      BY <2>2, <2>3
  <1>3. \A k : Start(fields, k) = T(k)
    BY DEF Start, Sum
  <1> HIDE DEF f
  <1>4. /\ T(1) = 0
        /\ \A k \in 1 .. m + 1 : T(k) \in Nat
        /\ \A k \in 1 .. m : T(k + 1) = T(k) + fields[k].size
    <2>1. /\ Sum(f, 0) = 0
          /\ \A k \in 0 .. m : Sum(f, k) \in Nat
          /\ \A k \in 0 .. m - 1 : Sum(f, k + 1) = Sum(f, k) + f[k + 1]
      BY <1>2, SumStep
    <2>2. \A k \in 1 .. m + 1 : k - 1 \in 0 .. m
      OBVIOUS
    <2>3. \A k \in 1 .. m : k - 1 \in 0 .. m - 1 /\ (k - 1) + 1 = k /\ (k + 1) - 1 = k
      OBVIOUS
    <2>4. \A k \in 1 .. m : Sum(f, k) = Sum(f, k - 1) + f[k]
      <3>1. TAKE k \in 1 .. m
      <3>2. Sum(f, (k - 1) + 1) = Sum(f, k - 1) + f[(k - 1) + 1]
        BY <2>1, <2>3
      <3>3. QED
        BY <2>3, <3>2
    <2>5. QED
      BY <1>2, <2>1, <2>2, <2>3, <2>4
  <1> HIDE DEF T
  <1>5. \A j, k \in 1 .. m + 1 : j < k => T(j) < T(k)
    <2> DEFINE S == {d \in 0 .. m : \A j \in 1 .. m + 1 :
                       j + d + 1 <= m + 1 => T(j) < T(j + d + 1)}
    <2>1. \A k \in 1 .. m : T(k) < T(k + 1)
      <3>1. TAKE k \in 1 .. m
      <3>2. k \in 1 .. m + 1
        OBVIOUS
      <3>3. T(k) \in Nat /\ fields[k].size \in Nat \ {0} /\ T(k + 1) = T(k) + fields[k].size
        BY <1>2, <1>4, <3>2
      <3>4. QED
        BY <3>3
    <2>2. 0 \in S
      BY <2>1
    <2>3. \A d \in 0 .. m - 1 : d \in S => d + 1 \in S
      <3>1. TAKE d \in 0 .. m - 1
      <3>2. HAVE d \in S
      <3>3. ASSUME NEW j \in 1 .. m + 1, j + (d + 1) + 1 <= m + 1
            PROVE  T(j) < T(j + (d + 1) + 1)
        <4>1. T(j) < T(j + d + 1)
          BY <3>2, <3>3
        <4>2. j + d + 1 \in 1 .. m
          BY <3>3
        <4>3. T(j + d + 1) < T((j + d + 1) + 1)
          BY <2>1, <4>2
        <4>4. (j + d + 1) + 1 = j + (d + 1) + 1
          OBVIOUS
        <4>5. T(j) \in Nat /\ T(j + d + 1) \in Nat /\ T(j + (d + 1) + 1) \in Nat
          BY <1>4, <3>3
        <4>6. QED
          BY <4>1, <4>3, <4>4, <4>5
      <3>4. QED
        BY <3>3
    <2> HIDE DEF S
    <2>4. \A d \in 0 .. m : d \in S
      BY <2>2, <2>3, UpTo
    <2>5. SUFFICES ASSUME NEW j \in 1 .. m + 1, NEW k \in 1 .. m + 1, j < k
                   PROVE  T(j) < T(k)
      OBVIOUS
    <2>6. k - j - 1 \in S /\ j + (k - j - 1) + 1 = k
      BY <2>4, <2>5
    <2>7. QED
      BY <2>6 DEF S
  <1>6. /\ size = T(m + 1) /\ starts = [k \in 1 .. m |-> T(k)]
    BY <1>1, <1>3 DEF IsMessage
  <1>7. Count = m /\ \A k \in 1 .. m + 1 : Pos(k) = T(k)
    BY <1>6 DEF Count, Pos
  <1>8. ASSUME NEW p \in 0 .. size - 1
        PROVE  at[p] = IF \E k \in DOMAIN starts : starts[k] = p
                       THEN fields[CHOOSE k \in DOMAIN starts : starts[k] = p]
                       ELSE IF p \in DOMAIN strays THEN strays[p]
                       ELSE [id |-> NoTag, wire |-> Varint, tag |-> 1, size |-> 1, empty |-> TRUE]
    BY DEF IsMessage
  <1>9. ASSUME NEW k \in 1 .. m
        PROVE  at[Pos(k)] = fields[k]
    <2>1. T(k) \in 0 .. size - 1
      <3>1. T(k) \in Nat /\ T(m + 1) \in Nat /\ T(k) < T(m + 1)
        BY <1>4, <1>5
      <3>2. QED
        BY <1>6, <3>1
    <2> DEFINE j == CHOOSE j \in DOMAIN starts : starts[j] = T(k)
    <2>2. \E l \in DOMAIN starts : starts[l] = T(k)
      BY <1>6
    <2>3. j \in 1 .. m /\ T(j) = T(k)
      BY <1>6, <2>2
    <2>4. at[T(k)] = fields[j]
      BY <1>8, <2>1, <2>2
    <2> HIDE DEF j
    <2>5. j = k
      <3>1. T(j) \in Nat /\ T(k) \in Nat
        BY <1>4, <2>3
      <3>2. ~(j < k) /\ ~(k < j)
        BY <1>5, <2>3, <3>1
      <3>3. QED
        BY <2>3, <3>2
    <2>6. QED
      BY <1>7, <2>4, <2>5
  <1>10. \A p \in 0 .. size - 1 : at[p].tag \in Nat /\ at[p].size \in Nat
    <2>1. TAKE p \in 0 .. size - 1
    <2>2. CASE \E k \in DOMAIN starts : starts[k] = p
      <3>1. PICK k \in 1 .. m : Pos(k) = p
        BY <1>6, <1>7, <2>2
      <3>2. at[p] \in Fields
        BY <1>1, <1>9, <3>1
      <3>3. QED
        BY <3>2, FieldsAssumption
    <2>3. CASE ~\E k \in DOMAIN starts : starts[k] = p
      <3>1. CASE p \in DOMAIN strays
        <4>1. at[p] \in Strays
          BY <1>8, <2>3, <3>1
        <4>2. QED
          BY <4>1, FieldsAssumption
      <3>2. CASE p \notin DOMAIN strays
        BY <1>8, <2>3, <3>2
      <3>3. QED
        BY <3>1, <3>2
    <2>4. QED
      BY <2>2, <2>3
  <1>11. \A k \in 1 .. m + 1 : T(k) \in 0 .. size
    <2>1. TAKE k \in 1 .. m + 1
    <2>2. T(k) \in Nat /\ T(m + 1) \in Nat /\ (k = m + 1 \/ T(k) < T(m + 1))
      BY <1>4, <1>5
    <2>3. QED
      BY <1>6, <2>2
  <1>12. size \in Nat /\ starts = [k \in 1 .. Count |-> starts[k]]
    BY <1>4, <1>6, <1>7
  <1>13. \A k \in 1 .. Count : at[Pos(k)] \in Fields /\ Pos(k + 1) = Pos(k) + at[Pos(k)].size
    BY <1>1, <1>4, <1>7, <1>9
  <1>14. /\ \A k \in 1 .. Count + 1 : Pos(k) \in 0 .. size
         /\ \A j, k \in 1 .. Count + 1 : j < k => Pos(j) < Pos(k)
         /\ Pos(1) = 0
    BY <1>4, <1>5, <1>7, <1>11
  <1>15. QED
    BY <1>7, <1>10, <1>12, <1>13, <1>14 DEF Layout

\* What the schema gives the sequential parser to read at q.
FieldAt(q) == [id |-> at[q].id, wire |-> at[q].wire, vals |-> <<q + 1>>]

\* The fields from the a-th on.
LEMMA FieldsFromStart ==
  ASSUME Layout, NEW a \in 1 .. Count
  PROVE  FieldsFrom(Pos(a)) = [k \in 1 .. Count - a + 1 |-> FieldAt(Pos(a + k - 1))]
  <1>1. Count \in Nat /\ Len(starts) = Count /\ DOMAIN starts = 1 .. Count
        /\ \A k \in 1 .. Count : starts[k] = Pos(k) /\ Pos(k) \in Nat
    BY DEF Layout, Count, Pos
  <1>2. {k \in DOMAIN starts : starts[k] < Pos(a)} = 1 .. a - 1
    <2>1. \A k \in 1 .. Count : Pos(k) < Pos(a) <=> k < a
      <3>1. TAKE k \in 1 .. Count
      <3>2. (k < a => Pos(k) < Pos(a)) /\ (a < k => Pos(a) < Pos(k))
        BY DEF Layout
      <3>3. Pos(k) \in Nat /\ Pos(a) \in Nat
        BY <1>1
      <3>4. QED
        BY <3>2, <3>3
    <2>2. QED
      BY <1>1, <2>1
  <1>3. Cardinality(1 .. a - 1) = a - 1
    BY FS_Interval
  <1>4. \A k \in 1 .. Count - a + 1 : starts[a - 1 + k] = Pos(a + k - 1)
    <2>1. TAKE k \in 1 .. Count - a + 1
    <2>2. a - 1 + k = a + k - 1 /\ a + k - 1 \in 1 .. Count
      BY <1>1
    <2>3. QED
      BY <1>1, <2>2
  <1>5. Len(starts) - (a - 1) = Count - a + 1
    BY <1>1
  <1>6. QED
    BY <1>2, <1>3, <1>4, <1>5 DEF FieldsFrom, FieldAt

\* Parsed, a field at a time.
LEMMA ParsedStep ==
  ASSUME Layout, NEW a \in 1 .. Count
  PROVE  /\ Parsed(a, a) = EmptyProfile
         /\ \A b \in a .. Count : Parsed(a, b + 1) = Apply(Parsed(a, b), FieldAt(Pos(b)))
         /\ Parsed(a, Count + 1) = SequentialParse(FieldsFrom(Pos(a)))
  <1> DEFINE F == FieldsFrom(Pos(a))
  <1>1. F = [k \in 1 .. Count - a + 1 |-> FieldAt(Pos(a + k - 1))] /\ Count \in Nat
    BY FieldsFromStart DEF Layout
  <1> HIDE DEF F
  <1>2. Parsed(a, a) = EmptyProfile
    <2>1. a - a = 0
      OBVIOUS
    <2>2. QED
      BY <2>1, ParseNothing DEF Parsed
  <1>3. ASSUME NEW b \in a .. Count
        PROVE  Parsed(a, b + 1) = Apply(Parsed(a, b), FieldAt(Pos(b)))
    <2>1. b - a \in Nat /\ (b + 1) - a = (b - a) + 1
      BY <1>1
    <2>2. SequentialParse(Prefix(F, (b - a) + 1))
            = Apply(SequentialParse(Prefix(F, b - a)), F[(b - a) + 1])
      BY <2>1, ParseOneMore
    <2>3. (b - a) + 1 \in 1 .. Count - a + 1 /\ a + ((b - a) + 1) - 1 = b
      BY <1>1
    <2>4. F[(b - a) + 1] = FieldAt(Pos(b))
      BY <1>1, <2>3
    <2>5. QED
      BY <2>1, <2>2, <2>4 DEF Parsed, F
  <1>4. Parsed(a, Count + 1) = SequentialParse(FieldsFrom(Pos(a)))
    <2>1. (Count + 1) - a = Count - a + 1
      BY <1>1
    <2>2. Prefix(F, Count - a + 1) = F
      BY <1>1 DEF Prefix
    <2>3. QED
      BY <2>1, <2>2 DEF Parsed, F
  <1>5. QED
    BY <1>2, <1>3, <1>4

\* What a thread finds at a real start: a field it can check, skip and, unless
\* it is an empty period_type, parse, up to the next start.
LEMMA RealField ==
  ASSUME Layout, NEW b \in 1 .. Count
  PROVE  /\ HasTag(Pos(b)) /\ After(Pos(b)) = Pos(b + 1) /\ at[Pos(b)].size > 0
         /\ Pos(b + 1) = Pos(b) + at[Pos(b)].size
         /\ InFieldIdSet(at[Pos(b)])
         /\ \A p : WithField(p, Pos(b)) = Apply(p, FieldAt(Pos(b)))
         /\ NoEmptyPeriodType => ~Fails(Pos(b))
  <1> DEFINE c == Pos(b)
             f == at[c]
  <1>1. /\ f \in Fields /\ Pos(b + 1) = c + f.size
        /\ c \in Nat /\ size \in Nat /\ c < size /\ c + f.size <= size
    <2>1. /\ Count \in Nat /\ b \in 1 .. Count + 1 /\ b + 1 \in 1 .. Count + 1
          /\ Count + 1 \in 1 .. Count + 1 /\ Pos(Count + 1) = size
      BY DEF Layout, Pos
    <2>2. c \in 0 .. size /\ Pos(b + 1) \in 0 .. size /\ c < Pos(Count + 1) /\ size \in Nat
      BY <2>1 DEF Layout
    <2>3. f \in Fields /\ Pos(b + 1) = c + f.size
      BY DEF Layout
    <2>4. QED
      BY <2>1, <2>2, <2>3
  <1>2. f.size \in Nat /\ f.tag \in Nat /\ f.size > f.tag
        /\ Known([id |-> f.id, wire |-> f.wire, vals |-> <<1>>])
    BY <1>1, FieldsAssumption
  <1> HIDE DEF f, c
  <1>3. \/ f.id \in Repeated \union {PeriodType} /\ f.wire = Delimited
        \/ f.id \in Scalars /\ f.wire = Varint
        \/ f.id = Comment /\ (f.wire = Delimited \/ f.wire = Varint)
    BY <1>2 DEF Known
  <1>4. f.id # NoTag /\ f.id # Unknown /\ Fits(f) /\ InFieldIdSet(f)
    BY <1>3
    DEF NoTag, Unknown, Fits, InFieldIdSet, Repeated, Scalars, PeriodType, Comment, Varint,
        Delimited
  <1>5. HasTag(c)
    BY <1>1, <1>4 DEF HasTag, f
  <1>6. After(c) = Pos(b + 1)
    BY <1>1, <1>4 DEF After, f
  <1>7. \A p : WithField(p, c) = Apply(p, FieldAt(c))
    BY <1>4 DEF WithField, FieldAt, f
  <1>8. NoEmptyPeriodType => ~Fails(c)
    <2>1. HAVE NoEmptyPeriodType
    <2>2. ~(f.id = PeriodType /\ f.empty)
      BY <1>1, <2>1 DEF NoEmptyPeriodType
    <2>3. f.size # 0 /\ ~(c + f.size > size)
      BY <1>1, <1>2
    <2>4. QED
      BY <1>4, <2>2, <2>3 DEF Fails, f
  <1>9. f.size > 0
    BY <1>2
  <1>10. QED
    BY <1>1, <1>4, <1>5, <1>6, <1>7, <1>8, <1>9 DEF f, c

\* A start is the start of some field; every start that main keeps is one.
LEMMA Starts ==
  ASSUME Layout
  PROVE  /\ Reals = {Pos(k) : k \in 1 .. Count}
         /\ st \subseteq Reals /\ st \subseteq Second
         /\ Count \in Nat \ {0} /\ size \in Nat /\ Pos(Count + 1) = size
         /\ \A p \in Second : p \in Nat /\ p < size /\ p + 1 \in size \div 2 .. size
         /\ \A p \in Reals \union {size} : \E k \in 1 .. Count + 1 : p = Pos(k)
  <1>1. Count \in Nat \ {0} /\ size \in Nat /\ Pos(Count + 1) = size
        /\ DOMAIN starts = 1 .. Count
    BY DEF Layout, Pos
  <1>2. Reals = {Pos(k) : k \in 1 .. Count}
    BY <1>1 DEF Reals, Pos
  <1>3. st \subseteq Reals /\ st \subseteq Second
    BY <1>1 DEF st, Reals
  <1>4. \A p \in Second : p \in Nat /\ p < size /\ p + 1 \in size \div 2 .. size
    BY <1>1 DEF Second
  <1>5. \A p \in Reals \union {size} : \E k \in 1 .. Count + 1 : p = Pos(k)
    BY <1>1, <1>2
  <1>6. QED
    BY <1>1, <1>2, <1>3, <1>4, <1>5

\* Parsing a field keeps the shape of a profile.
LEMMA WithFieldIsProfile ==
  ASSUME NEW p, IsProfile(p), NEW c \in Nat
  PROVE  IsProfile(WithField(p, c))
  <1> DEFINE f == [id |-> at[c].id, wire |-> at[c].wire, vals |-> <<c + 1>>]
  <1>1. SUFFICES IsProfile(Apply(p, f))
    BY DEF WithField
  <1>2. f.vals[1] \in Nat
    OBVIOUS
  <1> HIDE DEF f
  <1>3. PICK s, a, b, d :
          s \in [Repeated -> Seq(Nat)]
          /\ p = [slots |-> s, scalars |-> a, periodType |-> b, comment |-> d]
    BY DEF IsProfile
  <1>4. CASE f.id \in Repeated /\ f.wire = Delimited
    <2>1. Apply(p, f) = [p EXCEPT !.slots[f.id] = Append(s[f.id], f.vals[1])]
      BY SMTT(30), <1>3, <1>4
      DEF Apply, Repeated, Scalars, PeriodType, Comment, Varint, Delimited
    <2>2. Apply(p, f) = [slots |-> [s EXCEPT ![f.id] = Append(s[f.id], f.vals[1])],
                         scalars |-> a, periodType |-> b, comment |-> d]
      BY <1>3, <2>1
    <2>3. Append(s[f.id], f.vals[1]) \in Seq(Nat)
      BY <1>2, <1>3, <1>4
    <2>4. [s EXCEPT ![f.id] = Append(s[f.id], f.vals[1])] \in [Repeated -> Seq(Nat)]
      BY <1>3, <2>3
    <2>5. QED
      BY <2>2, <2>4 DEF IsProfile
  <1>5. CASE ~(f.id \in Repeated /\ f.wire = Delimited)
    <2>1. \E x, y, z : Apply(p, f)
            = [slots |-> s, scalars |-> x, periodType |-> y, comment |-> z]
      <3>1. CASE f.id \in Scalars /\ f.wire = Varint
        <4>1. Apply(p, f) = SetScalar(p, f.id, f.vals[1])
          BY <3>1 DEF Apply, Repeated, Scalars, PeriodType, Comment, Varint, Delimited
        <4>2. QED
          BY <1>3, <4>1 DEF SetScalar
      <3>2. CASE f.id = PeriodType /\ f.wire = Delimited
        <4>1. Apply(p, f) = [p EXCEPT !.periodType = f.vals[1]]
          BY <3>2 DEF Apply, Repeated, Scalars, PeriodType, Comment, Varint, Delimited
        <4>2. QED
          BY <1>3, <4>1
      <3>3. CASE f.id = Comment
        <4>1. Apply(p, f) = [p EXCEPT !.comment = p.comment \o f.vals]
          BY <3>3 DEF Apply, Repeated, Scalars, PeriodType, Comment, Varint, Delimited
        <4>2. QED
          BY <1>3, <4>1
      <3>4. CASE /\ ~(f.id \in Scalars /\ f.wire = Varint)
                 /\ ~(f.id = PeriodType /\ f.wire = Delimited)
                 /\ f.id # Comment
        <4>1. Apply(p, f) = p
          BY <1>5, <3>4 DEF Apply
        <4>2. QED
          BY <1>3, <4>1
      <3>5. QED
        BY <3>1, <3>2, <3>3, <3>4
    <2>2. QED
      BY <1>3, <2>1 DEF IsProfile
  <1>6. QED
    BY <1>4, <1>5

\* A profile without fields has the shape of one.
LEMMA EmptyIsProfile == IsProfile(EmptyProfile)
  BY DEF IsProfile, EmptyProfile

--------------------------------------------------------------------------------
(* The initial states.                                                         *)

\* Every message has its fields one behind the other, and nothing is parsed yet.
LEMMA InitIInv == Init => IInv
  <1> SUFFICES ASSUME Init PROVE IInv
    OBVIOUS
  <1>1. PICK fields \in UNION {[1 .. k -> Fields] : k \in 1 .. MaxFields} :
          \E D : \E strays \in [D -> Strays] : IsMessage(fields, strays)
    BY DEF Init
  <1>2. PICK D : \E strays \in [D -> Strays] : IsMessage(fields, strays)
    BY <1>1
  <1>3. PICK strays \in [D -> Strays] : IsMessage(fields, strays)
    BY <1>2
  <1>4. PICK m \in 1 .. MaxFields : fields \in [1 .. m -> Fields]
    OBVIOUS
  <1>5. Layout
    <2>1. m \in Nat \ {0}
      BY FieldsAssumption
    <2>2. QED
      BY <1>3, <1>4, <2>1, LayoutOf
  <1>6. /\ firstPc = "parse" /\ firstCurr = 0 /\ this = EmptyProfile
        /\ secondPc = "search" /\ i = size \div 2 /\ curr = 0 /\ succskip = 0 /\ hard = FALSE
        /\ prof2 = EmptyProfile /\ prof2Is = "unset"
        /\ mainPc = "joining"
    BY DEF Init
  <1>7. FirstInv
    <2>1. Parsed(1, 1) = EmptyProfile /\ Pos(1) = 0 /\ 1 \in 1 .. Count + 1
      BY <1>5, Starts, ParsedStep DEF Layout
    <2>2. QED
      BY <1>6, <2>1, EmptyIsProfile DEF FirstInv
  <1>8. SecondInv
    <2>1. i \in size \div 2 .. size
      BY <1>5, <1>6, Starts
    <2>2. IsProfile(prof2) /\ hard \in BOOLEAN
      BY <1>6, EmptyIsProfile
    <2>3. succskip \in 0 .. SuccSkipLim + 1 /\ curr \in Nat
      BY <1>6, SuccSkipLimAssumption
    <2>4. secondPc = "search" /\ prof2Is \in {"unset", "live", "deleted"}
      BY <1>6
    <2>5. QED
      BY <2>1, <2>2, <2>3, <2>4 DEF SecondInv
  <1>9. StartInv /\ TrialInv
    BY <1>6 DEF StartInv, TrialInv
  <1>10. SearchInv
    BY <1>5, <1>6, Starts DEF SearchInv, Second
  <1>11. FirstIsComplete /\ SuffixComesTwice
    BY <1>6 DEF FirstIsComplete, SuffixComesTwice
  <1>12. QED
    BY <1>5, <1>7, <1>8, <1>9, <1>10, <1>11 DEF IInv

--------------------------------------------------------------------------------
(* The steps. Nobody writes the message; each thread leaves to the other what  *)
(* is its own.                                                                 *)

\* What is said of the message stays.
LEMMA MessageStays ==
  ASSUME UNCHANGED message
  PROVE  /\ Layout' <=> Layout
         /\ Count' = Count /\ Reals' = Reals /\ st' = st /\ Second' = Second
         /\ \A k : Pos(k)' = Pos(k)
         /\ \A a, b : Parsed(a, b)' = Parsed(a, b)
         /\ (\A p : FieldsFrom(p)' = FieldsFrom(p)) /\ Expected' = Expected
  <1>1. size' = size /\ starts' = starts /\ at' = at
    BY DEF message
  <1>2. Count' = Count /\ Second' = Second
    BY <1>1 DEF Count, Second
  <1>3. \A k : Pos(k)' = Pos(k)
    BY <1>1, <1>2 DEF Pos
  <1>4. Reals' = Reals
    BY <1>1, <1>2 DEF Reals
  <1>5. st' = st
    BY <1>1, <1>2 DEF st
  <1>6. \A p : FieldsFrom(p)' = FieldsFrom(p)
    BY <1>1 DEF FieldsFrom
  <1>7. \A a, b : Parsed(a, b)' = Parsed(a, b)
    BY <1>3, <1>6 DEF Parsed
  <1>8. Expected' = Expected
    BY <1>6 DEF Expected
  <1>9. Layout' <=> Layout
    BY <1>1, <1>2, <1>3 DEF Layout
  <1>10. QED
    BY <1>2, <1>3, <1>4, <1>5, <1>6, <1>7, <1>8, <1>9

\* A step of the first thread is none of the second's business.
LEMMA SecondStays ==
  ASSUME IInv, UNCHANGED <<message, second>>
  PROVE  Layout' /\ SecondInv' /\ StartInv' /\ TrialInv' /\ SearchInv'
  <1>1. UNCHANGED <<secondPc, i, curr, succskip, hard, prof2, prof2Is, size>>
    BY DEF second, message
  <1>2. Layout' /\ Count' = Count /\ Reals' = Reals /\ st' = st /\ Second' = Second
    BY MessageStays DEF IInv
  <1>3. (\A k : Pos(k)' = Pos(k)) /\ \A a, b : Parsed(a, b)' = Parsed(a, b)
    BY MessageStays
  <1>4. SecondInv'
    BY <1>1, <1>2 DEF IInv, SecondInv, IsProfile
  <1>5. StartInv'
    BY <1>1, <1>2 DEF IInv, StartInv
  <1>6. TrialInv'
    BY <1>1, <1>2, <1>3 DEF IInv, TrialInv
  <1>7. SearchInv'
    BY <1>1, <1>2 DEF IInv, SearchInv, NoEmptyPeriodType
  <1>8. QED
    BY <1>2, <1>4, <1>5, <1>6, <1>7

\* And the other way round.
LEMMA FirstStays ==
  ASSUME IInv, UNCHANGED <<message, first>>, mainPc' = mainPc \/ mainPc' = "crashed",
         mainPc = "joining"
  PROVE  Layout' /\ FirstInv' /\ FirstIsComplete' /\ SuffixComesTwice'
  <1>1. UNCHANGED <<firstPc, firstCurr, this>>
    BY DEF first
  <1>2. Layout' /\ Count' = Count
    BY MessageStays DEF IInv
  <1>3. (\A k : Pos(k)' = Pos(k)) /\ \A a, b : Parsed(a, b)' = Parsed(a, b)
    BY MessageStays
  <1>4. FirstInv'
    BY <1>1, <1>2, <1>3 DEF IInv, FirstInv, IsProfile, NoEmptyPeriodType
  <1>5. FirstIsComplete' /\ SuffixComesTwice'
    BY DEF FirstIsComplete, SuffixComesTwice
  <1>6. QED
    BY <1>2, <1>4, <1>5

\* The first thread parses the next field of the message.
LEMMA FirstParseStep ==
  ASSUME IInv, mainPc = "joining", FirstParse
  PROVE  IInv'
  <1>1. /\ firstPc = "parse" /\ GoesOn(firstCurr)
        /\ this' = WithField(this, firstCurr) /\ firstCurr' = After(firstCurr)
        /\ UNCHANGED <<message, firstPc, second, mainPc>>
    BY DEF FirstParse
  <1>2. Layout' /\ SecondInv' /\ StartInv' /\ TrialInv' /\ SearchInv'
    BY <1>1, SecondStays
  <1>3. PICK a \in 1 .. Count + 1 : firstCurr = Pos(a) /\ this = Parsed(1, a)
    BY DEF IInv, FirstInv
  <1>4. a \in 1 .. Count
    <2>1. firstCurr # size
      <3>1. firstCurr < size
        BY <1>1 DEF GoesOn, AtEnd, HasTag
      <3>2. size \in Nat
        BY DEF IInv, Layout
      <3>3. QED
        BY <3>1, <3>2
    <2>2. QED
      BY <1>3, <2>1, Starts DEF IInv
  <1>5. 1 \in 1 .. Count /\ a \in 1 .. Count /\ a + 1 \in 1 .. Count + 1
    BY <1>4, Starts DEF IInv
  <1>6. firstCurr' = Pos(a + 1)
    BY <1>1, <1>3, <1>4, RealField DEF IInv
  <1>7. this' = Parsed(1, a + 1)
    BY <1>1, <1>3, <1>4, <1>5, RealField, ParsedStep DEF IInv
  <1>8. IsProfile(this')
    <2>1. firstCurr \in Nat
      BY <1>3 DEF IInv, Layout
    <2>2. QED
      BY <1>1, <2>1, WithFieldIsProfile DEF IInv, FirstInv
  <1>9. FirstInv'
    <2>1. IsProfile(this)'
      BY <1>8 DEF IsProfile
    <2>2. Count' = Count /\ Pos(a + 1)' = Pos(a + 1) /\ Parsed(1, a + 1)' = Parsed(1, a + 1)
      BY <1>1, MessageStays
    <2>3. firstPc' = "parse" /\ mainPc' = "joining"
      BY <1>1
    <2>4. QED
      BY <1>5, <1>6, <1>7, <2>1, <2>2, <2>3 DEF FirstInv
  <1>10. FirstIsComplete' /\ SuffixComesTwice'
    BY <1>1 DEF FirstIsComplete, SuffixComesTwice
  <1>11. QED
    BY <1>2, <1>9, <1>10 DEF IInv

\* It stops at the end only, unless a period_type is empty.
LEMMA FirstEndStep ==
  ASSUME IInv, mainPc = "joining", FirstEnd
  PROVE  IInv'
  <1>1. /\ firstPc' = "done" /\ ~GoesOn(firstCurr)
        /\ UNCHANGED <<message, firstCurr, this, second, mainPc>>
    BY DEF FirstEnd
  <1>2. Layout' /\ SecondInv' /\ StartInv' /\ TrialInv' /\ SearchInv'
    BY <1>1, SecondStays
  <1>3. PICK a \in 1 .. Count + 1 : firstCurr = Pos(a) /\ this = Parsed(1, a)
    BY DEF IInv, FirstInv
  <1>4. NoEmptyPeriodType => a = Count + 1
    <2>1. HAVE NoEmptyPeriodType
    <2>2. a \notin 1 .. Count
      BY <1>1, <1>3, <2>1, RealField DEF IInv, GoesOn, AtEnd
    <2>3. QED
      BY <2>2, Starts DEF IInv
  <1>5. FirstInv'
    <2>1. IsProfile(this)'
      BY <1>1 DEF IInv, FirstInv, IsProfile
    <2>2. Count' = Count /\ Pos(a)' = Pos(a) /\ Parsed(1, a)' = Parsed(1, a)
      BY <1>1, MessageStays
    <2>3. mainPc' = "joining"
      BY <1>1
    <2>4. QED
      BY <1>1, <1>3, <1>4, <2>1, <2>2, <2>3 DEF FirstInv, NoEmptyPeriodType
  <1>6. FirstIsComplete' /\ SuffixComesTwice'
    BY <1>1 DEF FirstIsComplete, SuffixComesTwice
  <1>7. QED
    BY <1>2, <1>5, <1>6 DEF IInv

\* Where the second thread is when its position is a start of the message: at a
\* start, or at the end.
LEMMA SecondAtStart ==
  ASSUME IInv, secondPc \in {"check", "trial"}, i \in Reals, ~AtEnd(curr)
  PROVE  \E b \in 1 .. Count : curr = Pos(b)
  <1>1. curr \in Reals \union {size}
    BY DEF IInv, StartInv
  <1>2. curr < size /\ size \in Nat
    BY DEF AtEnd, HasTag, IInv, Layout
  <1>3. QED
    BY <1>1, <1>2, Starts DEF IInv

\* A position is left behind: if it is no start that would have been taken,
\* nothing is lost.
LEMMA RejectStep ==
  ASSUME IInv, Reject, secondPc \in {"check", "trial", "accepted"},
         UNCHANGED <<message, curr, succskip, hard, prof2>>,
         prof2Is' \in {"unset", "live", "deleted"},
         NoEmptyPeriodType => i \notin st
  PROVE  SecondInv' /\ StartInv' /\ TrialInv' /\ SearchInv'
  <1>1. /\ secondPc' = "search" /\ i' = i + 1
        /\ UNCHANGED <<curr, succskip, hard, prof2, size>>
    BY DEF Reject, message
  <1>2. Count' = Count /\ st' = st /\ Second' = Second
    BY MessageStays
  <1>3. i \in Second
    BY DEF IInv, SecondInv
  <1>4. i \in Nat /\ i + 1 \in size \div 2 .. size
    BY <1>3, Starts DEF IInv
  <1>5. SecondInv'
    <2>1. IsProfile(prof2)'
      BY <1>1 DEF IInv, SecondInv, IsProfile
    <2>2. succskip' \in 0 .. SuccSkipLim + 1 /\ curr' \in Nat /\ hard' \in BOOLEAN
      BY <1>1 DEF IInv, SecondInv
    <2>3. i' \in size' \div 2 .. size'
      BY <1>1, <1>4
    <2>4. QED
      BY <1>1, <2>1, <2>2, <2>3 DEF SecondInv
  <1>6. StartInv' /\ TrialInv'
    BY <1>1 DEF StartInv, TrialInv
  <1>7. SearchInv'
    <2>1. ASSUME NoEmptyPeriodType, NEW m \in st
          PROVE  i + 1 <= m
      <3>1. i <= m /\ i # m
        BY <2>1 DEF IInv, SearchInv
      <3>2. m \in Nat
        BY Starts DEF IInv
      <3>3. QED
        BY <1>4, <3>1, <3>2
    <2>2. QED
      BY <1>1, <1>2, <2>1 DEF SearchInv, NoEmptyPeriodType
  <1>8. QED
    BY <1>5, <1>6, <1>7

\* checkValidStart begins with a field, or the search is over.
LEMMA SearchStep ==
  ASSUME IInv, Search \/ SearchEnds
  PROVE  SecondInv' /\ StartInv' /\ TrialInv' /\ SearchInv'
  <1>1. /\ secondPc = "search" /\ i' = i /\ size' = size
        /\ UNCHANGED <<message, prof2, prof2Is>>
    BY DEF Search, SearchEnds, message
  <1>2. /\ Count' = Count /\ Reals' = Reals /\ st' = st /\ Second' = Second
        /\ \A k : Pos(k)' = Pos(k)
    BY <1>1, MessageStays
  <1>3. i \in size \div 2 .. size /\ IsProfile(prof2) /\ prof2Is \in {"unset", "live", "deleted"}
        /\ curr \in Nat /\ succskip \in 0 .. SuccSkipLim + 1 /\ hard \in BOOLEAN
    BY DEF IInv, SecondInv
  <1>4. i \in Nat /\ size \in Nat
    BY <1>3, Starts DEF IInv
  <1>5. IsProfile(prof2)' /\ prof2Is' \in {"unset", "live", "deleted"}
    BY <1>1, <1>3 DEF IsProfile
  <1>6. SearchInv'
    BY <1>1, <1>2 DEF IInv, SearchInv, NoEmptyPeriodType
  <1>7. CASE Search
    <2>1. secondPc' = "check" /\ curr' = i /\ succskip' = 0 /\ hard' = FALSE /\ i \in Second
      BY <1>7 DEF Search
    <2>2. succskip' \in 0 .. SuccSkipLim + 1
      BY <2>1, SuccSkipLimAssumption
    <2>3. curr' \in Nat /\ curr' >= i'
      BY <1>1, <1>4, <2>1
    <2>4. SecondInv'
      BY <1>1, <1>2, <1>3, <1>5, <2>1, <2>2, <2>3 DEF SecondInv
    <2>5. StartInv' /\ TrialInv'
      BY <1>1, <1>2, <2>1 DEF StartInv, TrialInv
    <2>6. QED
      BY <1>6, <2>4, <2>5
  <1>8. CASE SearchEnds
    <2>1. secondPc' = "done" /\ i \notin Second /\ UNCHANGED <<curr, succskip, hard>>
      BY <1>8 DEF SearchEnds
    <2>2. SecondInv'
      BY <1>1, <1>2, <1>3, <1>5, <2>1 DEF SecondInv
    <2>3. ASSUME NEW a \in 1 .. Count
          PROVE  i # Pos(a)
      <3>1. i = size
        BY <1>3, <1>4, <2>1 DEF Second
      <3>2. HasTag(Pos(a))
        BY RealField DEF IInv
      <3>3. QED
        BY <1>4, <3>1, <3>2 DEF HasTag
    <2>4. StartInv' /\ TrialInv'
      BY <1>1, <1>2, <2>1, <2>3 DEF StartInv, TrialInv
    <2>5. QED
      BY <1>6, <2>2, <2>4
  <1>9. QED
    BY <1>7, <1>8

\* checkValidStart is not false for a real start: what it skips are fields.
LEMMA CheckRejectsStep ==
  ASSUME IInv, CheckRejects
  PROVE  SecondInv' /\ StartInv' /\ TrialInv' /\ SearchInv'
  <1>1. /\ secondPc = "check" /\ ~AtEnd(curr) /\ Reject
        /\ ~(InFieldIdSet(at[curr]) /\ at[curr].size > 0)
        /\ UNCHANGED <<message, curr, succskip, hard, prof2, prof2Is>>
    BY DEF CheckRejects
  <1>2. i \notin st
    <2>1. SUFFICES ASSUME i \in st PROVE FALSE
      OBVIOUS
    <2>2. PICK b \in 1 .. Count : curr = Pos(b)
      BY <1>1, <2>1, Starts, SecondAtStart DEF IInv
    <2>3. QED
      BY <1>1, <2>2, RealField DEF IInv
  <1>3. prof2Is' \in {"unset", "live", "deleted"}
    BY <1>1 DEF IInv, SecondInv
  <1>4. QED
    BY <1>1, <1>2, <1>3, RejectStep

\* A field is skipped; or the hard check begins, at the position itself.
LEMMA CheckSkipsStep ==
  ASSUME IInv, CheckSkips
  PROVE  SecondInv' /\ StartInv' /\ TrialInv' /\ SearchInv'
  <1>1. /\ secondPc = "check" /\ secondPc' = secondPc /\ ~AtEnd(curr)
        /\ curr' = curr + at[curr].size /\ size' = size
        /\ UNCHANGED <<message, i, hard, prof2, prof2Is>>
    BY DEF CheckSkips, CanSkip, message
  <1>2. /\ Count' = Count /\ Reals' = Reals /\ st' = st /\ Second' = Second
        /\ \A k : Pos(k)' = Pos(k)
    BY <1>1, MessageStays
  <1>3. succskip' \in 0 .. SuccSkipLim + 1
    <2>1. succskip \in 0 .. SuccSkipLim + 1 /\ SuccSkipLim \in Nat
      BY SuccSkipLimAssumption DEF IInv, SecondInv
    <2>2. CASE at[curr].wire = Delimited
      <3>1. succskip <= SuccSkipLim /\ succskip' = succskip + 1
        BY <2>2 DEF CheckSkips
      <3>2. QED
        BY <2>1, <3>1
    <2>3. CASE at[curr].wire # Delimited
      <3>1. succskip' = succskip + 0
        BY <2>3 DEF CheckSkips
      <3>2. QED
        BY <2>1, <3>1
    <2>4. QED
      BY <2>2, <2>3
  <1>4. curr' \in Nat /\ curr' >= i
    <2>1. curr \in Nat /\ curr >= i /\ i \in Second
      BY <1>1 DEF IInv, SecondInv
    <2>2. at[curr].size \in Nat /\ i \in Nat
      BY <1>1, <2>1, Starts DEF AtEnd, HasTag, IInv, Layout
    <2>3. QED
      BY <1>1, <2>1, <2>2
  <1>5. SecondInv'
    <2>1. IsProfile(prof2)'
      BY <1>1 DEF IInv, SecondInv, IsProfile
    <2>2. i' \in size' \div 2 .. size' /\ i \in Second /\ hard' \in BOOLEAN
          /\ prof2Is' \in {"unset", "live", "deleted"}
      BY <1>1 DEF IInv, SecondInv
    <2>3. QED
      BY <1>1, <1>2, <1>3, <1>4, <2>1, <2>2 DEF SecondInv
  <1>6. StartInv'
    <2>1. ASSUME i \in Reals
          PROVE  curr' \in Reals \union {size}
      <3>1. PICK b \in 1 .. Count : curr = Pos(b)
        BY <1>1, <2>1, SecondAtStart
      <3>2. curr' = Pos(b + 1)
        BY <1>1, <3>1, RealField DEF IInv
      <3>3. CASE b = Count
        BY <3>2, <3>3, Starts DEF IInv
      <3>4. CASE b # Count
        <4>1. b + 1 \in 1 .. Count
          BY <3>4, Starts DEF IInv
        <4>2. QED
          BY <3>2, <4>1, Starts DEF IInv
      <3>5. QED
        BY <3>3, <3>4
    <2>2. QED
      BY <1>1, <1>2, <2>1 DEF StartInv
  <1>7. TrialInv' /\ SearchInv'
    BY <1>1, <1>2 DEF IInv, TrialInv, SearchInv, NoEmptyPeriodType
  <1>8. QED
    BY <1>5, <1>6, <1>7

\* A trial begins with a profile of its own.
LEMMA BeginTrialStep ==
  ASSUME IInv, BeginTrial
  PROVE  SecondInv' /\ StartInv' /\ TrialInv' /\ SearchInv'
  <1>1. /\ secondPc = "check" /\ secondPc' = "trial" /\ curr' = i /\ hard' = TRUE
        /\ prof2' = EmptyProfile /\ prof2Is' = "live"
        /\ size' = size /\ UNCHANGED <<message, i, succskip>>
    BY DEF BeginTrial, CanSkip, message
  <1>2. /\ Count' = Count /\ Reals' = Reals /\ st' = st /\ Second' = Second
        /\ \A k : Pos(k)' = Pos(k)
        /\ \A a, b : Parsed(a, b)' = Parsed(a, b)
    BY <1>1, MessageStays
  <1>3. /\ i \in Second /\ i \in size \div 2 .. size /\ succskip \in 0 .. SuccSkipLim + 1
        /\ i \in Nat
    BY <1>1, Starts DEF IInv, SecondInv
  <1>4. SecondInv'
    <2>1. IsProfile(prof2)'
      <3>1. IsProfile(prof2')
        BY <1>1, EmptyIsProfile
      <3>2. QED
        BY <3>1 DEF IsProfile
    <2>2. curr' \in Nat /\ curr' >= i' /\ hard' \in BOOLEAN
      BY <1>1, <1>3
    <2>3. QED
      BY <1>1, <1>2, <1>3, <2>1, <2>2 DEF SecondInv
  <1>5. StartInv'
    BY <1>1, <1>2 DEF StartInv
  <1>6. TrialInv'
    <2>1. ASSUME NEW a \in 1 .. Count, i = Pos(a)
          PROVE  \E b \in a .. Count + 1 : curr' = Pos(b) /\ prof2' = Parsed(a, b)
      <3>1. a \in a .. Count + 1
        BY Starts DEF IInv
      <3>2. prof2' = Parsed(a, a)
        BY <1>1, ParsedStep DEF IInv
      <3>3. QED
        BY <1>1, <2>1, <3>1, <3>2
    <2>2. QED
      BY <1>1, <1>2, <2>1 DEF TrialInv
  <1>7. SearchInv'
    BY <1>1, <1>2 DEF IInv, SearchInv, NoEmptyPeriodType
  <1>8. QED
    BY <1>4, <1>5, <1>6, <1>7

\* The message ends before the hard check.
LEMMA CheckEndsStep ==
  ASSUME IInv, CheckEnds
  PROVE  SecondInv' /\ StartInv' /\ TrialInv' /\ SearchInv'
  <1>1. /\ secondPc = "check" /\ secondPc' = "accepted" /\ size' = size
        /\ UNCHANGED <<message, i, curr, succskip, hard, prof2, prof2Is>>
    BY DEF CheckEnds, message
  <1>2. /\ Count' = Count /\ Reals' = Reals /\ st' = st /\ Second' = Second
    BY <1>1, MessageStays
  <1>3. ~hard
    BY <1>1 DEF IInv, TrialInv
  <1>4. SecondInv'
    BY <1>1, <1>2 DEF IInv, SecondInv, IsProfile
  <1>5. StartInv' /\ TrialInv' /\ SearchInv'
    BY <1>1, <1>2, <1>3 DEF IInv, StartInv, TrialInv, SearchInv, NoEmptyPeriodType
  <1>6. QED
    BY <1>4, <1>5

\* The trial parses a field; from a real start, the next field of the message.
LEMMA TrialParseStep ==
  ASSUME IInv, TrialParse
  PROVE  SecondInv' /\ StartInv' /\ TrialInv' /\ SearchInv'
  <1>1. /\ secondPc = "trial" /\ secondPc' = secondPc /\ GoesOn(curr)
        /\ prof2' = WithField(prof2, curr) /\ curr' = After(curr) /\ size' = size
        /\ UNCHANGED <<message, i, succskip, hard, prof2Is>>
    BY DEF TrialParse, message
  <1>2. /\ Count' = Count /\ Reals' = Reals /\ st' = st /\ Second' = Second
        /\ \A k : Pos(k)' = Pos(k)
        /\ \A a, b : Parsed(a, b)' = Parsed(a, b)
    BY <1>1, MessageStays
  <1>3. curr \in Nat /\ curr >= i /\ curr < size /\ i \in Nat /\ size \in Nat
        /\ ~AtEnd(curr)
    BY <1>1, Starts DEF IInv, SecondInv, GoesOn, AtEnd, HasTag
  <1>4. curr' \in Nat /\ curr' >= i
    <2>1. at[curr].size \in Nat /\ at[curr].tag \in Nat
      BY <1>3 DEF IInv, Layout
    <2>2. \E d \in Nat : curr' = curr + d
      BY <1>1, <2>1 DEF After
    <2>3. QED
      BY <1>3, <2>2
  <1>5. SecondInv'
    <2>1. IsProfile(prof2')
      BY <1>1, <1>3, WithFieldIsProfile DEF IInv, SecondInv
    <2>2. IsProfile(prof2)'
      BY <2>1 DEF IsProfile
    <2>3. /\ i' \in size' \div 2 .. size' /\ i' \in Second' /\ hard' \in BOOLEAN
          /\ succskip' \in 0 .. SuccSkipLim + 1
          /\ prof2Is' \in {"unset", "live", "deleted"}
      BY <1>1, <1>2 DEF IInv, SecondInv
    <2>4. QED
      BY <1>1, <1>4, <2>2, <2>3 DEF SecondInv
  <1>6. ASSUME NEW a \in 1 .. Count, i = Pos(a)
        PROVE  \E b \in a .. Count + 1 :
                 curr' = Pos(b) /\ prof2' = Parsed(a, b)
    <2>1. PICK b \in a .. Count + 1 : curr = Pos(b) /\ prof2 = Parsed(a, b)
      BY <1>1, <1>6 DEF IInv, TrialInv
    <2>2. Count \in Nat /\ Pos(Count + 1) = size
      BY Starts DEF IInv
    <2>3. b \in a .. Count /\ b \in 1 .. Count /\ b + 1 \in a .. Count + 1
      <3>1. b # Count + 1
        BY <1>3, <2>1, <2>2
      <3>2. QED
        BY <2>2, <3>1
    <2>4. curr' = Pos(b + 1)
      BY <1>1, <2>1, <2>3, RealField DEF IInv
    <2>5. prof2' = Apply(prof2, FieldAt(Pos(b)))
      BY <1>1, <2>1, <2>3, RealField DEF IInv
    <2>6. prof2' = Parsed(a, b + 1)
      BY <2>1, <2>3, <2>5, ParsedStep DEF IInv
    <2>7. QED
      BY <2>3, <2>4, <2>6
  <1>7. StartInv'
    <2>1. ASSUME i \in Reals
          PROVE  curr' \in Reals \union {size}
      <3>1. PICK a \in 1 .. Count : i = Pos(a)
        BY <2>1, Starts DEF IInv
      <3>2. PICK b \in a .. Count + 1 : curr' = Pos(b)
        BY <1>6, <3>1
      <3>3. b = Count + 1 \/ b \in 1 .. Count
        BY Starts DEF IInv
      <3>4. QED
        BY <3>2, <3>3, Starts DEF IInv
    <2>2. QED
      BY <1>1, <1>2, <2>1 DEF StartInv
  <1>8. TrialInv'
    BY <1>1, <1>2, <1>6 DEF TrialInv
  <1>9. SearchInv'
    BY <1>1, <1>2 DEF IInv, SearchInv, NoEmptyPeriodType
  <1>10. QED
    BY <1>5, <1>7, <1>8, <1>9

\* The trial of a real start does not fail.
LEMMA TrialFailsStep ==
  ASSUME IInv, TrialFails
  PROVE  SecondInv' /\ StartInv' /\ TrialInv' /\ SearchInv'
  <1>1. /\ secondPc = "trial" /\ ~AtEnd(curr) /\ Fails(curr) /\ Reject
        /\ prof2Is' = "deleted"
        /\ UNCHANGED <<message, curr, succskip, hard, prof2>>
    BY DEF TrialFails
  <1>2. NoEmptyPeriodType => i \notin st
    <2>1. SUFFICES ASSUME NoEmptyPeriodType, i \in st PROVE FALSE
      OBVIOUS
    <2>2. PICK b \in 1 .. Count : curr = Pos(b)
      BY <1>1, <2>1, Starts, SecondAtStart DEF IInv
    <2>3. QED
      BY <1>1, <2>1, <2>2, RealField DEF IInv
  <1>3. QED
    BY <1>1, <1>2, RejectStep

\* The trial of a real start ends with all the fields from there on.
LEMMA TrialEndsStep ==
  ASSUME IInv, TrialEnds
  PROVE  SecondInv' /\ StartInv' /\ TrialInv' /\ SearchInv'
  <1>1. /\ secondPc = "trial" /\ secondPc' = "accepted" /\ size' = size /\ AtEnd(curr)
        /\ UNCHANGED <<message, i, curr, succskip, hard, prof2, prof2Is>>
    BY DEF TrialEnds, message
  <1>2. /\ Count' = Count /\ Reals' = Reals /\ st' = st /\ Second' = Second
        /\ \A k : Pos(k)' = Pos(k)
        /\ \A a, b : Parsed(a, b)' = Parsed(a, b)
    BY <1>1, MessageStays
  <1>3. SecondInv'
    BY <1>1, <1>2 DEF IInv, SecondInv, IsProfile
  <1>4. ASSUME NEW a \in 1 .. Count, i = Pos(a)
        PROVE  prof2 = Parsed(a, Count + 1)
    <2>1. PICK b \in a .. Count + 1 : curr = Pos(b) /\ prof2 = Parsed(a, b)
      BY <1>1, <1>4 DEF IInv, TrialInv
    <2>2. b \notin 1 .. Count
      BY <1>1, <2>1, RealField DEF IInv, AtEnd
    <2>3. b = Count + 1
      BY <2>2, Starts DEF IInv
    <2>4. QED
      BY <2>1, <2>3
  <1>5. TrialInv'
    BY <1>1, <1>2, <1>4 DEF TrialInv
  <1>6. StartInv' /\ SearchInv'
    BY <1>1, <1>2 DEF IInv, StartInv, SearchInv, NoEmptyPeriodType
  <1>7. QED
    BY <1>3, <1>5, <1>6

\* A position that is in st is the second thread's result.
LEMMA AcceptStep ==
  ASSUME IInv, Accept
  PROVE  SecondInv' /\ StartInv' /\ TrialInv' /\ SearchInv'
  <1>1. /\ secondPc = "accepted" /\ secondPc' = "done" /\ size' = size /\ i \in st
        /\ UNCHANGED <<message, i, curr, succskip, hard, prof2, prof2Is>>
    BY DEF Accept, message
  <1>2. /\ Count' = Count /\ Reals' = Reals /\ st' = st /\ Second' = Second
        /\ \A k : Pos(k)' = Pos(k)
        /\ \A a, b : Parsed(a, b)' = Parsed(a, b)
    BY <1>1, MessageStays
  <1>3. SecondInv'
    BY <1>1, <1>2 DEF IInv, SecondInv, IsProfile
  <1>4. StartInv' /\ TrialInv' /\ SearchInv'
    BY <1>1, <1>2 DEF IInv, StartInv, TrialInv, SearchInv, NoEmptyPeriodType
  <1>5. QED
    BY <1>3, <1>4

\* A false positive is none of the starts in st.
LEMMA FalsePositiveStep ==
  ASSUME IInv, FalsePositive
  PROVE  SecondInv' /\ StartInv' /\ TrialInv' /\ SearchInv'
  <1>1. /\ secondPc = "accepted" /\ i \notin st /\ Reject
        /\ UNCHANGED <<message, curr, succskip, hard, prof2, prof2Is>>
    BY DEF FalsePositive
  <1>2. prof2Is' \in {"unset", "live", "deleted"}
    BY <1>1 DEF IInv, SecondInv
  <1>3. QED
    BY <1>1, <1>2, RejectStep

\* Whatever the second thread does.
LEMMA SecondThreadStep ==
  ASSUME IInv, SecondThread
  PROVE  IInv'
  <1>1. mainPc = "joining"
    BY DEF SecondThread
  <1>2. UNCHANGED <<message, first>> /\ (mainPc' = mainPc \/ mainPc' = "crashed")
    BY DEF SecondThread, Search, SearchEnds, CheckRejects, CheckSkips, BeginTrial,
           CheckEnds, TrialParse, TrialOverruns, TrialFails, TrialEnds, Accept,
           FalsePositive
  <1>3. Layout' /\ FirstInv' /\ FirstIsComplete' /\ SuffixComesTwice'
    BY <1>1, <1>2, FirstStays
  <1>4. SecondInv' /\ StartInv' /\ TrialInv' /\ SearchInv'
    <2>1. CASE Search \/ SearchEnds
      BY <2>1, SearchStep
    <2>2. CASE CheckRejects
      BY <2>2, CheckRejectsStep
    <2>3. CASE CheckSkips
      BY <2>3, CheckSkipsStep
    <2>4. CASE BeginTrial
      BY <2>4, BeginTrialStep
    <2>5. CASE CheckEnds
      BY <2>5, CheckEndsStep
    <2>6. CASE TrialParse
      BY <2>6, TrialParseStep
    <2>7. CASE TrialOverruns
      <3>1. UNCHANGED <<message, second>>
        BY <2>7 DEF TrialOverruns
      <3>2. QED
        BY <3>1, SecondStays
    <2>8. CASE TrialFails
      BY <2>8, TrialFailsStep
    <2>9. CASE TrialEnds
      BY <2>9, TrialEndsStep
    <2>10. CASE Accept
      BY <2>10, AcceptStep
    <2>11. CASE FalsePositive
      BY <2>11, FalsePositiveStep
    <2>12. QED
      BY <2>1, <2>2, <2>3, <2>4, <2>5, <2>6, <2>7, <2>8, <2>9, <2>10, <2>11
      DEF SecondThread
  <1>5. QED
    BY <1>3, <1>4 DEF IInv

\* What is left in prof2 of a checked start.
LEMMA CheckedStart ==
  ASSUME IInv, secondPc = "done", i \in Second, hard
  PROVE  prof2 = SequentialParse(FieldsFrom(i))
  <1>1. i \in st
    BY DEF IInv, SecondInv
  <1>2. PICK a \in 1 .. Count : i = Pos(a)
    BY <1>1, Starts DEF IInv
  <1>3. prof2 = Parsed(a, Count + 1)
    BY <1>2 DEF IInv, TrialInv
  <1>4. QED
    BY <1>2, <1>3, ParsedStep DEF IInv

\* Parsing all the fields is parsing the message.
LEMMA WholeIsExpected ==
  ASSUME IInv
  PROVE  Parsed(1, Count + 1) = Expected
  <1>1. 1 \in 1 .. Count /\ Pos(1) = 0
    BY Starts DEF IInv, Layout
  <1>2. QED
    BY <1>1, ParsedStep DEF IInv, Expected

\* A field of the message, with its position for a value, is one that the lemmas
\* on SequentialParse are about.
LEMMA FieldAtIsField ==
  ASSUME Layout, NEW k \in 1 .. Count
  PROVE  IsField(FieldAt(Pos(k)))
  <1> DEFINE f == at[Pos(k)]
             v == Pos(k) + 1
  <1>1. Known([id |-> f.id, wire |-> f.wire, vals |-> <<1>>])
    BY FieldsAssumption DEF Layout
  <1>2. v \in Nat \ {0}
    <2>1. Pos(k) \in 0 .. size /\ size \in Nat
      BY DEF Layout
    <2>2. QED
      BY <2>1
  <1>3. FieldAt(Pos(k)) = [id |-> f.id, wire |-> f.wire, vals |-> <<v>>]
    BY DEF FieldAt
  <1> HIDE DEF f, v
  <1>4. <<v>> \in Seq(Nat \ {0}) /\ Len(<<v>>) = 1 /\ Len(<<1>>) = 1
    BY <1>2
  <1>5. Known([id |-> f.id, wire |-> f.wire, vals |-> <<v>>])
    BY <1>1, <1>4 DEF Known
  <1>6. QED
    BY <1>3, <1>4, <1>5 DEF IsField

\* A checked start cuts the message in two: its profile is the second piece.
LEMMA SuffixOfExpected ==
  ASSUME IInv, secondPc = "done", i \in Second, hard
  PROVE  \E p \in Profiles : prof2 \in Profiles /\ Expected = MergeOf(p, prof2)
  <1>1. i \in st
    BY DEF IInv, SecondInv
  <1>2. PICK a \in 1 .. Count : i = Pos(a)
    BY <1>1, Starts DEF IInv
  <1>3. Count \in Nat \ {0} /\ 1 \in 1 .. Count /\ Pos(1) = 0 /\ Layout
    BY Starts DEF IInv, Layout
  <1> DEFINE m == FieldsFrom(0)
             b == FieldsFrom(i)
             n == Count
  <1>4. m = [l \in 1 .. n |-> FieldAt(Pos(l))]
    <2>1. m = [l \in 1 .. Count - 1 + 1 |-> FieldAt(Pos(1 + l - 1))]
      BY <1>3, FieldsFromStart
    <2>2. Count - 1 + 1 = Count /\ \A l \in 1 .. Count : 1 + l - 1 = l
      BY <1>3
    <2>3. QED
      BY <2>1, <2>2
  <1>5. b = [l \in 1 .. n - a + 1 |-> FieldAt(Pos(a + l - 1))]
    BY <1>2, <1>3, FieldsFromStart
  <1> HIDE DEF m, b
  <1>6. m = [l \in 1 .. n |-> m[l]] /\ \A l \in 1 .. n : IsField(m[l])
    BY <1>3, <1>4, FieldAtIsField
  <1>7. a - 1 \in 0 .. n /\ n \in Nat
    BY <1>3
  <1>8. Behind(m, a - 1, n) = b
    <2>1. n - (a - 1) = n - a + 1
          /\ \A l \in 1 .. n - a + 1 : (a - 1) + l = a + l - 1 /\ (a - 1) + l \in 1 .. n
      BY <1>3
    <2>2. \A l \in 1 .. n - a + 1 : m[(a - 1) + l] = FieldAt(Pos(a + l - 1))
      BY <1>4, <2>1
    <2>3. QED
      BY <1>5, <2>1, <2>2 DEF Behind
  <1> DEFINE p == SequentialParse(Prefix(m, a - 1))
  <1>9. p \in Profiles
    BY <1>6, <1>7, ParseTyped
  <1>10. SequentialParse(b) \in Profiles
    <2>1. n - a + 1 \in Nat /\ \A l \in 1 .. n - a + 1 : IsField(b[l])
      <3>1. \A l \in 1 .. n - a + 1 : a + l - 1 \in 1 .. n
        BY <1>3
      <3>2. QED
        BY <1>3, <1>5, <3>1, FieldAtIsField
    <2>2. Prefix(b, n - a + 1) = b
      BY <1>5 DEF Prefix
    <2>3. n - a + 1 \in 0 .. n - a + 1
      BY <2>1
    <2>4. SequentialParse(Prefix(b, n - a + 1)) \in Profiles
      BY <2>1, <2>3, ParseTyped
    <2>5. QED
      BY <2>2, <2>4
  <1>11. SequentialParse(m) = MergeOf(p, SequentialParse(b))
    BY <1>6, <1>7, <1>8, PiecesMerge
  <1>12. prof2 = SequentialParse(b)
    BY CheckedStart DEF b
  <1>13. QED
    BY <1>9, <1>10, <1>11, <1>12 DEF Expected, m

\* The records of q behind those of w.
WithRecords(w, q) == [w EXCEPT !.slots = [id \in Repeated |-> @[id] \o q.slots[id]]]

\* Merged with its own second piece, a profile has that piece's records twice, and
\* keeps all the rest: what the piece has once, the profile has from it.
LEMMA MergeOfSuffix ==
  ASSUME NEW p \in Profiles, NEW q \in Profiles, NEW w, w = MergeOf(p, q)
  PROVE  Merged(w, q) = WithRecords(w, q)
  <1>1. /\ w.scalars = [id \in Scalars |->
                          IF q.scalars[id] = 0 THEN p.scalars[id] ELSE q.scalars[id]]
        /\ w.periodType = (IF q.periodType = 0 THEN p.periodType ELSE q.periodType)
        /\ w = [slots |-> w.slots, scalars |-> w.scalars, periodType |-> w.periodType,
                comment |-> w.comment]
    BY DEF MergeOf
  <1>2. [id \in Scalars |-> IF w.scalars[id] = 0 THEN q.scalars[id] ELSE w.scalars[id]] = w.scalars
    <2>1. \A id \in Scalars : w.scalars[id] = 0 => q.scalars[id] = 0
      BY <1>1
    <2>2. QED
      BY <1>1, <2>1
  <1>3. (IF w.periodType = 0 THEN q.periodType ELSE w.periodType) = w.periodType
    BY <1>1
  <1>4. Merged(w, q) = [slots |-> [id \in Repeated |-> w.slots[id] \o q.slots[id]],
                        scalars |-> w.scalars, periodType |-> w.periodType,
                        comment |-> w.comment]
    BY <1>2, <1>3 DEF Merged
  <1> DEFINE t == [id \in Repeated |-> w.slots[id] \o q.slots[id]]
  <1>5. [w EXCEPT !.slots = t] = [slots |-> t, scalars |-> w.scalars,
                                  periodType |-> w.periodType, comment |-> w.comment]
    <2> HIDE DEF t
    <2>1. QED
      BY <1>1
  <1>6. QED
    BY <1>4, <1>5 DEF WithRecords

\* MergeParallel appends to the whole message what prof2 has.
LEMMA MergeParallelStep ==
  ASSUME IInv, MergeParallel
  PROVE  IInv'
  <1>1. /\ mainPc = "joining" /\ firstPc = "done" /\ this' = Merged(this, prof2)
        /\ mainPc' = "merged" /\ UNCHANGED <<message, firstPc, firstCurr, second>>
    BY DEF MergeParallel, Joined
  <1>2. Layout' /\ SecondInv' /\ StartInv' /\ TrialInv' /\ SearchInv'
    BY <1>1, SecondStays
  <1>3. Count' = Count /\ (\A k : Pos(k)' = Pos(k)) /\ Expected' = Expected
    BY <1>1, MessageStays
  <1>4. IsProfile(this) /\ IsProfile(prof2)
    BY DEF IInv, FirstInv, SecondInv
  <1>5. /\ this'.slots = [id \in Repeated |-> this.slots[id] \o prof2.slots[id]]
        /\ this'.comment = this.comment
    BY <1>1 DEF Merged
  <1>6. IsProfile(this)'
    <2>1. this'.slots \in [Repeated -> Seq(Nat)]
      <3>1. \A id \in Repeated : this.slots[id] \o prof2.slots[id] \in Seq(Nat)
        BY <1>4 DEF IsProfile
      <3>2. QED
        BY <1>5, <3>1
    <2>2. this' = [slots |-> this'.slots, scalars |-> this'.scalars,
                   periodType |-> this'.periodType, comment |-> this'.comment]
      BY <1>1 DEF Merged
    <2>3. QED
      BY <2>1, <2>2 DEF IsProfile
  <1>7. PICK a \in 1 .. Count + 1 :
          /\ firstCurr = Pos(a) /\ this = Parsed(1, a)
          /\ NoEmptyPeriodType => a = Count + 1
    BY <1>1 DEF IInv, FirstInv
  <1>8. FirstInv'
    BY <1>1, <1>3, <1>6, <1>7 DEF FirstInv, NoEmptyPeriodType
  <1>9. NoEmptyPeriodType => FirstIsComplete'
    <2>1. HAVE NoEmptyPeriodType
    <2>2. this = Expected
      BY <1>7, <2>1, WholeIsExpected
    <2>3. ASSUME NEW id \in Repeated
          PROVE  IsPrefix(Expected.slots[id], this'.slots[id])
      <3> DEFINE s == this.slots[id]
                 t == prof2.slots[id]
      <3>1. s \in Seq(Nat) /\ t \in Seq(Nat)
        BY <1>4 DEF IsProfile
      <3> HIDE DEF s, t
      <3>2. IsPrefix(s, s \o t)
        <4>1. Len(s) <= Len(s \o t)
          BY <3>1
        <4>2. \A k \in 1 .. Len(s) : (s \o t)[k] = s[k]
          BY <3>1
        <4>3. SubSeq(s \o t, 1, Len(s)) = s
          BY <3>1, <4>1, <4>2
        <4>4. QED
          BY <4>1, <4>3 DEF IsPrefix
      <3>3. QED
        BY <1>5, <2>2, <3>2 DEF s, t
    <2>4. QED
      BY <1>3, <1>5, <2>2, <2>3 DEF FirstIsComplete
  <1>10. NoEmptyPeriodType => SuffixComesTwice'
    <2>1. SUFFICES ASSUME NoEmptyPeriodType, i \in Second, hard
                   PROVE  LET suffix == SequentialParse(FieldsFrom(i))
                          IN  this' = [Expected EXCEPT !.slots =
                                         [id \in Repeated |-> @[id] \o suffix.slots[id]]]
      <3>1. i' = i /\ hard' = hard /\ Second' = Second /\ FieldsFrom(i)' = FieldsFrom(i)
        BY <1>1, MessageStays DEF second
      <3>2. QED
        BY <1>3, <3>1 DEF SuffixComesTwice
    <2>2. this = Expected
      BY <1>7, <2>1, WholeIsExpected
    <2>3. secondPc = "done"
      BY DEF MergeParallel, Joined
    <2>4. prof2 = SequentialParse(FieldsFrom(i))
      BY <2>1, <2>3, CheckedStart
    <2>5. PICK p \in Profiles : prof2 \in Profiles /\ Expected = MergeOf(p, prof2)
      BY <2>1, <2>3, SuffixOfExpected
    <2>6. Merged(Expected, prof2) = WithRecords(Expected, prof2)
      BY <2>5, MergeOfSuffix
    <2>7. this' = WithRecords(Expected, SequentialParse(FieldsFrom(i)))
      BY <1>1, <2>2, <2>4, <2>6
    <2>8. QED
      BY <2>7 DEF WithRecords
  <1>11. QED
    BY <1>2, <1>8, <1>9, <1>10 DEF IInv, NoEmptyPeriodType

\* Without a profile to merge.
LEMMA MergeCrashesStep ==
  ASSUME IInv, MergeCrashes
  PROVE  IInv'
  <1>1. mainPc = "joining" /\ mainPc' = "crashed" /\ UNCHANGED <<message, first, second>>
    BY DEF MergeCrashes, Joined
  <1>2. Layout' /\ FirstInv' /\ FirstIsComplete' /\ SuffixComesTwice'
    BY <1>1, FirstStays
  <1>3. SecondInv' /\ StartInv' /\ TrialInv' /\ SearchInv'
    BY <1>1, SecondStays
  <1>4. QED
    BY <1>2, <1>3 DEF IInv

\* Nothing happens.
LEMMA StutterStep ==
  ASSUME IInv, UNCHANGED vars
  PROVE  IInv'
  <1>1. UNCHANGED <<message, second>> /\ UNCHANGED <<first, mainPc>>
    BY DEF vars
  <1>2. SecondInv' /\ StartInv' /\ TrialInv' /\ SearchInv' /\ Layout'
    BY <1>1, SecondStays
  <1>3. /\ Count' = Count /\ Second' = Second /\ Expected' = Expected
        /\ \A k : Pos(k)' = Pos(k)
        /\ \A a, b : Parsed(a, b)' = Parsed(a, b)
        /\ \A p : FieldsFrom(p)' = FieldsFrom(p)
    BY <1>1, MessageStays
  <1>4. firstPc' = firstPc /\ firstCurr' = firstCurr /\ this' = this /\ i' = i /\ hard' = hard
    BY <1>1 DEF first, second
  <1>5. FirstInv'
    BY <1>1, <1>3, <1>4 DEF IInv, FirstInv, IsProfile, NoEmptyPeriodType
  <1>6. (NoEmptyPeriodType => FirstIsComplete)'
    BY <1>1, <1>3, <1>4 DEF IInv, FirstIsComplete, NoEmptyPeriodType
  <1>7. (NoEmptyPeriodType => SuffixComesTwice)'
    BY <1>1, <1>3, <1>4 DEF IInv, SuffixComesTwice, NoEmptyPeriodType
  <1>8. QED
    BY <1>2, <1>5, <1>6, <1>7 DEF IInv, NoEmptyPeriodType

\* The invariant holds of every reachable state.
THEOREM Invariance == Spec => []IInv
  <1>1. Init => IInv
    BY InitIInv
  <1>2. IInv /\ [Next]_vars => IInv'
    <2> SUFFICES ASSUME IInv, [Next]_vars PROVE IInv'
      OBVIOUS
    <2>1. CASE First
      BY <2>1, FirstParseStep, FirstEndStep DEF First
    <2>2. CASE SecondThread
      BY <2>2, SecondThreadStep
    <2>3. CASE MergeParallel
      BY <2>3, MergeParallelStep
    <2>4. CASE MergeCrashes
      BY <2>4, MergeCrashesStep
    <2>5. CASE Stopped \/ UNCHANGED vars
      BY <2>5, StutterStep DEF Stopped
    <2>6. QED
      BY <2>1, <2>2, <2>3, <2>4, <2>5 DEF Next, Main
  <1>3. QED
    BY <1>1, <1>2, PTL DEF Spec

--------------------------------------------------------------------------------
(* What follows.                                                               *)

\* The variables keep to their types: the first thread stands at a start or at
\* the end, the second within its half, and succskip within its limit.
THEOREM Typing == Spec => []TypeOK
  <1>1. IInv => TypeOK
    <2>1. SUFFICES ASSUME IInv PROVE TypeOK
      OBVIOUS
    <2>2. firstCurr \in {starts[k] : k \in DOMAIN starts} \union {size}
      <3>1. PICK a \in 1 .. Count + 1 : firstCurr = Pos(a)
        BY <2>1 DEF IInv, FirstInv
      <3>2. DOMAIN starts = 1 .. Count /\ Count \in Nat
        BY <2>1 DEF IInv, Layout
      <3>3. QED
        BY <3>1, <3>2 DEF Pos
    <2>3. QED
      BY <2>1, <2>2 DEF IInv, FirstInv, SecondInv, TypeOK
  <1>2. QED
    BY <1>1, Invariance, PTL

\* A start of the second half that has been checked leaves in prof2 what the
\* sequential parser makes of the message from there on.
THEOREM CheckedStartIsSuffix == Spec => []TrialIsSuffix
  <1>1. IInv => TrialIsSuffix
    BY CheckedStart DEF TrialIsSuffix
  <1>2. QED
    BY <1>1, Invariance, PTL

\* The search never passes the first start it could take: checkValidStart is
\* never false for a real start, unless there an empty period_type follows.
THEOREM FirstStart == NoEmptyPeriodType => (Spec => []FirstStartWins)
  <1> SUFFICES ASSUME NoEmptyPeriodType PROVE Spec => []FirstStartWins
    OBVIOUS
  <1>1. IInv => FirstStartWins
    <2>1. SUFFICES ASSUME IInv, st # {} PROVE i <= Min(st)
      BY DEF FirstStartWins
    <2>2. st \in SUBSET Nat
      BY <2>1, Starts DEF IInv
    <2>3. PICK m \in st : \A y \in st : m <= y
      BY <2>1, <2>2, LeastNatural
    <2>4. Min(st) \in st
      BY <2>3 DEF Min
    <2>5. QED
      BY <2>1, <2>4 DEF IInv, SearchInv
  <1>2. QED
    BY <1>1, Invariance, PTL

\* "The first half will always parse correctly": the records of the sequential
\* parser come first in the merged profile, unless a period_type is empty.
THEOREM FirstComplete == NoEmptyPeriodType => (Spec => []FirstIsComplete)
  <1> SUFFICES ASSUME NoEmptyPeriodType PROVE Spec => []FirstIsComplete
    OBVIOUS
  <1>1. IInv => FirstIsComplete
    BY DEF IInv
  <1>2. QED
    BY <1>1, Invariance, PTL

\* The merge of a checked start makes the records from there on come a second
\* time, and changes nothing else, unless a period_type is empty.
THEOREM MergeAddsSuffix == NoEmptyPeriodType => (Spec => []SuffixComesTwice)
  <1> SUFFICES ASSUME NoEmptyPeriodType PROVE Spec => []SuffixComesTwice
    OBVIOUS
  <1>1. IInv => SuffixComesTwice
    BY DEF IInv
  <1>2. QED
    BY <1>1, Invariance, PTL
================================================================================
