-------------------------- MODULE ProfileFieldsProofs --------------------------
(* SequentialParse, a fold, taken field by field; and taken piece by piece:    *)
(* what the sequential parser makes of a message that is cut between two       *)
(* fields is the merge of what it makes of the two pieces.                     *)
EXTENDS ProfileFields, Sums, SequenceTheorems

--------------------------------------------------------------------------------
(* The fold.                                                                   *)

\* How FoldLeft is defined: over the sets of positions of a message.
Fold(m, g) ==
  g = [s \in SUBSET DOMAIN m |->
         IF s = {} THEN EmptyProfile ELSE Apply(g[s \ {Max(s)}], m[Max(s)])]

\* The same over the sets of the first n positions.
FoldUpTo(m, n, g) ==
  g = [s \in SUBSET (1 .. n) |->
         IF s = {} THEN EmptyProfile ELSE Apply(g[s \ {Max(s)}], m[Max(s)])]

\* Such a function there is, for any message.
LEMMA FoldExists ==
  ASSUME NEW N \in Nat, NEW m, DOMAIN m = 1 .. N
  PROVE  \E g : Fold(m, g)
  <1> DEFINE S == {n \in 0 .. N : \E g : FoldUpTo(m, n, g)}
  <1>1. 0 \in S
    <2> DEFINE g == [s \in {{}} |-> EmptyProfile]
    <2>1. SUBSET (1 .. 0) = {{}}
      OBVIOUS
    <2>2. g = [s \in SUBSET (1 .. 0) |->
                 IF s = {} THEN EmptyProfile ELSE Apply(g[s \ {Max(s)}], m[Max(s)])]
      BY <2>1
    <2>3. FoldUpTo(m, 0, g)
      BY <2>2 DEF FoldUpTo
    <2>4. QED
      BY <2>3
  <1>2. \A n \in 0 .. N - 1 : n \in S => n + 1 \in S
    <2> TAKE n \in 0 .. N - 1
    <2> HAVE n \in S
    <2>1. PICK g : FoldUpTo(m, n, g)
      OBVIOUS
    <2> DEFINE h == [s \in SUBSET (1 .. n + 1) |->
                       IF n + 1 \in s THEN Apply(g[s \ {n + 1}], m[n + 1]) ELSE g[s]]
               Step(s) == IF s = {} THEN EmptyProfile
                          ELSE Apply(h[s \ {Max(s)}], m[Max(s)])
    <2>2. ASSUME NEW s \in SUBSET (1 .. n + 1)
          PROVE  h[s] = Step(s)
      <3>1. CASE n + 1 \in s
        <4>1. Max(s) = n + 1
          <5>1. Max(s) \in s /\ \A i \in s : i <= Max(s)
            BY <3>1, MaxIsGreatest, n + 1 \in Nat
          <5>2. Max(s) \in 1 .. n + 1 /\ n + 1 <= Max(s)
            BY <3>1, <5>1
          <5>3. QED
            BY <5>2
        <4>2. s \ {n + 1} \in SUBSET (1 .. n)
          OBVIOUS
        <4>3. h[s \ {n + 1}] = g[s \ {n + 1}]
          BY <4>2
        <4>4. h[s] = Apply(g[s \ {n + 1}], m[n + 1])
          BY <3>1
        <4>5. Step(s) = Apply(h[s \ {Max(s)}], m[Max(s)])
          BY <3>1
        <4>6. QED
          BY <4>1, <4>3, <4>4, <4>5
      <3>2. CASE n + 1 \notin s
        <4>1. s \in SUBSET (1 .. n)
          BY <3>2
        <4>2. h[s] = g[s]
          BY <3>2
        <4>3. g[s] = IF s = {} THEN EmptyProfile ELSE Apply(g[s \ {Max(s)}], m[Max(s)])
          BY <2>1, <4>1 DEF FoldUpTo
        <4>4. s \ {Max(s)} \in SUBSET (1 .. n)
          BY <4>1
        <4>5. h[s \ {Max(s)}] = g[s \ {Max(s)}]
          BY <4>4
        <4>6. QED
          BY <4>2, <4>3, <4>5
      <3>3. QED
        BY <3>1, <3>2
    <2>3. h = [s \in SUBSET (1 .. n + 1) |-> Step(s)]
      BY <2>2
    <2>4. FoldUpTo(m, n + 1, h)
      BY <2>3 DEF FoldUpTo
    <2>5. QED
      BY <2>4
  <1> HIDE DEF S
  <1>3. N \in S
    <2>1. \A n \in 0 .. N : n \in S
      BY <1>1, <1>2, UpTo, SMT
    <2>2. QED
      BY <2>1
  <1>4. PICK g : FoldUpTo(m, N, g)
    BY <1>3 DEF S
  <1>5. Fold(m, g)
    BY <1>4 DEF Fold, FoldUpTo
  <1>6. QED
    BY <1>5

\* The profiles that the sequential parser passes through.
Run(m, n, a) ==
  /\ a[0] = EmptyProfile
  /\ \A k \in 0 .. n - 1 : a[k + 1] = Apply(a[k], m[k + 1])

\* It ends with the result of the fold.
LEMMA RunExists ==
  ASSUME NEW N \in Nat, NEW m, DOMAIN m = 1 .. N
  PROVE  \E a : Run(m, N, a) /\ SequentialParse(m) = a[N]
  <1> DEFINE g == CHOOSE g : Fold(m, g)
             a == [k \in 0 .. N |-> g[1 .. k]]
  <1>1. Fold(m, g)
    BY FoldExists
  <1>2. SequentialParse(m) = g[DOMAIN m]
    BY DEF SequentialParse, FoldLeft, MapThenFoldSet, Fold
  <1> HIDE DEF g
  <1>3. SequentialParse(m) = a[N]
    BY <1>2
  <1>4. a[0] = EmptyProfile
    <2>1. 1 .. 0 = {} /\ {} \in SUBSET DOMAIN m
      OBVIOUS
    <2>2. g[{}] = EmptyProfile
      BY <1>1, <2>1 DEF Fold
    <2>3. a[0] = g[1 .. 0]
      OBVIOUS
    <2>4. QED
      BY <2>1, <2>2, <2>3
  <1>5. ASSUME NEW k \in 0 .. N - 1
        PROVE  a[k + 1] = Apply(a[k], m[k + 1])
    <2>1. 1 .. k + 1 \in SUBSET (1 .. N) /\ 1 .. k + 1 # {} /\ k + 1 \in 1 .. k + 1
      OBVIOUS
    <2>2. Max(1 .. k + 1) = k + 1
      <3>1. Max(1 .. k + 1) \in 1 .. k + 1 /\ k + 1 <= Max(1 .. k + 1)
        BY <2>1, MaxIsGreatest
      <3>2. QED
        BY <3>1
    <2>3. (1 .. k + 1) \ {k + 1} = 1 .. k
      OBVIOUS
    <2>4. g[1 .. k + 1] = Apply(g[1 .. k], m[k + 1])
      BY <1>1, <2>1, <2>2, <2>3 DEF Fold
    <2>5. a[k + 1] = g[1 .. k + 1] /\ a[k] = g[1 .. k]
      OBVIOUS
    <2>6. QED
      BY <2>4, <2>5
  <1>6. Run(m, N, a)
    BY <1>4, <1>5 DEF Run
  <1>7. QED
    BY <1>3, <1>6

\* Where two messages agree, so do their runs.
LEMMA RunsAgree ==
  ASSUME NEW N \in Nat, NEW m, NEW n, NEW a, NEW b, Run(m, N, a), Run(n, N, b),
         \A k \in 1 .. N : m[k] = n[k]
  PROVE  a[N] = b[N]
  <1> DEFINE S == {k \in 0 .. N : a[k] = b[k]}
  <1>1. 0 \in S
    BY DEF Run
  <1>2. \A k \in 0 .. N - 1 : k \in S => k + 1 \in S
    <2> TAKE k \in 0 .. N - 1
    <2> HAVE k \in S
    <2>1. a[k + 1] = Apply(a[k], m[k + 1]) /\ b[k + 1] = Apply(b[k], n[k + 1])
      BY DEF Run
    <2>2. m[k + 1] = n[k + 1]
      OBVIOUS
    <2>3. QED
      BY <2>1, <2>2
  <1> HIDE DEF S
  <1>3. N \in S
    BY <1>1, <1>2, UpTo
  <1>4. QED
    BY <1>3 DEF S

\* The first k fields of a message.
Prefix(m, k) == [i \in 1 .. k |-> m[i]]

\* Nothing gives the empty profile.
LEMMA ParseNothing ==
  ASSUME NEW m
  PROVE  SequentialParse(Prefix(m, 0)) = EmptyProfile
  <1>1. DOMAIN Prefix(m, 0) = 1 .. 0
    BY DEF Prefix
  <1>2. PICK a : Run(Prefix(m, 0), 0, a) /\ SequentialParse(Prefix(m, 0)) = a[0]
    BY <1>1, RunExists
  <1>3. QED
    BY <1>2 DEF Run

\* One more field is one more turn of the loop.
LEMMA ParseOneMore ==
  ASSUME NEW m, NEW k \in Nat
  PROVE  SequentialParse(Prefix(m, k + 1)) = Apply(SequentialParse(Prefix(m, k)), m[k + 1])
  <1>1. DOMAIN Prefix(m, k) = 1 .. k /\ DOMAIN Prefix(m, k + 1) = 1 .. k + 1
    BY DEF Prefix
  <1>2. PICK a : Run(Prefix(m, k), k, a) /\ SequentialParse(Prefix(m, k)) = a[k]
    BY <1>1, RunExists
  <1>3. PICK b : Run(Prefix(m, k + 1), k + 1, b)
                 /\ SequentialParse(Prefix(m, k + 1)) = b[k + 1]
    BY <1>1, RunExists
  <1>4. Run(Prefix(m, k + 1), k, b)
    BY <1>3 DEF Run
  <1>5. \A i \in 1 .. k : Prefix(m, k)[i] = Prefix(m, k + 1)[i]
    BY DEF Prefix
  <1>6. a[k] = b[k]
    BY <1>2, <1>4, <1>5, RunsAgree
  <1>7. b[k + 1] = Apply(b[k], Prefix(m, k + 1)[k + 1])
    BY <1>3 DEF Run
  <1>8. Prefix(m, k + 1)[k + 1] = m[k + 1]
    BY DEF Prefix
  <1>9. QED
    BY <1>2, <1>3, <1>6, <1>7, <1>8

--------------------------------------------------------------------------------
(* A message in two pieces.                                                    *)

\* A field as the fold takes it: a value is never 0.
IsField(f) ==
  /\ f = [id |-> f.id, wire |-> f.wire, vals |-> f.vals]
  /\ Known(f) /\ f.vals \in Seq(Nat \ {0})

Profiles == [slots : [Repeated -> Seq(Nat)], scalars : [Scalars -> Nat],
             periodType : Nat, comment : Seq(Nat)]

\* The records of q follow those of p, and what q has once replaces what p has.
\* (A period_type too: Google's parser would merge two of them.)
MergeOf(p, q) ==
  [slots |-> [id \in Repeated |-> p.slots[id] \o q.slots[id]],
   scalars |-> [id \in Scalars |-> IF q.scalars[id] = 0 THEN p.scalars[id] ELSE q.scalars[id]],
   periodType |-> IF q.periodType = 0 THEN p.periodType ELSE q.periodType,
   comment |-> p.comment \o q.comment]

\* What one turn of the loop does with a record,
LEMMA ApplyRecord ==
  ASSUME NEW p \in Profiles, NEW f, IsField(f), f.id \in Repeated, NEW v, v = f.vals[1]
  PROVE  /\ v \in Nat \ {0}
         /\ Apply(p, f) = [slots |-> [p.slots EXCEPT ![f.id] = Append(p.slots[f.id], v)], scalars |-> p.scalars,
                            periodType |-> p.periodType, comment |-> p.comment]
  <1>1. PICK s, a, t, c : p = [slots |-> s, scalars |-> a, periodType |-> t, comment |-> c]
    BY DEF Profiles
  <1>2. p.slots = s /\ p.scalars = a /\ p.periodType = t /\ p.comment = c
    BY <1>1
  <1>3. Known(f) /\ f.vals \in Seq(Nat \ {0})
    BY DEF IsField
  <1>4. f.wire = Delimited /\ Len(f.vals) = 1
    BY <1>3 DEF Known, Repeated, Scalars, PeriodType, Comment
  <1>5. v \in Nat \ {0}
    BY <1>3, <1>4
  <1>6. Apply(p, f) = [p EXCEPT !.slots[f.id] = Append(s[f.id], v)]
    BY SMTT(30), <1>2, <1>4 DEF Apply, Repeated, Scalars, PeriodType, Comment, Varint, Delimited
  <1>7. Apply(p, f) = [slots |-> [s EXCEPT ![f.id] = Append(s[f.id], v)], scalars |-> a,
                       periodType |-> t, comment |-> c]
    BY <1>1, <1>6
  <1>8. QED
    BY <1>2, <1>5, <1>7

\* with a number,
LEMMA ApplyScalar ==
  ASSUME NEW p \in Profiles, NEW f, IsField(f), f.id \in Scalars, NEW v, v = f.vals[1]
  PROVE  /\ v \in Nat \ {0}
         /\ Apply(p, f) = [slots |-> p.slots, scalars |-> [p.scalars EXCEPT ![f.id] = v],
                            periodType |-> p.periodType, comment |-> p.comment]
  <1>1. PICK s, a, t, c : p = [slots |-> s, scalars |-> a, periodType |-> t, comment |-> c]
    BY DEF Profiles
  <1>2. p.slots = s /\ p.scalars = a /\ p.periodType = t /\ p.comment = c
    BY <1>1
  <1>3. Known(f) /\ f.vals \in Seq(Nat \ {0})
    BY DEF IsField
  <1>4. f.wire = Varint /\ Len(f.vals) = 1
    BY <1>3 DEF Known, Repeated, Scalars, PeriodType, Comment
  <1>5. v \in Nat \ {0}
    BY <1>3, <1>4
  <1>6. Apply(p, f) = [p EXCEPT !.scalars[f.id] = v]
    BY SMTT(30), <1>2, <1>4 DEF Apply, Repeated, Scalars, PeriodType, Comment, Varint, Delimited, SetScalar
  <1>7. Apply(p, f) = [slots |-> s, scalars |-> [a EXCEPT ![f.id] = v],
                       periodType |-> t, comment |-> c]
    BY <1>1, <1>6
  <1>8. QED
    BY <1>2, <1>5, <1>7

\* with a period_type
LEMMA ApplyPeriodType ==
  ASSUME NEW p \in Profiles, NEW f, IsField(f), f.id = PeriodType, NEW v, v = f.vals[1]
  PROVE  /\ v \in Nat \ {0}
         /\ Apply(p, f) = [slots |-> p.slots, scalars |-> p.scalars,
                            periodType |-> v, comment |-> p.comment]
  <1>1. PICK s, a, t, c : p = [slots |-> s, scalars |-> a, periodType |-> t, comment |-> c]
    BY DEF Profiles
  <1>2. p.slots = s /\ p.scalars = a /\ p.periodType = t /\ p.comment = c
    BY <1>1
  <1>3. Known(f) /\ f.vals \in Seq(Nat \ {0})
    BY DEF IsField
  <1>4. f.wire = Delimited /\ Len(f.vals) = 1
    BY <1>3 DEF Known, Repeated, Scalars, PeriodType, Comment
  <1>5. v \in Nat \ {0}
    BY <1>3, <1>4
  <1>6. Apply(p, f) = [p EXCEPT !.periodType = v]
    BY SMTT(30), <1>2, <1>4 DEF Apply, Repeated, Scalars, PeriodType, Comment, Varint, Delimited
  <1>7. Apply(p, f) = [slots |-> s, scalars |-> a,
                       periodType |-> v, comment |-> c]
    BY <1>1, <1>6
  <1>8. QED
    BY <1>2, <1>5, <1>7

\* and with comments.
LEMMA ApplyComment ==
  ASSUME NEW p \in Profiles, NEW f, IsField(f), f.id = Comment, NEW v, v = f.vals
  PROVE  /\ v \in Seq(Nat)
         /\ Apply(p, f) = [slots |-> p.slots, scalars |-> p.scalars,
                            periodType |-> p.periodType, comment |-> p.comment \o v]
  <1>1. PICK s, a, t, c : p = [slots |-> s, scalars |-> a, periodType |-> t, comment |-> c]
    BY DEF Profiles
  <1>2. p.slots = s /\ p.scalars = a /\ p.periodType = t /\ p.comment = c
    BY <1>1
  <1>3. Known(f) /\ f.vals \in Seq(Nat \ {0})
    BY DEF IsField
  <1>5. v \in Seq(Nat)
    BY <1>3
  <1>6. Apply(p, f) = [p EXCEPT !.comment = c \o v]
    BY SMTT(30), <1>2 DEF Apply, Repeated, Scalars, PeriodType, Comment, Varint, Delimited
  <1>7. Apply(p, f) = [slots |-> s, scalars |-> a,
                       periodType |-> t, comment |-> c \o v]
    BY <1>1, <1>6
  <1>8. QED
    BY <1>2, <1>5, <1>7

\* A record at the end of the second of two vectors is at the end of both.
LEMMA AppendToMerge ==
  ASSUME NEW s \in Seq(Nat), NEW t \in Seq(Nat), NEW v \in Nat
  PROVE  Append(s \o t, v) = s \o Append(t, v)
  <1>1. s \o t \in Seq(Nat) /\ <<v>> \in Seq(Nat)
    OBVIOUS
  <1>2. Append(s \o t, v) = (s \o t) \o <<v>> /\ Append(t, v) = t \o <<v>>
    BY <1>1, AppendIsConcat
  <1>3. QED
    BY <1>1, <1>2, ConcatAssociative

\* A field makes a profile of a profile,
LEMMA ApplyTyped ==
  ASSUME NEW p \in Profiles, NEW f, IsField(f)
  PROVE  Apply(p, f) \in Profiles
  <1>1. /\ p.slots \in [Repeated -> Seq(Nat)] /\ p.scalars \in [Scalars -> Nat]
        /\ p.periodType \in Nat /\ p.comment \in Seq(Nat)
    BY DEF Profiles
  <1>2. ASSUME NEW id \in Repeated, NEW v \in Nat
        PROVE  [p.slots EXCEPT ![id] = Append(p.slots[id], v)] \in [Repeated -> Seq(Nat)]
    <2>1. Append(p.slots[id], v) \in Seq(Nat)
      BY <1>1
    <2>2. QED
      BY <1>1, <2>1
  <1>3. ASSUME NEW id \in Scalars, NEW v \in Nat
        PROVE  [p.scalars EXCEPT ![id] = v] \in [Scalars -> Nat]
    BY <1>1
  <1>4. \A v \in Seq(Nat) : p.comment \o v \in Seq(Nat)
    BY <1>1
  <1>5. CASE f.id \in Repeated
    <2>1. PICK v \in Nat \ {0} :
            Apply(p, f) = [slots |-> [p.slots EXCEPT ![f.id] = Append(p.slots[f.id], v)], scalars |-> p.scalars,
                         periodType |-> p.periodType, comment |-> p.comment]
      BY <1>5, ApplyRecord
    <2>2. QED
      BY <1>1, <1>2, <1>5, <2>1 DEF Profiles
  <1>6. CASE f.id \in Scalars
    <2>1. PICK v \in Nat \ {0} :
            Apply(p, f) = [slots |-> p.slots, scalars |-> [p.scalars EXCEPT ![f.id] = v],
                         periodType |-> p.periodType, comment |-> p.comment]
      BY <1>6, ApplyScalar
    <2>2. QED
      BY <1>1, <1>3, <1>6, <2>1 DEF Profiles
  <1>7. CASE f.id = PeriodType
    <2>1. PICK v \in Nat \ {0} :
            Apply(p, f) = [slots |-> p.slots, scalars |-> p.scalars, periodType |-> v, comment |-> p.comment]
      BY <1>7, ApplyPeriodType
    <2>2. QED
      BY <1>1, <1>7, <2>1 DEF Profiles
  <1>8. CASE f.id = Comment
    <2>1. PICK v \in Seq(Nat) :
            Apply(p, f) = [slots |-> p.slots, scalars |-> p.scalars, periodType |-> p.periodType,
                         comment |-> p.comment \o v]
      BY <1>8, ApplyComment
    <2>2. QED
      BY <1>1, <1>4, <1>8, <2>1 DEF Profiles
  <1>9. QED
    BY <1>5, <1>6, <1>7, <1>8 DEF IsField, Known

\* and a field of the second piece does to the merge what it does to its piece.
LEMMA ApplyMerges ==
  ASSUME NEW p \in Profiles, NEW q \in Profiles, NEW f, IsField(f)
  PROVE  /\ MergeOf(p, q) \in Profiles
         /\ Apply(MergeOf(p, q), f) = MergeOf(p, Apply(q, f))
  <1> DEFINE m == MergeOf(p, q)
             r == Apply(q, f)
  <1>1. /\ p.slots \in [Repeated -> Seq(Nat)] /\ p.scalars \in [Scalars -> Nat]
        /\ p.periodType \in Nat /\ p.comment \in Seq(Nat)
    BY DEF Profiles
  <1>2. /\ q.slots \in [Repeated -> Seq(Nat)] /\ q.scalars \in [Scalars -> Nat]
        /\ q.periodType \in Nat /\ q.comment \in Seq(Nat)
    BY DEF Profiles
  <1>3. /\ m.slots = [id \in Repeated |-> p.slots[id] \o q.slots[id]]
        /\ m.scalars = [id \in Scalars |->
                          IF q.scalars[id] = 0 THEN p.scalars[id] ELSE q.scalars[id]]
        /\ m.periodType = (IF q.periodType = 0 THEN p.periodType ELSE q.periodType)
        /\ m.comment = p.comment \o q.comment
        /\ m = [slots |-> m.slots, scalars |-> m.scalars, periodType |-> m.periodType,
                comment |-> m.comment]
    BY DEF MergeOf
  <1> HIDE DEF m
  <1>4. m \in Profiles
    <2>1. \A id \in Repeated : p.slots[id] \o q.slots[id] \in Seq(Nat)
      BY <1>1, <1>2
    <2>2. m.slots \in [Repeated -> Seq(Nat)]
      BY <1>3, <2>1
    <2>3. m.scalars \in [Scalars -> Nat] /\ m.periodType \in Nat
      BY <1>1, <1>2, <1>3
    <2>4. m.comment \in Seq(Nat)
      BY <1>1, <1>2, <1>3
    <2>5. QED
      BY <1>3, <2>2, <2>3, <2>4 DEF Profiles
  <1>5. Apply(m, f) = MergeOf(p, r)
    <2> DEFINE v == f.vals[1]
    <2>1. CASE f.id \in Repeated
      <3>1. /\ v \in Nat \ {0}
            /\ r = [slots |-> [q.slots EXCEPT ![f.id] = Append(q.slots[f.id], v)],
                    scalars |-> q.scalars, periodType |-> q.periodType, comment |-> q.comment]
        BY <2>1, ApplyRecord
      <3>2. Apply(m, f) = [slots |-> [m.slots EXCEPT ![f.id] = Append(m.slots[f.id], v)],
                           scalars |-> m.scalars, periodType |-> m.periodType,
                           comment |-> m.comment]
        BY <1>4, <2>1, ApplyRecord
      <3> HIDE DEF r, v
      <3>3. Append(m.slots[f.id], v) = p.slots[f.id] \o Append(q.slots[f.id], v)
        <4>1. p.slots[f.id] \in Seq(Nat) /\ q.slots[f.id] \in Seq(Nat) /\ v \in Nat
          BY <1>1, <1>2, <2>1, <3>1
        <4>2. m.slots[f.id] = p.slots[f.id] \o q.slots[f.id]
          BY <1>3, <2>1
        <4>3. Append(p.slots[f.id] \o q.slots[f.id], v) = p.slots[f.id] \o Append(q.slots[f.id], v)
          BY <4>1, AppendToMerge
        <4>4. QED
          BY <4>2, <4>3
      <3>4. [m.slots EXCEPT ![f.id] = Append(m.slots[f.id], v)]
              = [id \in Repeated |-> p.slots[id] \o r.slots[id]]
        BY <1>2, <1>3, <2>1, <3>1, <3>3
      <3>5. r.scalars = q.scalars /\ r.periodType = q.periodType /\ r.comment = q.comment
        BY <3>1
      <3>6. MergeOf(p, r) = [slots |-> [id \in Repeated |-> p.slots[id] \o r.slots[id]],
                               scalars |-> m.scalars, periodType |-> m.periodType,
                               comment |-> m.comment]
        BY <1>3, <3>5 DEF MergeOf
      <3>7. QED
        BY <3>2, <3>4, <3>6
    <2>2. CASE f.id \in Scalars
      <3>1. /\ v \in Nat \ {0}
            /\ r = [slots |-> q.slots, scalars |-> [q.scalars EXCEPT ![f.id] = v],
                    periodType |-> q.periodType, comment |-> q.comment]
        BY <2>2, ApplyScalar
      <3>2. Apply(m, f) = [slots |-> m.slots, scalars |-> [m.scalars EXCEPT ![f.id] = v],
                           periodType |-> m.periodType, comment |-> m.comment]
        BY <1>4, <2>2, ApplyScalar
      <3> HIDE DEF r, v
      <3>3. [m.scalars EXCEPT ![f.id] = v]
              = [id \in Scalars |-> IF r.scalars[id] = 0 THEN p.scalars[id] ELSE r.scalars[id]]
        BY <1>2, <1>3, <2>2, <3>1
      <3>4. r.slots = q.slots /\ r.periodType = q.periodType /\ r.comment = q.comment
        BY <3>1
      <3>5. QED
        BY <1>3, <3>2, <3>3, <3>4 DEF MergeOf
    <2>3. CASE f.id = PeriodType
      <3>1. /\ v \in Nat \ {0}
            /\ r = [slots |-> q.slots, scalars |-> q.scalars,
                    periodType |-> v, comment |-> q.comment]
        BY <2>3, ApplyPeriodType
      <3>2. Apply(m, f) = [slots |-> m.slots, scalars |-> m.scalars,
                           periodType |-> v, comment |-> m.comment]
        BY <1>4, <2>3, ApplyPeriodType
      <3> HIDE DEF r, v
      <3>3. /\ r.slots = q.slots /\ r.scalars = q.scalars /\ r.comment = q.comment
            /\ r.periodType = v /\ v # 0
        BY <3>1
      <3>4. QED
        BY <1>3, <3>2, <3>3 DEF MergeOf
    <2>4. CASE f.id = Comment
      <3>1. /\ f.vals \in Seq(Nat)
            /\ r = [slots |-> q.slots, scalars |-> q.scalars,
                    periodType |-> q.periodType, comment |-> q.comment \o f.vals]
        BY <2>4, ApplyComment
      <3>2. Apply(m, f) = [slots |-> m.slots, scalars |-> m.scalars,
                           periodType |-> m.periodType, comment |-> m.comment \o f.vals]
        BY <1>4, <2>4, ApplyComment
      <3> HIDE DEF r
      <3>3. f.vals \in Seq(Nat)
        BY <3>1
      <3>4. (p.comment \o q.comment) \o f.vals = p.comment \o (q.comment \o f.vals)
        <4>1. \A s, t, u \in Seq(Nat) : (s \o t) \o u = s \o (t \o u)
          BY ConcatAssociative
        <4>2. QED
          BY <1>1, <1>2, <3>3, <4>1
      <3>5. /\ r.slots = q.slots /\ r.scalars = q.scalars /\ r.periodType = q.periodType
            /\ r.comment = q.comment \o f.vals
        BY <3>1
      <3>6. QED
        BY <1>3, <3>2, <3>4, <3>5 DEF MergeOf
    <2>5. QED
      BY <2>1, <2>2, <2>3, <2>4 DEF IsField, Known
  <1>6. QED
    BY <1>4, <1>5 DEF m, r

\* Nothing follows: there is nothing to merge.
LEMMA MergeNothing ==
  ASSUME NEW p \in Profiles
  PROVE  EmptyProfile \in Profiles /\ MergeOf(p, EmptyProfile) = p
  <1>1. /\ p.slots \in [Repeated -> Seq(Nat)] /\ p.scalars \in [Scalars -> Nat]
        /\ p.periodType \in Nat /\ p.comment \in Seq(Nat)
        /\ p = [slots |-> p.slots, scalars |-> p.scalars, periodType |-> p.periodType,
                comment |-> p.comment]
    BY DEF Profiles
  <1>2. \A s \in Seq(Nat) : s \o <<>> = s
    BY ConcatEmptySeq
  <1>3. [id \in Repeated |-> p.slots[id] \o <<>>] = p.slots
    BY <1>1, <1>2
  <1>4. p.comment \o <<>> = p.comment
    BY <1>1, <1>2
  <1>5. EmptyProfile \in Profiles
    <2>1. <<>> \in Seq(Nat)
      OBVIOUS
    <2>2. QED
      BY <2>1 DEF EmptyProfile, Profiles
  <1>6. QED
    BY <1>1, <1>3, <1>4, <1>5 DEF MergeOf, EmptyProfile

\* What is made of fields is a profile.
LEMMA ParseTyped ==
  ASSUME NEW n \in Nat, NEW m, \A l \in 1 .. n : IsField(m[l])
  PROVE  \A k \in 0 .. n : SequentialParse(Prefix(m, k)) \in Profiles
  <1> DEFINE S == {k \in 0 .. n : SequentialParse(Prefix(m, k)) \in Profiles}
  <1>1. 0 \in S
    <2>1. EmptyProfile \in Profiles
      <3>1. <<>> \in Seq(Nat)
        OBVIOUS
      <3>2. QED
        BY <3>1 DEF EmptyProfile, Profiles
    <2>2. QED
      BY <2>1, ParseNothing
  <1>2. \A k \in 0 .. n - 1 : k \in S => k + 1 \in S
    <2> TAKE k \in 0 .. n - 1
    <2> HAVE k \in S
    <2>1. k \in Nat /\ k + 1 \in 0 .. n /\ IsField(m[k + 1])
      OBVIOUS
    <2>2. SequentialParse(Prefix(m, k + 1)) = Apply(SequentialParse(Prefix(m, k)), m[k + 1])
      BY <2>1, ParseOneMore
    <2>3. QED
      BY <2>1, <2>2, ApplyTyped
  <1> HIDE DEF S
  <1>3. \A k \in 0 .. n : k \in S
    BY <1>1, <1>2, UpTo
  <1>4. QED
    BY <1>3 DEF S

\* The fields behind the k-th.
Behind(m, k, n) == [l \in 1 .. n - k |-> m[k + l]]

\* A message may be cut between any two of its fields: parseProfile of src/sequential
\* makes of the whole what MergeOf makes of the profiles of the two pieces. So the
\* loop keeps nothing from one field to the next but the profile, appends to every
\* vector in order, and lets the last of several numbers or period_types count.
THEOREM PiecesMerge ==
  ASSUME NEW n \in Nat, NEW m, m = [l \in 1 .. n |-> m[l]], \A l \in 1 .. n : IsField(m[l]),
         NEW k \in 0 .. n
  PROVE  SequentialParse(m)
           = MergeOf(SequentialParse(Prefix(m, k)), SequentialParse(Behind(m, k, n)))
  <1> DEFINE p == SequentialParse(Prefix(m, k))
             b == Behind(m, k, n)
             Q(j) == SequentialParse(Prefix(b, j))
             S == {j \in 0 .. n - k : SequentialParse(Prefix(m, k + j)) = MergeOf(p, Q(j))}
  <1>1. p \in Profiles
    BY ParseTyped
  <1>2. n - k \in Nat /\ \A l \in 1 .. n - k : b[l] = m[k + l] /\ IsField(b[l])
    <2>1. \A l \in 1 .. n - k : k + l \in 1 .. n
      OBVIOUS
    <2>2. QED
      BY <2>1 DEF Behind
  <1> HIDE DEF b
  <1>3. \A j \in 0 .. n - k : Q(j) \in Profiles
    BY <1>2, ParseTyped
  <1>4. 0 \in S
    <2>1. Q(0) = EmptyProfile /\ k + 0 = k
      BY ParseNothing
    <2>2. QED
      BY <1>1, <1>2, <2>1, MergeNothing
  <1>5. \A j \in 0 .. n - k - 1 : j \in S => j + 1 \in S
    <2> TAKE j \in 0 .. n - k - 1
    <2> HAVE j \in S
    <2>1. j \in Nat /\ k + j \in Nat /\ j + 1 \in 1 .. n - k /\ k + (j + 1) = (k + j) + 1
      OBVIOUS
    <2>2. b[j + 1] = m[(k + j) + 1] /\ IsField(b[j + 1])
      <3>1. b[j + 1] = m[k + (j + 1)] /\ IsField(b[j + 1])
        BY <1>2, <2>1
      <3>2. QED
        BY <2>1, <3>1
    <2>3. SequentialParse(Prefix(m, (k + j) + 1))
            = Apply(SequentialParse(Prefix(m, k + j)), b[j + 1])
      BY <2>1, <2>2, ParseOneMore
    <2>4. Q(j + 1) = Apply(Q(j), b[j + 1])
      BY <2>1, ParseOneMore
    <2>5. Q(j) \in Profiles
      BY <1>3
    <2> HIDE DEF p, Q
    <2>6. Apply(MergeOf(p, Q(j)), b[j + 1]) = MergeOf(p, Apply(Q(j), b[j + 1]))
      BY <1>1, <2>2, <2>5, ApplyMerges
    <2>7. QED
      BY <2>1, <2>3, <2>4, <2>6
  <1> HIDE DEF S
  <1>6. n - k \in S
    <2>1. \A j \in 0 .. n - k : j \in S
      BY <1>2, <1>4, <1>5, UpTo
    <2>2. QED
      BY <1>2, <2>1
  <1>7. Prefix(m, k + (n - k)) = m /\ Prefix(b, n - k) = Behind(m, k, n)
    <2>1. k + (n - k) = n
      OBVIOUS
    <2>2. QED
      BY <2>1 DEF Prefix, b, Behind
  <1>8. SequentialParse(Prefix(m, k + (n - k))) = MergeOf(p, SequentialParse(Prefix(b, n - k)))
    BY <1>6 DEF S
  <1>9. QED
    BY <1>7, <1>8
================================================================================
