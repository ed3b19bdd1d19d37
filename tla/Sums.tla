---------------------------------- MODULE Sums ---------------------------------
(* Facts about numbers, sets of numbers and sums that the proofs share.        *)
EXTENDS Integers, FiniteSetsExt, FiniteSetTheorems, WellFoundedInduction, TLAPS

--------------------------------------------------------------------------------
(* Numbers and sets of numbers.                                                *)

\* A nonempty set of naturals has a least element.
LEMMA LeastNatural ==
  ASSUME NEW S \in SUBSET Nat, S # {}
  PROVE  \E n \in S : \A m \in S : n <= m
  <1> DEFINE R == OpToRel(<, Nat)
  <1>1. IsWellFoundedOn(R, Nat)
    BY NatLessThanWellFounded
  <1> HIDE DEF R
  <1>2. PICK n \in S : \A m \in S : ~(<<m, n>> \in R)
    BY <1>1, WFMin
  <1>3. \A m \in S : m < n => <<m, n>> \in R
    BY DEF R, OpToRel
  <1>4. \A m \in S : m \in Nat /\ ~(m < n)
    BY <1>2, <1>3
  <1>5. QED
    BY <1>4

\* A set of naturals that holds 0, and n + 1 with each n below the bound N, holds
\* every n up to N.
LEMMA UpTo ==
  ASSUME NEW N \in Nat, NEW S, 0 \in S,
         \A n \in 0 .. N - 1 : n \in S => n + 1 \in S
  PROVE  \A n \in 0 .. N : n \in S
  <1> DEFINE Missing == {n \in 0 .. N : n \notin S}
  <1>1. SUFFICES ASSUME Missing # {} PROVE FALSE
    OBVIOUS
  <1>2. Missing \in SUBSET Nat
    OBVIOUS
  <1>3. PICK n \in Missing : \A m \in Missing : n <= m
    BY <1>1, <1>2, LeastNatural
  <1>4. n \in 1 .. N
    BY <1>3
  <1>5. n - 1 \in 0 .. N - 1 /\ n - 1 \notin Missing
    BY <1>3, <1>4
  <1>6. n - 1 \in S
    BY <1>5
  <1>7. (n - 1) + 1 \in S
    BY <1>5, <1>6
  <1>8. QED
    BY <1>3, <1>4, <1>7

\* Max is the greatest element of a set of positions.
LEMMA MaxIsGreatest ==
  ASSUME NEW n \in Nat, NEW S \in SUBSET (1 .. n), S # {}
  PROVE  Max(S) \in S /\ \A i \in S : i <= Max(S)
  <1> DEFINE D == {n - i : i \in S}
  <1>1. D \in SUBSET Nat /\ D # {}
    <2>1. \A i \in S : n - i \in Nat
      OBVIOUS
    <2>2. QED
      BY <2>1
  <1>2. PICK d \in D : \A e \in D : d <= e
    BY <1>1, LeastNatural
  <1>3. PICK x \in S : d = n - x
    BY <1>2
  <1>4. \A i \in S : x >= i
    <2>1. TAKE i \in S
    <2>2. n - i \in D
      OBVIOUS
    <2>3. d <= n - i
      BY <1>2, <2>2
    <2>4. QED
      BY <1>3, <2>3
  <1>5. Max(S) \in S /\ \A i \in S : Max(S) >= i
    BY <1>4 DEF Max
  <1>6. QED
    BY <1>5

\* Min is the least element of a set of naturals.
LEMMA MinIsLeast ==
  ASSUME NEW S \in SUBSET Nat, S # {}
  PROVE  Min(S) \in S /\ \A i \in S : Min(S) <= i
  <1>1. PICK n \in S : \A m \in S : n <= m
    BY LeastNatural
  <1>2. QED
    BY <1>1 DEF Min

\* The greatest number from p to i is i.
LEMMA MaxOfInterval ==
  ASSUME NEW p \in Nat, NEW i \in Nat, p <= i
  PROVE  Max(p .. i) = i
  <1>1. i \in p .. i /\ \A y \in p .. i : i >= y
    OBVIOUS
  <1>2. Max(p .. i) \in p .. i /\ \A y \in p .. i : Max(p .. i) >= y
    BY <1>1 DEF Max
  <1>3. QED
    BY <1>1, <1>2

--------------------------------------------------------------------------------
(* A sum over a set of positions, taken term by term.                          *)

Pick(s) == CHOOSE x \in s : TRUE

\* How FoldFunctionOnSet adds: over the subsets of 1 .. N.
Adds(f, N, g) ==
  g = [s \in SUBSET (1 .. N) |-> IF s = {} THEN 0 ELSE f[Pick(s)] + g[s \ {Pick(s)}]]

\* The order does not matter.
AnyOrder(f, N, g) ==
  /\ g \in [SUBSET (1 .. N) -> Nat] /\ g[{}] = 0
  /\ \A s \in SUBSET (1 .. N) : \A x \in s : g[s] = f[x] + g[s \ {x}]

\* There is a sum.
LEMMA SumExists ==
  ASSUME NEW N \in Nat, NEW f, \A k \in 1 .. N : f[k] \in Nat
  PROVE  \E g : AnyOrder(f, N, g)
  <1> DEFINE S == {k \in 0 .. N : \E g : AnyOrder(f, k, g)}
  <1>1. 0 \in S
    <2> DEFINE g == [s \in {{}} |-> 0]
    <2>1. SUBSET (1 .. 0) = {{}}
      OBVIOUS
    <2>2. AnyOrder(f, 0, g)
      BY <2>1 DEF AnyOrder
    <2>3. QED
      BY <2>2
  <1>2. \A k \in 0 .. N - 1 : k \in S => k + 1 \in S
    <2> TAKE k \in 0 .. N - 1
    <2> HAVE k \in S
    <2>1. PICK g : AnyOrder(f, k, g)
      OBVIOUS
    <2> DEFINE h == [s \in SUBSET (1 .. k + 1) |->
                       IF k + 1 \in s THEN f[k + 1] + g[s \ {k + 1}] ELSE g[s]]
    <2>2. f[k + 1] \in Nat /\ k \in Nat
      OBVIOUS
    <2>3. ASSUME NEW s \in SUBSET (1 .. k + 1)
          PROVE  s \ {k + 1} \in SUBSET (1 .. k) /\ g[s \ {k + 1}] \in Nat
      <3>1. s \ {k + 1} \in SUBSET (1 .. k)
        OBVIOUS
      <3>2. QED
        BY <2>1, <3>1 DEF AnyOrder
    <2>4. h \in [SUBSET (1 .. k + 1) -> Nat]
      <3>1. ASSUME NEW s \in SUBSET (1 .. k + 1)
            PROVE  (IF k + 1 \in s THEN f[k + 1] + g[s \ {k + 1}] ELSE g[s]) \in Nat
        <4>1. CASE k + 1 \in s
          <5>1. g[s \ {k + 1}] \in Nat
            BY <2>3
          <5> HIDE DEF h
          <5>2. f[k + 1] + g[s \ {k + 1}] \in Nat
            BY <2>2, <5>1
          <5>3. QED
            BY <4>1, <5>2
        <4>2. CASE k + 1 \notin s
          <5>1. s = s \ {k + 1}
            BY <4>2
          <5>2. QED
            BY <2>3, <4>2, <5>1
        <4>3. QED
          BY <4>1, <4>2
      <3>2. QED
        BY <3>1
    <2>5. h[{}] = 0
      BY <2>1 DEF AnyOrder
    <2>6. ASSUME NEW s \in SUBSET (1 .. k + 1), NEW x \in s
          PROVE  h[s] = f[x] + h[s \ {x}]
      <3>1. CASE x = k + 1
        <4>1. h[s] = f[k + 1] + g[s \ {k + 1}]
          BY <3>1
        <4>2. s \ {x} \in SUBSET (1 .. k + 1) /\ k + 1 \notin s \ {x}
          BY <3>1
        <4>3. h[s \ {x}] = g[s \ {k + 1}]
          BY <3>1, <4>2
        <4>4. QED
          BY <3>1, <4>1, <4>3
      <3>2. CASE x # k + 1 /\ k + 1 \in s
        <4> DEFINE t == s \ {k + 1}
        <4>1. h[s] = f[k + 1] + g[t]
          BY <3>2
        <4>2. t \in SUBSET (1 .. k) /\ x \in t
          BY <2>3, <3>2
        <4>3. g[t] = f[x] + g[t \ {x}]
          BY <2>1, <4>2 DEF AnyOrder
        <4>4. s \ {x} \in SUBSET (1 .. k + 1) /\ k + 1 \in s \ {x}
          BY <3>2
        <4>5. h[s \ {x}] = f[k + 1] + g[(s \ {x}) \ {k + 1}]
          BY <4>4
        <4>6. (s \ {x}) \ {k + 1} = t \ {x}
          OBVIOUS
        <4>7. f[x] \in Nat /\ g[t \ {x}] \in Nat
          <5>1. t \ {x} \in SUBSET (1 .. k) /\ x \in 1 .. k
            BY <4>2
          <5>2. QED
            BY <2>1, <5>1 DEF AnyOrder
        <4> HIDE DEF h, t
        <4>8. QED
          BY <2>2, <4>1, <4>3, <4>5, <4>6, <4>7
      <3>3. CASE k + 1 \notin s
        <4>1. s \in SUBSET (1 .. k) /\ s \ {x} \in SUBSET (1 .. k + 1)
          BY <3>3
        <4>2. h[s] = g[s] /\ h[s \ {x}] = g[s \ {x}]
          BY <3>3, <4>1
        <4>3. QED
          BY <2>1, <4>1, <4>2 DEF AnyOrder
      <3>4. QED
        BY <3>1, <3>2, <3>3
    <2> HIDE DEF h
    <2>7. AnyOrder(f, k + 1, h)
      BY <2>4, <2>5, <2>6 DEF AnyOrder
    <2>8. QED
      BY <2>7
  <1> HIDE DEF S
  <1>3. \A k \in 0 .. N : k \in S
    BY <1>1, <1>2, UpTo
  <1>4. N \in S
    BY <1>3
  <1>5. QED
    BY <1>4 DEF S

\* There is only one way to add.
LEMMA SumsAgree ==
  ASSUME NEW N \in Nat, NEW M \in Nat, N <= M, NEW f, NEW g, NEW h,
         Adds(f, N, g), Adds(f, M, h)
  PROVE  \A s \in SUBSET (1 .. N) : g[s] = h[s]
  <1> DEFINE Bad == {s \in SUBSET (1 .. N) : g[s] # h[s]}
             Sizes == {Cardinality(s) : s \in Bad}
  <1>1. SUFFICES ASSUME Bad # {} PROVE FALSE
    OBVIOUS
  <1>2. \A s \in SUBSET (1 .. N) : IsFiniteSet(s) /\ Cardinality(s) \in Nat
    <2>1. TAKE s \in SUBSET (1 .. N)
    <2>2. IsFiniteSet(1 .. N)
      BY FS_Interval
    <2>3. IsFiniteSet(s)
      BY <2>2, FS_Subset
    <2>4. QED
      BY <2>3, FS_CardinalityType
  <1>3. Sizes \in SUBSET Nat /\ Sizes # {}
    BY <1>1, <1>2
  <1>4. PICK c \in Sizes : \A d \in Sizes : c <= d
    BY <1>3, LeastNatural
  <1>5. PICK s \in Bad : c = Cardinality(s)
    BY <1>4
  <1>6. s \in SUBSET (1 .. N) /\ s \in SUBSET (1 .. M) /\ g[s] # h[s]
    BY <1>5
  <1>7. s # {}
    BY <1>6 DEF Adds
  <1> DEFINE x == Pick(s)
  <1>8. x \in s
    BY <1>7 DEF Pick
  <1> HIDE DEF x
  <1>9. g[s] = f[x] + g[s \ {x}] /\ h[s] = f[x] + h[s \ {x}]
    BY <1>6, <1>7 DEF Adds, x
  <1>10. s \ {x} \in Bad
    BY <1>6, <1>9
  <1>11. Cardinality(s \ {x}) = c - 1
    BY <1>2, <1>5, <1>6, <1>8, FS_RemoveElement
  <1>12. c \in Nat /\ c - 1 \in Sizes
    BY <1>3, <1>4, <1>10, <1>11
  <1>13. QED
    BY <1>4, <1>12

Sum(f, k) == FoldFunctionOnSet(+, 0, f, 1 .. k)

\* A sum is the sum of one term less, and the last term.
LEMMA SumStep ==
  ASSUME NEW N \in Nat, NEW f, \A k \in 1 .. N : f[k] \in Nat
  PROVE  /\ Sum(f, 0) = 0
         /\ \A k \in 0 .. N : Sum(f, k) \in Nat
         /\ \A k \in 0 .. N - 1 : Sum(f, k + 1) = Sum(f, k) + f[k + 1]
  <1>1. PICK G : AnyOrder(f, N, G)
    BY SumExists
  <1>2. Adds(f, N, G)
    <2>1. ASSUME NEW s \in SUBSET (1 .. N)
          PROVE  G[s] = IF s = {} THEN 0 ELSE f[Pick(s)] + G[s \ {Pick(s)}]
      <3>1. CASE s = {}
        BY <1>1, <3>1 DEF AnyOrder
      <3>2. CASE s # {}
        <4>1. Pick(s) \in s
          BY <3>2 DEF Pick
        <4>2. QED
          BY <1>1, <3>2, <4>1 DEF AnyOrder
      <3>3. QED
        BY <3>1, <3>2
    <2>2. G = [s \in SUBSET (1 .. N) |-> G[s]]
      BY <1>1 DEF AnyOrder
    <2>3. QED
      BY <2>1, <2>2 DEF Adds
  <1>3. ASSUME NEW k \in 0 .. N
        PROVE  Sum(f, k) = G[1 .. k]
    <2> DEFINE g == CHOOSE g : Adds(f, k, g)
    <2>1. Sum(f, k) = g[1 .. k]
      BY DEF Sum, FoldFunctionOnSet, MapThenFoldSet, Adds, Pick
    <2>2. \E e : Adds(f, k, e)
      <3> DEFINE e == [s \in SUBSET (1 .. k) |-> G[s]]
      <3>1. \A s \in SUBSET (1 .. k) : s \in SUBSET (1 .. N)
        OBVIOUS
      <3>2. ASSUME NEW s \in SUBSET (1 .. k)
            PROVE  G[s] = IF s = {} THEN 0 ELSE f[Pick(s)] + e[s \ {Pick(s)}]
        BY <1>2, <3>1 DEF Adds
      <3>3. e = [s \in SUBSET (1 .. k) |->
                   IF s = {} THEN 0 ELSE f[Pick(s)] + e[s \ {Pick(s)}]]
        BY <3>2
      <3> HIDE DEF e
      <3>4. Adds(f, k, e)
        BY <3>3 DEF Adds
      <3>5. QED
        BY <3>4
    <2>3. Adds(f, k, g)
      BY <2>2
    <2> HIDE DEF g
    <2>4. g[1 .. k] = G[1 .. k]
      <3>1. \A s \in SUBSET (1 .. k) : g[s] = G[s]
        <4>1. k \in Nat /\ k <= N
          OBVIOUS
        <4>2. QED
          BY <1>2, <2>3, <4>1, SumsAgree
      <3>2. QED
        BY <3>1
    <2>5. QED
      BY <2>1, <2>4
  <1>4. Sum(f, 0) = 0
    <2>1. 1 .. 0 = {} /\ Sum(f, 0) = G[1 .. 0]
      BY <1>3
    <2>2. QED
      BY <1>1, <2>1 DEF AnyOrder
  <1>5. \A k \in 0 .. N : Sum(f, k) \in Nat
    <2>1. TAKE k \in 0 .. N
    <2>2. 1 .. k \in SUBSET (1 .. N)
      OBVIOUS
    <2>3. QED
      BY <1>1, <1>3, <2>2 DEF AnyOrder
  <1>6. ASSUME NEW k \in 0 .. N - 1
        PROVE  Sum(f, k + 1) = Sum(f, k) + f[k + 1]
    <2>1. 1 .. k + 1 \in SUBSET (1 .. N) /\ k + 1 \in 1 .. k + 1
      OBVIOUS
    <2>2. (1 .. k + 1) \ {k + 1} = 1 .. k
      OBVIOUS
    <2>3. G[1 .. k + 1] = f[k + 1] + G[1 .. k]
      <3>1. \A s \in SUBSET (1 .. N) : \A x \in s : G[s] = f[x] + G[s \ {x}]
        BY <1>1 DEF AnyOrder
      <3>2. G[1 .. k + 1] = f[k + 1] + G[(1 .. k + 1) \ {k + 1}]
        BY <2>1, <3>1
      <3>3. QED
        BY <2>2, <3>2
    <2>4. Sum(f, k + 1) = G[1 .. k + 1] /\ Sum(f, k) = G[1 .. k]
      <3>1. k \in 0 .. N /\ k + 1 \in 0 .. N
        OBVIOUS
      <3>2. QED
        BY <1>3, <3>1
    <2>5. Sum(f, k) \in Nat /\ f[k + 1] \in Nat
      BY <1>5
    <2>6. QED
      BY <2>3, <2>4, <2>5
  <1>7. QED
    BY <1>4, <1>5, <1>6
================================================================================
