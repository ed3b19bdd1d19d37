-------------------------- MODULE SampleThreadsProofs --------------------------
(* Proofs of the safety properties of SampleThreads, for any number of         *)
(* threads, any profile and any contents of the memory past start_indices.     *)
EXTENDS SampleThreads, TLAPS

\* prefix holds the sums the first loop has seen.
PrefixInv ==
  /\ prefix[0] = 0
  /\ pc \in {"summing", "cutting"} => i <= n
  /\ \A k \in 0 .. n - 1 :
       pc # "summing" \/ k < i => prefix[k + 1] = prefix[k] + len[k]
  /\ \A a, b \in 0 .. n :
       a <= b /\ (pc # "summing" \/ b <= i) => prefix[a] <= prefix[b]
  /\ pc = "summing" => sum = prefix[i] /\ startIndices = <<0>>
  /\ pc # "summing" => partitionSize = prefix[n] \div NumThreads

Closed == IF pc \in {"summing", "cutting"} THEN Len(startIndices)
                                           ELSE Len(startIndices) - 1

\* The groups are consecutive, none is larger than partition_size but for its
\* last sample, and the closed ones are at least that large.
GroupInv ==
  /\ Len(startIndices) >= 1
  /\ startIndices[1] = 0
  /\ \A a, b \in 1 .. Len(startIndices) :
       a <= b => startIndices[a] <= startIndices[b]
  /\ pc \notin {"summing", "cutting"} =>
       Len(startIndices) >= 2 /\ startIndices[Len(startIndices)] = n
  /\ \A k \in 1 .. Len(startIndices) - 1 :
       startIndices[k] + 1 < startIndices[k + 1] =>
         Bytes(startIndices[k], startIndices[k + 1] - 1) < partitionSize
  /\ \A k \in 1 .. Closed :
       pc # "summing" => prefix[startIndices[k]] >= (k - 1) * partitionSize
  /\ pc = "cutting" =>
       LET last == startIndices[Len(startIndices)]
       IN  /\ last <= i
           /\ sum = Bytes(last, i)
           /\ last = i \/ sum < partitionSize

\* No sample before the last index is between two groups.
CoverInv ==
  \A s \in 0 .. n - 1 :
    s < startIndices[Len(startIndices)] =>
      \E k \in 1 .. Len(startIndices) - 1 :
        startIndices[k] <= s /\ s < startIndices[k + 1]

\* A bounded thread has parsed exactly the samples between its first index and
\* its loop variable.
WorkerInv ==
  /\ pc \in {"summing", "cutting"} => \A t \in Threads : state[t] = "unborn"
  /\ pc = "spawning" =>
       i <= NumThreads /\ \A t \in Threads : t < i <=> state[t] # "unborn"
  /\ pc = "joining" =>
       i <= NumThreads /\ \A t \in Threads : t < i => state[t] = "exited"
  /\ pc = "returned" => \A t \in Threads : state[t] = "exited"
  /\ \A t \in Threads : state[t] \in {"unborn", "created"} =>
       \A s \in 0 .. n - 1 : t \notin parsedBy[s]
  /\ \A t \in Threads : Bounded(t) /\ state[t] \in {"looping", "exited"} =>
       /\ startIndices[t + 1] <= j[t] /\ j[t] <= startIndices[t + 2]
       /\ state[t] = "exited" => j[t] = startIndices[t + 2]
       /\ \A s \in 0 .. n - 1 :
            t \in parsedBy[s] <=> startIndices[t + 1] <= s /\ s < j[t]

IInv == TypeOK /\ PrefixInv /\ GroupInv /\ CoverInv /\ WorkerInv
--------------------------------------------------------------------------------
\* What the division of C++ gives for a positive divisor.
LEMMA DivLemma ==
  ASSUME NEW s \in Nat, NEW d \in Nat \ {0}
  PROVE  /\ s \div d \in Nat
         /\ d * (s \div d) <= s /\ s - d * (s \div d) < d
OBVIOUS

\* TypeOK holds initially and every step of the calling thread or of a parsing
\* thread preserves it.
THEOREM Typing == Spec => []TypeOK
<1>1. Init => TypeOK
  <2> SUFFICES ASSUME Init PROVE TypeOK
    OBVIOUS
  <2> USE DEF Init
  <2>1. n \in Nat /\ n \in 0 .. n
    BY MaxSamplesAssumption
  <2>2. len \in [0 .. n - 1 -> Nat]
    BY SizesAssumption
  <2>3. startIndices \in Seq(0 .. n)
    BY <2>1
  <2>4. parsedBy \in [0 .. n - 1 -> SUBSET Threads]
    OBVIOUS
  <2>5. prefix \in [0 .. n -> Nat]
    OBVIOUS
  <2>6. j \in [Threads -> Int] /\ state \in [Threads -> States]
    BY DEF States
  <2> QED
    BY <2>1, <2>2, <2>3, <2>4, <2>5, <2>6 DEF TypeOK
<1>2. ASSUME TypeOK, [Next]_vars PROVE TypeOK'
  <2> USE <1>2
  <2>1. CASE AddUp
    <3>1. i \in 0 .. n - 1 /\ i + 1 \in 0 .. n /\ i + 1 \in Nat /\ i \in 0 .. n
      BY <2>1 DEF AddUp, TypeOK
    <3>2. sum + len[i] \in Nat /\ prefix[i] + len[i] \in Nat
      BY <3>1 DEF TypeOK
    <3>3. prefix' \in [0 .. n -> Nat]
      BY <2>1, <3>1, <3>2 DEF AddUp, TypeOK
    <3> QED
      BY <2>1, <3>1, <3>2, <3>3 DEF AddUp, TypeOK, inputs, workers
  <2>2. CASE SetPartitionSize
    <3>1. sum \div NumThreads \in Nat
      BY DivLemma, NumThreadsAssumption DEF TypeOK
    <3> QED
      BY <2>2, <3>1 DEF SetPartitionSize, TypeOK, inputs, workers
  <2>3. CASE Cut
    <3>1. i \in 0 .. n - 1 /\ i + 1 \in 0 .. n /\ i + 1 \in Nat
      BY <2>3 DEF Cut, TypeOK
    <3>2. sum + len[i] \in Nat
      BY <3>1 DEF TypeOK
    <3>3. Append(startIndices, i + 1) \in Seq(0 .. n)
      BY <3>1 DEF TypeOK
    <3>4. startIndices' \in Seq(0 .. n) /\ sum' \in Nat
      <4>1. CASE sum + len[i] >= partitionSize
        <5>1. startIndices' = Append(startIndices, i + 1) /\ sum' = 0
          BY <2>3, <4>1 DEF Cut
        <5> QED BY <3>3, <5>1
      <4>2. CASE ~(sum + len[i] >= partitionSize)
        <5>1. startIndices' = startIndices /\ sum' = sum + len[i]
          BY <2>3, <4>2 DEF Cut
        <5> QED BY <3>2, <5>1 DEF TypeOK
      <4> QED BY <4>1, <4>2
    <3> QED
      BY <2>3, <3>1, <3>4 DEF Cut, TypeOK, inputs, workers
  <2>4. CASE EndCut
    <3>1. Append(startIndices, n) \in Seq(0 .. n)
      BY DEF TypeOK
    <3> QED
      BY <2>4, <3>1 DEF EndCut, TypeOK, inputs, workers
  <2>5. CASE Spawn
    <3>1. state' \in [Threads -> States]
      BY <2>5 DEF Spawn, TypeOK, States
    <3>2. i' \in Nat
      BY <2>5 DEF Spawn, TypeOK
    <3> QED
      BY <2>5, <3>1, <3>2 DEF Spawn, TypeOK, inputs
  <2>6. CASE EndSpawn \/ Join \/ Return
    <3>1. i' \in Nat
      BY <2>6 DEF EndSpawn, Join, Return, TypeOK
    <3> QED
      BY <2>6, <3>1 DEF EndSpawn, Join, Return, TypeOK, inputs, workers
  <2>7. ASSUME NEW t \in Threads, Enter(t) PROVE TypeOK'
    <3>1. StartIndex(t) \subseteq Int
      <4>1. CASE t < Len(startIndices)
        <5>1. t + 1 \in 1 .. Len(startIndices)
          BY <4>1 DEF Threads, TypeOK
        <5>2. startIndices[t + 1] \in 0 .. n
          BY <5>1 DEF TypeOK
        <5> QED BY <4>1, <5>2 DEF StartIndex, TypeOK
      <4> QED BY <4>1, WildAssumption DEF StartIndex
    <3>2. j' \in [Threads -> Int]
      BY <2>7, <3>1 DEF Enter, TypeOK
    <3>3. state' \in [Threads -> States]
      BY <2>7 DEF Enter, TypeOK, States
    <3> QED
      BY <2>7, <3>2, <3>3 DEF Enter, TypeOK, inputs, master
  <2>8. ASSUME NEW t \in Threads, Parse(t) PROVE TypeOK'
    <3>1. j' \in [Threads -> Int]
      BY <2>8 DEF Parse, TypeOK
    <3>2. parsedBy' \in [0 .. n - 1 -> SUBSET Threads]
      BY <2>8 DEF Parse, TypeOK
    <3> QED
      BY <2>8, <3>1, <3>2 DEF Parse, TypeOK, inputs, master
  <2>9. ASSUME NEW t \in Threads, Crash(t) \/ Exit(t) PROVE TypeOK'
    <3>1. state' \in [Threads -> States]
      BY <2>9 DEF Crash, Exit, workers, TypeOK, States
    <3> QED
      BY <2>9, <3>1 DEF Crash, Exit, TypeOK, inputs, master, workers
  <2>10. CASE UNCHANGED vars
    BY <2>10 DEF TypeOK, vars, inputs, master, workers
  <2> QED
    BY <2>1, <2>2, <2>3, <2>4, <2>5, <2>6, <2>7, <2>8, <2>9, <2>10
       DEF Next, Master, Worker, Stopped
<1> QED
  BY <1>1, <1>2, PTL DEF Spec

\* The steps after the groups are made leave the sums and the groups alone.
LEMMA LaterSteps ==
  ASSUME [Next]_vars, ~AddUp, ~SetPartitionSize, ~Cut, ~EndCut
  PROVE  /\ UNCHANGED <<n, len, prefix, sum, partitionSize, startIndices>>
         /\ \/ UNCHANGED <<pc, i>>
            \/ {pc, pc'} \cap {"summing", "cutting"} = {}
            \/ pc' = "crashed" /\ \E t \in Threads : Crash(t)
<1>1. CASE Spawn
  BY <1>1 DEF Spawn, inputs
<1>2. CASE EndSpawn \/ Join \/ Return
  BY <1>2 DEF EndSpawn, Join, Return, inputs
<1>3. ASSUME NEW t \in Threads, Enter(t) \/ Parse(t) \/ Exit(t)
      PROVE  UNCHANGED <<n, len, prefix, sum, partitionSize, startIndices, pc, i>>
  BY <1>3 DEF Enter, Parse, Exit, inputs, master
<1>4. ASSUME NEW t \in Threads, Crash(t)
      PROVE  /\ UNCHANGED <<n, len, prefix, sum, partitionSize, startIndices, i>>
             /\ pc' = "crashed"
  BY <1>4 DEF Crash, inputs
<1>5. CASE UNCHANGED vars
  BY <1>5 DEF vars, inputs, master
<1> QED
  BY <1>1, <1>2, <1>3, <1>4, <1>5 DEF Next, Master, Worker, Stopped

\* A thread exists only once the groups are made.
LEMMA NoEarlyCrash ==
  ASSUME WorkerInv, NEW t \in Threads, Crash(t)
  PROVE  pc \notin {"summing", "cutting"}
BY DEF WorkerInv, Crash

LEMMA PrefixStep ==
  ASSUME TypeOK, PrefixInv, WorkerInv, [Next]_vars
  PROVE  PrefixInv'
<1>1. CASE AddUp
  <2> USE <1>1 DEF AddUp
  <2>1. /\ i \in 0 .. n - 1 /\ i \in 0 .. n /\ i + 1 \in 0 .. n /\ n \in Nat
        /\ len[i] \in Nat /\ prefix[i] \in Nat
    BY DEF TypeOK
  <2>2. /\ UNCHANGED <<n, len, pc, startIndices, partitionSize>> /\ i' = i + 1
        /\ pc = "summing"
    BY DEF inputs
  <2>3. /\ prefix'[i + 1] = prefix[i] + len[i]
        /\ \A k \in 0 .. n : k # i + 1 => prefix'[k] = prefix[k]
    BY <2>1 DEF TypeOK
  <2>4. prefix'[0] = 0 /\ sum' = prefix'[i']
    BY <2>1, <2>2, <2>3 DEF PrefixInv
  <2>5. \A k \in 0 .. n - 1 : k < i + 1 => prefix'[k + 1] = prefix'[k] + len[k]
    BY <2>1, <2>2, <2>3 DEF PrefixInv
  <2>6. \A a, b \in 0 .. n : a <= b /\ b <= i + 1 => prefix'[a] <= prefix'[b]
    <3> SUFFICES ASSUME NEW a \in 0 .. n, NEW b \in 0 .. n, a <= b, b <= i + 1
                 PROVE  prefix'[a] <= prefix'[b]
      OBVIOUS
    <3>1. CASE b <= i
      BY <2>1, <2>2, <2>3, <3>1 DEF PrefixInv
    <3>2. CASE b = i + 1 /\ a = i + 1
      BY <2>1, <2>3, <3>2
    <3>3. CASE b = i + 1 /\ a <= i
      <4>1. prefix[a] <= prefix[i]
        BY <2>1, <2>2, <3>3 DEF PrefixInv
      <4>2. prefix[a] \in Nat
        BY DEF TypeOK
      <4> QED BY <2>1, <2>3, <3>3, <4>1, <4>2
    <3> QED BY <2>1, <3>1, <3>2, <3>3
  <2> QED
    BY <2>1, <2>2, <2>4, <2>5, <2>6 DEF PrefixInv
<1>2. CASE SetPartitionSize
  <2>1. /\ UNCHANGED <<n, len, prefix>> /\ i' = 0 /\ i = n /\ pc = "summing"
        /\ pc' = "cutting" /\ partitionSize' = prefix[n] \div NumThreads
    BY <1>2 DEF SetPartitionSize, inputs, PrefixInv
  <2>2. n \in Nat /\ \A k \in 0 .. n - 1 : k < n
    BY DEF TypeOK
  <2> QED BY <2>1, <2>2 DEF PrefixInv
<1>3. CASE Cut
  <2>1. /\ UNCHANGED <<n, len, prefix, partitionSize, pc>> /\ i' = i + 1
        /\ i < n /\ i \in Nat /\ n \in Nat /\ pc = "cutting"
    BY <1>3 DEF Cut, inputs, TypeOK
  <2> QED BY <2>1 DEF PrefixInv
<1>4. CASE EndCut
  <2>1. /\ UNCHANGED <<n, len, prefix, partitionSize>>
        /\ pc = "cutting" /\ pc' = "spawning"
    BY <1>4 DEF EndCut, inputs
  <2> QED BY <2>1 DEF PrefixInv
<1>5. CASE ~AddUp /\ ~SetPartitionSize /\ ~Cut /\ ~EndCut
  <2>1. UNCHANGED <<n, len, prefix, sum, partitionSize, startIndices>>
    BY <1>5, LaterSteps
  <2>2. \/ UNCHANGED <<pc, i>>
        \/ {pc, pc'} \cap {"summing", "cutting"} = {}
    BY <1>5, LaterSteps, NoEarlyCrash
  <2> QED BY <2>1, <2>2 DEF PrefixInv
<1> QED
  BY <1>1, <1>2, <1>3, <1>4, <1>5

LEMMA OneMoreGroup ==
  ASSUME NEW k \in Nat, NEW p \in Nat, NEW x \in Nat, NEW y \in Nat,
         x >= (k - 1) * p, y >= x + p
  PROVE  y >= ((k + 1) - 1) * p
OBVIOUS

LEMMA AppendLemma ==
  ASSUME NEW S, NEW s \in Seq(S), NEW e \in S
  PROVE  /\ Len(Append(s, e)) = Len(s) + 1
         /\ \A k \in 1 .. Len(s) : Append(s, e)[k] = s[k]
         /\ Append(s, e)[Len(s) + 1] = e
OBVIOUS

LEMMA GroupStep ==
  ASSUME TypeOK, PrefixInv, GroupInv, WorkerInv, [Next]_vars
  PROVE  GroupInv'
<1> DEFINE m == Len(startIndices)
           last == startIndices[m]
<1>0. /\ m \in Nat /\ n \in Nat /\ i \in Nat /\ m >= 1 /\ partitionSize \in Nat
      /\ \A k \in 1 .. m : startIndices[k] \in 0 .. n
      /\ \A k \in 0 .. n : prefix[k] \in Nat
  BY DEF TypeOK, GroupInv
<1> HIDE DEF m
<1>1. CASE AddUp
  <2>1. /\ UNCHANGED <<n, pc, startIndices>> /\ pc = "summing"
        /\ startIndices = <<0>>
    BY <1>1 DEF AddUp, inputs, PrefixInv
  <2> QED BY <2>1 DEF GroupInv, Closed
<1>2. CASE SetPartitionSize
  <2>1. /\ UNCHANGED <<n, prefix, startIndices>> /\ pc' = "cutting"
        /\ startIndices = <<0>> /\ i' = 0 /\ sum' = 0 /\ partitionSize' \in Nat
    BY <1>2, DivLemma, NumThreadsAssumption
       DEF SetPartitionSize, inputs, PrefixInv, TypeOK
  <2>2. prefix[0] = 0
    BY DEF PrefixInv
  <2>3. startIndices'[1] = 0 /\ Len(startIndices') = 1 /\ prefix' = prefix
    BY <2>1
  <2>4. sum' = Bytes(0, 0)'
    BY <2>1, <2>2 DEF Bytes
  <2>5. \A k \in 1 .. 1 : k = 1
    OBVIOUS
  <2>6. prefix'[startIndices'[1]] >= (1 - 1) * partitionSize'
    BY <2>1, <2>2, <2>3
  <2> QED BY <2>1, <2>3, <2>4, <2>5, <2>6 DEF GroupInv, Closed
<1>3. CASE Cut
  <2>1. /\ UNCHANGED <<n, len, prefix, partitionSize, pc>> /\ i' = i + 1
        /\ i \in 0 .. n - 1 /\ i \in 0 .. n /\ i + 1 \in 0 .. n /\ pc = "cutting"
        /\ len[i] \in Nat /\ sum \in Nat
    BY <1>3 DEF Cut, inputs, TypeOK
  <2>2. /\ last \in 0 .. n /\ last <= i
        /\ sum = prefix[i] - prefix[last]
        /\ last = i \/ sum < partitionSize
    BY <1>0, <2>1 DEF GroupInv, m, Bytes
  <2>3. prefix[i + 1] = prefix[i] + len[i]
    BY <2>1 DEF PrefixInv
  <2>4. CASE sum + len[i] >= partitionSize
    <3>1. startIndices' = Append(startIndices, i + 1) /\ sum' = 0
      BY <1>3, <2>4 DEF Cut
    <3>2. /\ Len(startIndices') = m + 1
          /\ \A k \in 1 .. m : startIndices'[k] = startIndices[k]
          /\ startIndices'[m + 1] = i + 1
      BY <2>1, <3>1, AppendLemma DEF m, TypeOK
    <3>3. startIndices'[1] = 0
      BY <1>0, <3>2 DEF GroupInv
    <3>4. \A k \in 1 .. m : startIndices[k] <= last
      BY <1>0 DEF GroupInv, m
    <3>5. \A a, b \in 1 .. m + 1 : a <= b => startIndices'[a] <= startIndices'[b]
      <4> SUFFICES ASSUME NEW a \in 1 .. m + 1, NEW b \in 1 .. m + 1, a <= b
                   PROVE  startIndices'[a] <= startIndices'[b]
        OBVIOUS
      <4>1. CASE b <= m
        <5>1. a \in 1 .. m /\ b \in 1 .. m
          BY <1>0, <4>1
        <5> QED BY <3>2, <5>1 DEF GroupInv, m
      <4>2. CASE b = m + 1 /\ a <= m
        <5>1. a \in 1 .. m
          BY <1>0, <4>2
        <5> QED BY <1>0, <2>1, <2>2, <3>2, <3>4, <4>2, <5>1
      <4>3. CASE a = m + 1 /\ b = m + 1
        BY <2>1, <3>2, <4>3
      <4> QED BY <1>0, <4>1, <4>2, <4>3
    <3>6. \A k \in 1 .. m :
            startIndices'[k] + 1 < startIndices'[k + 1] =>
              Bytes(startIndices'[k], startIndices'[k + 1] - 1) < partitionSize
      <4> SUFFICES ASSUME NEW k \in 1 .. m,
                          startIndices'[k] + 1 < startIndices'[k + 1]
                   PROVE  Bytes(startIndices'[k], startIndices'[k + 1] - 1)
                            < partitionSize
        OBVIOUS
      <4>1. CASE k < m
        <5>1. k \in 1 .. m - 1 /\ k \in 1 .. m /\ k + 1 \in 1 .. m
          BY <1>0, <4>1
        <5> QED BY <3>2, <5>1 DEF GroupInv, m
      <4>2. CASE k = m
        <5>1. startIndices'[k] = last /\ startIndices'[k + 1] = i + 1
          BY <1>0, <3>2, <4>2
        <5>2. last < i /\ (i + 1) - 1 = i
          BY <2>1, <2>2, <5>1
        <5>3. Bytes(last, i) < partitionSize
          BY <2>2, <5>2 DEF Bytes
        <5> QED BY <5>1, <5>2, <5>3
      <4> QED BY <1>0, <4>1, <4>2
    <3>7. \A k \in 1 .. m + 1 : prefix[startIndices'[k]] >= (k - 1) * partitionSize
      <4>1. \A k \in 1 .. m : prefix[startIndices[k]] >= (k - 1) * partitionSize
        BY <2>1 DEF GroupInv, Closed, m
      <4>2. prefix[i + 1] >= ((m + 1) - 1) * partitionSize
        <5>1. prefix[last] >= (m - 1) * partitionSize
          BY <1>0, <4>1
        <5>2. prefix[i + 1] >= prefix[last] + partitionSize
          BY <1>0, <2>1, <2>2, <2>3, <2>4
        <5> HIDE DEF last
        <5> QED BY <1>0, <2>1, <2>2, <5>1, <5>2, OneMoreGroup
      <4>3. \A k \in 1 .. m + 1 : k \in 1 .. m \/ k = m + 1
        BY <1>0
      <4> QED BY <3>2, <4>1, <4>2, <4>3
    <3>8. sum' = prefix[i + 1] - prefix[i + 1]
      BY <1>0, <2>1, <3>1
    <3>9. (m + 1) - 1 = m /\ m + 1 >= 1 /\ i + 1 <= i + 1
      BY <1>0, <2>1
    <3> HIDE DEF last
    <3>10. Closed' = m + 1
      BY <2>1, <3>2 DEF Closed
    <3>11. \A k \in 1 .. m :
             startIndices'[k] + 1 < startIndices'[k + 1] =>
               prefix[startIndices'[k + 1] - 1] - prefix[startIndices'[k]]
                 < partitionSize
      BY <3>6 DEF Bytes
    <3> QED
      BY <2>1, <3>2, <3>3, <3>5, <3>7, <3>8, <3>9, <3>10, <3>11 DEF GroupInv, Bytes
  <2>5. CASE ~(sum + len[i] >= partitionSize)
    <3>1. startIndices' = startIndices /\ sum' = sum + len[i]
      BY <1>3, <2>5 DEF Cut
    <3>2. sum' = prefix[i + 1] - prefix[last]
      BY <1>0, <2>1, <2>2, <2>3, <3>1
    <3>3. last <= i + 1 /\ sum' < partitionSize
      BY <1>0, <2>1, <2>2, <2>5, <3>1
    <3> QED BY <2>1, <3>1, <3>2, <3>3 DEF GroupInv, Closed, Bytes, m
  <2> QED BY <2>4, <2>5
<1>4. CASE EndCut
  <2>1. /\ UNCHANGED <<n, len, prefix, partitionSize>> /\ i = n /\ pc = "cutting"
        /\ pc' = "spawning" /\ startIndices' = Append(startIndices, n)
        /\ n \in 0 .. n /\ sum \in Nat
    BY <1>4 DEF EndCut, inputs, TypeOK
  <2>2. /\ last \in 0 .. n
        /\ sum = prefix[n] - prefix[last]
        /\ last = n \/ sum < partitionSize
    BY <1>0, <2>1 DEF GroupInv, m, Bytes
  <2>3. /\ Len(startIndices') = m + 1
        /\ \A k \in 1 .. m : startIndices'[k] = startIndices[k]
        /\ startIndices'[m + 1] = n
    BY <2>1, AppendLemma DEF m, TypeOK
  <2>4. startIndices'[1] = 0
    BY <1>0, <2>3 DEF GroupInv
  <2>5. \A a, b \in 1 .. m + 1 : a <= b => startIndices'[a] <= startIndices'[b]
    <3> SUFFICES ASSUME NEW a \in 1 .. m + 1, NEW b \in 1 .. m + 1, a <= b
                 PROVE  startIndices'[a] <= startIndices'[b]
      OBVIOUS
    <3>1. CASE b <= m
      <4>1. a \in 1 .. m /\ b \in 1 .. m
        BY <1>0, <3>1
      <4> QED BY <2>3, <4>1 DEF GroupInv, m
    <3>2. CASE b = m + 1
      <4>1. a \in 1 .. m \/ a = m + 1
        BY <1>0
      <4> QED BY <1>0, <2>3, <3>2, <4>1
    <3> QED BY <1>0, <3>1, <3>2
  <2>6. \A k \in 1 .. m :
          startIndices'[k] + 1 < startIndices'[k + 1] =>
            Bytes(startIndices'[k], startIndices'[k + 1] - 1) < partitionSize
    <3> SUFFICES ASSUME NEW k \in 1 .. m,
                        startIndices'[k] + 1 < startIndices'[k + 1]
                 PROVE  Bytes(startIndices'[k], startIndices'[k + 1] - 1)
                          < partitionSize
      OBVIOUS
    <3>1. CASE k < m
      <4>1. k \in 1 .. m - 1 /\ k \in 1 .. m /\ k + 1 \in 1 .. m
        BY <1>0, <3>1
      <4> QED BY <2>3, <4>1 DEF GroupInv, m
    <3>2. CASE k = m
      <4>1. startIndices'[k] = last /\ startIndices'[k + 1] = n
        BY <1>0, <2>3, <3>2
      <4>2. last < n /\ n - 1 \in 0 .. n /\ n - 1 <= n
        BY <1>0, <2>2, <4>1
      <4>3. prefix[n - 1] <= prefix[n]
        BY <2>1, <4>2 DEF PrefixInv
      <4> QED BY SMTT(30), <1>0, <2>1, <2>2, <4>1, <4>2, <4>3 DEF Bytes
    <3> QED BY <1>0, <3>1, <3>2
  <2>7. \A k \in 1 .. m : prefix[startIndices[k]] >= (k - 1) * partitionSize
    BY <2>1 DEF GroupInv, Closed, m
  <2>8. (m + 1) - 1 = m /\ m + 1 >= 2
    BY <1>0
  <2> HIDE DEF last
  <2>9. Closed' = m
    BY <2>1, <2>3, <2>8 DEF Closed
  <2>10. \A k \in 1 .. m :
           startIndices'[k] + 1 < startIndices'[k + 1] =>
             prefix[startIndices'[k + 1] - 1] - prefix[startIndices'[k]]
               < partitionSize
    BY <2>6 DEF Bytes
  <2>11. \A k \in 1 .. m : prefix[startIndices'[k]] >= (k - 1) * partitionSize
    BY <2>3, <2>7
  <2>12. m + 1 >= 1
    BY <1>0
  <2> QED
    BY <2>1, <2>3, <2>4, <2>5, <2>8, <2>9, <2>10, <2>11, <2>12 DEF GroupInv, Bytes
<1>5. CASE ~AddUp /\ ~SetPartitionSize /\ ~Cut /\ ~EndCut
  <2>1. UNCHANGED <<n, len, prefix, sum, partitionSize, startIndices>>
    BY <1>5, LaterSteps
  <2>2. \/ UNCHANGED <<pc, i>>
        \/ {pc, pc'} \cap {"summing", "cutting"} = {}
    BY <1>5, LaterSteps, NoEarlyCrash
  <2>3. CASE UNCHANGED <<pc, i>>
    BY <2>1, <2>3 DEF GroupInv, Closed, Bytes
  <2>4. CASE {pc, pc'} \cap {"summing", "cutting"} = {}
    <3>1. pc \notin {"summing", "cutting"} /\ pc' \notin {"summing", "cutting"}
      BY <2>4
    <3> QED BY <2>1, <3>1 DEF GroupInv, Closed, Bytes
  <2> QED BY <2>2, <2>3, <2>4
<1> QED
  BY <1>1, <1>2, <1>3, <1>4, <1>5

LEMMA CoverAppend ==
  ASSUME TypeOK, GroupInv, CoverInv, NEW e \in 0 .. n,
         startIndices' = Append(startIndices, e), n' = n
  PROVE  CoverInv'
<1> DEFINE m == Len(startIndices)
<1>1. /\ m \in Nat /\ m >= 1 /\ n \in Nat
      /\ \A k \in 1 .. m : startIndices[k] \in 0 .. n
  BY DEF TypeOK, GroupInv
<1>2. /\ Len(startIndices') = m + 1
      /\ \A k \in 1 .. m : startIndices'[k] = startIndices[k]
      /\ startIndices'[m + 1] = e
  BY AppendLemma DEF TypeOK
<1>3. (m + 1) - 1 = m /\ m \in 1 .. m
  BY <1>1
<1>4. ASSUME NEW s \in 0 .. n - 1, s < e
      PROVE  \E k \in 1 .. m : startIndices'[k] <= s /\ s < startIndices'[k + 1]
  <2>1. CASE startIndices[m] <= s
    BY <1>2, <1>3, <1>4, <2>1
  <2>2. CASE s < startIndices[m]
    <3>1. PICK k \in 1 .. m - 1 : startIndices[k] <= s /\ s < startIndices[k + 1]
      BY <2>2 DEF CoverInv
    <3>2. k \in 1 .. m /\ k + 1 \in 1 .. m
      BY <1>1
    <3> QED BY <1>2, <3>1, <3>2
  <2> QED BY <1>1, <1>3, <2>1, <2>2
<1> HIDE DEF m
<1> QED BY <1>2, <1>3, <1>4 DEF CoverInv

LEMMA CoverStep ==
  ASSUME TypeOK, GroupInv, CoverInv, [Next]_vars
  PROVE  CoverInv'
<1>1. CASE AddUp \/ SetPartitionSize
  BY <1>1 DEF AddUp, SetPartitionSize, inputs, CoverInv
<1>2. CASE Cut
  <2>1. CASE sum + len[i] >= partitionSize
    <3>1. i + 1 \in 0 .. n /\ n' = n /\ startIndices' = Append(startIndices, i + 1)
      BY <1>2, <2>1 DEF Cut, inputs, TypeOK
    <3> QED BY <3>1, CoverAppend
  <2>2. CASE ~(sum + len[i] >= partitionSize)
    BY <1>2, <2>2 DEF Cut, inputs, CoverInv
  <2> QED BY <2>1, <2>2
<1>3. CASE EndCut
  <2>1. n \in 0 .. n /\ n' = n /\ startIndices' = Append(startIndices, n)
    BY <1>3 DEF EndCut, inputs, TypeOK
  <2> QED BY <2>1, CoverAppend
<1>4. CASE ~AddUp /\ ~SetPartitionSize /\ ~Cut /\ ~EndCut
  BY <1>4, LaterSteps DEF CoverInv
<1> QED
  BY <1>1, <1>2, <1>3, <1>4

\* Where the two indices of a bounded thread come from.
LEMMA BoundedIndices ==
  ASSUME TypeOK, GroupInv, NEW t \in Threads, Bounded(t)
  PROVE  /\ t + 1 \in 1 .. Len(startIndices) /\ t + 2 \in 1 .. Len(startIndices)
         /\ StartIndex(t) = {startIndices[t + 1]}
         /\ StartIndex(t + 1) = {startIndices[t + 2]}
         /\ startIndices[t + 1] \in 0 .. n /\ startIndices[t + 2] \in 0 .. n
         /\ startIndices[t + 1] <= startIndices[t + 2]
<1>1. /\ t + 1 \in 1 .. Len(startIndices) /\ t + 2 \in 1 .. Len(startIndices)
      /\ t < Len(startIndices) /\ t + 1 < Len(startIndices) /\ t + 1 <= t + 2
      /\ (t + 1) + 1 = t + 2
  BY NumThreadsAssumption DEF Bounded, Threads, TypeOK
<1>2. startIndices[t + 1] \in 0 .. n /\ startIndices[t + 2] \in 0 .. n
  <2>1. \A k \in 1 .. Len(startIndices) : startIndices[k] \in 0 .. n
    BY DEF TypeOK
  <2> QED BY <1>1, <2>1
<1> QED
  BY <1>1, <1>2 DEF StartIndex, GroupInv

\* The part of WorkerInv about one thread.
Slice(t) ==
  Bounded(t) /\ state[t] \in {"looping", "exited"} =>
    /\ startIndices[t + 1] <= j[t] /\ j[t] <= startIndices[t + 2]
    /\ state[t] = "exited" => j[t] = startIndices[t + 2]
    /\ \A s \in 0 .. n - 1 :
         t \in parsedBy[s] <=> startIndices[t + 1] <= s /\ s < j[t]

LEMMA WorkerStep ==
  ASSUME TypeOK, GroupInv, WorkerInv, [Next]_vars
  PROVE  WorkerInv'
<1>1. CASE AddUp \/ SetPartitionSize \/ Cut \/ EndCut
  <2>1. /\ UNCHANGED <<n, state, j, parsedBy>> /\ pc \in {"summing", "cutting"}
        /\ pc' \in {"summing", "cutting"} \/ (pc' = "spawning" /\ i' = 0)
    BY <1>1 DEF AddUp, SetPartitionSize, Cut, EndCut, inputs, workers
  <2>2. \A t \in Threads : state[t] = "unborn"
    BY <2>1 DEF WorkerInv
  <2>3. 0 <= NumThreads /\ \A t \in Threads : ~(t < 0)
    BY NumThreadsAssumption DEF Threads
  <2> QED BY <2>1, <2>2, <2>3 DEF WorkerInv
<1>2. CASE Spawn
  <2>1. /\ UNCHANGED <<n, startIndices, j, parsedBy, pc>> /\ pc = "spawning"
        /\ i \in Threads /\ i \in Nat /\ i' = i + 1 /\ i + 1 <= NumThreads
        /\ state' = [state EXCEPT ![i] = "created"]
    BY <1>2, NumThreadsAssumption DEF Spawn, inputs, Threads, TypeOK
  <2>2. state[i] = "unborn" /\ state \in [Threads -> States]
    BY <2>1 DEF WorkerInv, TypeOK
  <2>3. /\ \A t \in Threads : t # i => state'[t] = state[t]
        /\ state'[i] = "created"
    BY <2>1, <2>2
  <2>4. \A t \in Threads : t < i + 1 <=> t < i \/ t = i
    BY <2>1 DEF Threads
  <2> QED BY <2>1, <2>2, <2>3, <2>4 DEF WorkerInv, Bounded
<1>3. CASE EndSpawn \/ Join \/ Return
  <2>1. UNCHANGED <<n, startIndices, j, parsedBy, state>>
    BY <1>3 DEF EndSpawn, Join, Return, inputs, workers
  <2>2. \A t \in Threads : t \in Nat /\ t < NumThreads /\ ~(t < 0)
    BY NumThreadsAssumption DEF Threads
  <2>3. CASE EndSpawn
    BY <2>1, <2>2, <2>3, NumThreadsAssumption DEF EndSpawn, WorkerInv, Bounded
  <2>4. CASE Join
    <3>1. /\ pc = "joining" /\ pc' = "joining" /\ i' = i + 1 /\ i < NumThreads
          /\ i \in Nat /\ state[i] = "exited"
      BY <2>4 DEF Join, TypeOK
    <3>2. i + 1 <= NumThreads /\ \A t \in Threads : t < i + 1 => t < i \/ t = i
      BY <2>2, <3>1, NumThreadsAssumption
    <3> QED BY <2>1, <3>1, <3>2 DEF WorkerInv, Bounded
  <2>5. CASE Return
    BY <2>1, <2>2, <2>5 DEF Return, WorkerInv, Bounded
  <2> QED BY <1>3, <2>3, <2>4, <2>5
<1>4. ASSUME NEW t \in Threads, Enter(t) \/ Parse(t) \/ Crash(t) \/ Exit(t),
             pc # "crashed"
      PROVE  WorkerInv'
  <2>1. /\ UNCHANGED <<n, startIndices, i>> /\ pc' \in {pc, "crashed"}
        /\ \A u \in Threads :
             u # t => state'[u] = state[u] /\ j'[u] = j[u]
        /\ state[t] \in {"created", "looping"}
        /\ state'[t] \in {"looping", "exited"}
    BY <1>4 DEF Enter, Parse, Crash, Exit, inputs, master, workers, TypeOK
  <2>2. \A u \in Threads : u # t =>
          \A s \in 0 .. n - 1 : u \in parsedBy'[s] <=> u \in parsedBy[s]
    <3>1. CASE Parse(t)
      <4>1. /\ j[t] \in 0 .. n - 1
            /\ parsedBy' = [parsedBy EXCEPT ![j[t]] = @ \union {t}]
        BY <3>1 DEF Parse
      <4> QED BY <4>1 DEF TypeOK
    <3>2. CASE Enter(t) \/ Crash(t) \/ Exit(t)
      BY <3>2 DEF Enter, Crash, Exit, workers
    <3> QED BY <1>4, <3>1, <3>2
  <2>3. pc \in {"spawning", "joining", "crashed"}
    BY <2>1 DEF WorkerInv, TypeOK
  <2>4. Slice(t)'
    <3> SUFFICES ASSUME Bounded(t)' PROVE Slice(t)'
      BY DEF Slice
    <3>1. Bounded(t)
      BY <2>1 DEF Bounded
    <3>2. /\ StartIndex(t) = {startIndices[t + 1]}
          /\ StartIndex(t + 1) = {startIndices[t + 2]}
          /\ startIndices[t + 1] \in 0 .. n /\ startIndices[t + 2] \in 0 .. n
          /\ startIndices[t + 1] <= startIndices[t + 2]
          /\ n \in Nat /\ j[t] \in Int
      BY <3>1, BoundedIndices DEF TypeOK
    <3>3. CASE Enter(t)
      <4>1. j'[t] = startIndices[t + 1] /\ state'[t] = "looping"
        BY <3>2, <3>3 DEF Enter, TypeOK
      <4>2. parsedBy' = parsedBy /\ \A s \in 0 .. n - 1 : t \notin parsedBy[s]
        BY <3>3 DEF Enter, WorkerInv
      <4> QED BY <2>1, <3>2, <4>1, <4>2 DEF Slice
    <3>4. CASE Parse(t)
      <4>1. /\ state[t] = "looping" /\ state' = state /\ j[t] < startIndices[t + 2]
            /\ j[t] \in 0 .. n - 1 /\ j'[t] = j[t] + 1
            /\ parsedBy' = [parsedBy EXCEPT ![j[t]] = @ \union {t}]
        BY <3>2, <3>4 DEF Parse, TypeOK
      <4>2. /\ startIndices[t + 1] <= j[t]
            /\ \A s \in 0 .. n - 1 :
                 t \in parsedBy[s] <=> startIndices[t + 1] <= s /\ s < j[t]
        BY <3>1, <4>1 DEF WorkerInv
      <4>3. \A s \in 0 .. n - 1 : t \in parsedBy'[s] <=> t \in parsedBy[s] \/ s = j[t]
        BY <4>1 DEF TypeOK
      <4>4. \A s \in 0 .. n - 1 : s < j[t] + 1 <=> s < j[t] \/ s = j[t]
        BY <4>1
      <4>5. startIndices[t + 1] <= j[t] + 1 /\ j[t] + 1 <= startIndices[t + 2]
        BY <3>2, <4>1, <4>2
      <4> QED BY <2>1, <4>1, <4>2, <4>3, <4>4, <4>5 DEF Slice
    <3>5. CASE Crash(t)
      <4>1. Slice(t)
        BY DEF WorkerInv, Slice
      <4> QED BY <3>5, <4>1 DEF Crash, inputs, workers, Slice, Bounded
    <3>6. CASE Exit(t)
      <4>1. /\ state[t] = "looping" /\ state'[t] = "exited"
            /\ j[t] >= startIndices[t + 2] /\ j' = j /\ parsedBy' = parsedBy
        BY <3>2, <3>6 DEF Exit, TypeOK
      <4>2. /\ startIndices[t + 1] <= j[t] /\ j[t] <= startIndices[t + 2]
            /\ \A s \in 0 .. n - 1 :
                 t \in parsedBy[s] <=> startIndices[t + 1] <= s /\ s < j[t]
        BY <3>1, <4>1 DEF WorkerInv
      <4>3. j[t] = startIndices[t + 2]
        BY <3>2, <4>1, <4>2
      <4> QED BY <2>1, <4>1, <4>2, <4>3 DEF Slice
    <3> QED BY <1>4, <3>3, <3>4, <3>5, <3>6
  <2>5. ASSUME NEW u \in Threads PROVE Slice(u)'
    <3>1. CASE u = t
      BY <2>4, <3>1
    <3>2. CASE u # t
      <4>1. Slice(u)
        BY DEF WorkerInv, Slice
      <4> QED BY <2>1, <2>2, <3>2, <4>1 DEF Slice, Bounded
    <3> QED BY <3>1, <3>2
  <2>6. \A u \in Threads : state'[u] \in {"unborn", "created"} =>
          \A s \in 0 .. n - 1 : u \notin parsedBy'[s]
    BY <2>1, <2>2 DEF WorkerInv
  <2>7. /\ pc' = "spawning" =>
             i' <= NumThreads /\ \A u \in Threads : u < i' <=> state'[u] # "unborn"
        /\ pc' = "joining" =>
             i' <= NumThreads /\ \A u \in Threads : u < i' => state'[u] = "exited"
    BY <1>4, <2>1, <2>3 DEF WorkerInv
  <2>8. pc' \notin {"summing", "cutting", "returned"}
    BY <1>4, <2>1, <2>3
  <2> QED BY <2>1, <2>5, <2>6, <2>7, <2>8 DEF WorkerInv, Slice
<1>5. CASE UNCHANGED vars
  BY <1>5 DEF vars, inputs, master, workers, WorkerInv, Bounded
<1> QED
  BY <1>1, <1>2, <1>3, <1>4, <1>5 DEF Next, Master, Worker, Stopped

--------------------------------------------------------------------------------
\* The inductive invariant.
LEMMA Invariance == Spec => []IInv
<1>1. Init => PrefixInv /\ GroupInv /\ CoverInv /\ WorkerInv
  <2> SUFFICES ASSUME Init PROVE PrefixInv /\ GroupInv /\ CoverInv /\ WorkerInv
    OBVIOUS
  <2>1. /\ n \in Nat /\ pc = "summing" /\ i = 0 /\ sum = 0 /\ startIndices = <<0>>
        /\ \A k \in 0 .. n : prefix[k] = 0
        /\ \A t \in Threads : state[t] = "unborn"
        /\ \A s \in 0 .. n - 1 : parsedBy[s] = {}
    BY MaxSamplesAssumption DEF Init
  <2>2. PrefixInv
    BY <2>1 DEF PrefixInv
  <2>3. GroupInv
    BY <2>1 DEF GroupInv, Closed
  <2>4. WorkerInv
    BY <2>1 DEF WorkerInv
  <2>5. CoverInv
    BY <2>1 DEF CoverInv
  <2> QED BY <2>2, <2>3, <2>4, <2>5
<1>2. TypeOK /\ IInv /\ [Next]_vars =>
        PrefixInv' /\ GroupInv' /\ CoverInv' /\ WorkerInv'
  BY PrefixStep, GroupStep, CoverStep, WorkerStep DEF IInv
<1> QED
  BY <1>1, <1>2, Typing, PTL DEF Spec, IInv

\* Two threads with bounds of their own never parse the same sample: slices of
\* start_indices do not overlap, because start_indices is sorted.
THEOREM NoSampleParsedTwice == Spec => []ParsedOnce
<1>1. IInv => ParsedOnce
  <2> SUFFICES ASSUME IInv, NEW s \in 0 .. n - 1,
                      NEW t \in parsedBy[s], NEW u \in parsedBy[s],
                      Bounded(t), Bounded(u), t # u
               PROVE  FALSE
    BY DEF ParsedOnce
  <2>1. t \in Threads /\ u \in Threads
    BY DEF IInv, TypeOK
  <2>2. ASSUME NEW v \in parsedBy[s], v \in Threads, Bounded(v)
        PROVE  startIndices[v + 1] <= s /\ s < startIndices[v + 2]
    <3>1. state[v] \in {"looping", "exited"}
      BY <2>2 DEF IInv, WorkerInv, TypeOK, States
    <3>2. startIndices[v + 1] <= s /\ s < j[v] /\ j[v] <= startIndices[v + 2]
      BY <2>2, <3>1 DEF IInv, WorkerInv
    <3>3. startIndices[v + 2] \in Int /\ j[v] \in Int /\ s \in Int
      <4>1. startIndices[v + 2] \in 0 .. n /\ n \in Nat
        BY <2>2, BoundedIndices DEF IInv, TypeOK
      <4> QED BY <2>2, <4>1 DEF IInv, TypeOK
    <3> QED BY <3>2, <3>3
  <2>3. ASSUME NEW v \in Threads, NEW w \in Threads, Bounded(v), Bounded(w), v < w
        PROVE  startIndices[v + 2] <= startIndices[w + 1]
    <3>1. v + 2 \in 1 .. Len(startIndices) /\ w + 1 \in 1 .. Len(startIndices)
      BY <2>3, BoundedIndices DEF IInv
    <3>2. v + 2 <= w + 1
      BY <2>3 DEF Threads
    <3> QED BY <3>1, <3>2 DEF IInv, GroupInv
  <2>4. /\ startIndices[t + 1] \in Int /\ startIndices[t + 2] \in Int
        /\ startIndices[u + 1] \in Int /\ startIndices[u + 2] \in Int /\ s \in Int
    <3>1. \A v \in Threads : Bounded(v) =>
            startIndices[v + 1] \in 0 .. n /\ startIndices[v + 2] \in 0 .. n
      BY BoundedIndices DEF IInv
    <3> QED BY SMTT(30), <2>1, <3>1 DEF IInv, TypeOK
  <2>5. t < u \/ u < t
    BY <2>1 DEF Threads
  <2> QED BY <2>1, <2>2, <2>3, <2>4, <2>5
<1> QED
  BY <1>1, Invariance, PTL

\* A bounded thread exceeds partition_size by less than its last sample.
THEOREM LoadIsBounded == Spec => []LoadBound
<1>1. IInv => LoadBound
  <2> SUFFICES ASSUME IInv, NEW t \in Threads, Bounded(t),
                      state[t] \in {"looping", "exited"},
                      ~(j[t] <= startIndices[t + 1] + 1)
               PROVE  Bytes(startIndices[t + 1], j[t] - 1) < partitionSize
    BY DEF LoadBound
  <2> DEFINE a == startIndices[t + 1]
             b == startIndices[t + 2]
  <2>1. /\ t + 1 \in 1 .. Len(startIndices) - 1 /\ (t + 1) + 1 = t + 2
        /\ a \in 0 .. n /\ b \in 0 .. n
    <3>1. t + 2 \in 1 .. Len(startIndices) /\ a \in 0 .. n /\ b \in 0 .. n
      BY BoundedIndices DEF IInv
    <3> QED BY <3>1 DEF Threads, IInv, TypeOK
  <2>2. j[t] <= b /\ j[t] \in Int /\ n \in Nat
    BY DEF IInv, WorkerInv, TypeOK
  <2>3. a + 1 < b /\ b - 1 \in 0 .. n /\ j[t] - 1 \in 0 .. n /\ j[t] - 1 <= b - 1
    BY SMTT(30), <2>1, <2>2
  <2>4. Bytes(a, b - 1) < partitionSize
    BY <2>1, <2>3 DEF IInv, GroupInv
  <2>5. pc # "summing"
    BY DEF IInv, WorkerInv
  <2>6. prefix[j[t] - 1] <= prefix[b - 1]
    BY <2>3, <2>5 DEF IInv, PrefixInv
  <2>7. /\ prefix[a] \in Nat /\ prefix[b - 1] \in Nat /\ prefix[j[t] - 1] \in Nat
        /\ partitionSize \in Nat
    BY <2>1, <2>3 DEF IInv, TypeOK
  <2> HIDE DEF a, b
  <2>8. Bytes(a, j[t] - 1) < partitionSize
    BY <2>4, <2>6, <2>7 DEF Bytes
  <2> QED BY <2>8 DEF a
<1> QED
  BY <1>1, Invariance, PTL

\* What is left unparsed weighs less than NUM_THREADS bytes.
THEOREM TailIsBounded == Spec => []TailBound
<1>1. IInv => TailBound
  <2> SUFFICES ASSUME IInv, pc \in {"joining", "returned"}, AllBounded
               PROVE  Bytes(startIndices[NumThreads + 1], n) < NumThreads
    BY DEF TailBound
  <2> DEFINE x == prefix[startIndices[NumThreads + 1]]
  <2>1. /\ NumThreads \in Nat \ {0} /\ NumThreads - 1 \in Threads
        /\ (NumThreads - 1) + 1 = NumThreads /\ (NumThreads + 1) - 1 = NumThreads
    BY NumThreadsAssumption DEF Threads
  <2>2. /\ NumThreads < Len(startIndices) /\ Len(startIndices) \in Nat
    BY <2>1 DEF AllBounded, Bounded, IInv, TypeOK
  <2>3. /\ NumThreads + 1 \in 1 .. Len(startIndices)
        /\ \A k \in 1 .. Len(startIndices) : startIndices[k] \in 0 .. n
        /\ n \in Nat /\ partitionSize \in Nat
    BY SMTT(30), <2>1, <2>2 DEF IInv, TypeOK
  <2>4. x \in Nat /\ prefix[n] \in Nat
    BY <2>3 DEF IInv, TypeOK
  <2>5. x >= NumThreads * partitionSize
    <3>1. CASE NumThreads + 1 < Len(startIndices)
      <4>1. NumThreads + 1 \in 1 .. Closed
        BY <2>1, <2>2, <3>1 DEF Closed
      <4> QED BY <2>1, <4>1 DEF IInv, GroupInv
    <3>2. CASE NumThreads + 1 = Len(startIndices)
      <4>1. x = prefix[n]
        BY <3>2 DEF IInv, GroupInv
      <4>2. partitionSize = prefix[n] \div NumThreads
        BY DEF IInv, PrefixInv
      <4>3. NumThreads * (prefix[n] \div NumThreads) <= prefix[n]
        BY <2>1, <2>4, DivLemma
      <4> QED BY <4>1, <4>2, <4>3
    <3> QED BY <2>1, <2>2, <3>1, <3>2
  <2>6. partitionSize = prefix[n] \div NumThreads
    BY DEF IInv, PrefixInv
  <2>7. prefix[n] - NumThreads * partitionSize < NumThreads
    BY <2>1, <2>4, <2>6, DivLemma
  <2>8. NumThreads * partitionSize \in Nat
    BY <2>1, <2>3
  <2> HIDE DEF x
  <2>9. prefix[n] - x < NumThreads
    BY <2>1, <2>4, <2>5, <2>7, <2>8
  <2> QED BY <2>9 DEF Bytes, x
<1> QED
  BY <1>1, Invariance, PTL

\* At the return exactly the samples after the first NUM_THREADS groups have
\* not been parsed.
THEOREM OnlyTheTailIsUnparsed == Spec => []UnparsedIsTail
<1>1. IInv => UnparsedIsTail
  <2> SUFFICES ASSUME IInv, pc = "returned", AllBounded, NEW s \in 0 .. n - 1
               PROVE  parsedBy[s] = {} <=> s >= startIndices[NumThreads + 1]
    BY DEF UnparsedIsTail
  <2> DEFINE tail == startIndices[NumThreads + 1]
  <2>1. /\ NumThreads \in Nat \ {0} /\ NumThreads - 1 \in Threads
        /\ (NumThreads - 1) + 1 = NumThreads
        /\ \A t \in Threads : t \in Nat /\ t + 2 <= NumThreads + 1
    BY NumThreadsAssumption DEF Threads
  <2>2. /\ NumThreads < Len(startIndices) /\ Len(startIndices) \in Nat
        /\ NumThreads + 1 \in 1 .. Len(startIndices)
        /\ \A k \in 1 .. Len(startIndices) : startIndices[k] \in 0 .. n
        /\ n \in Nat /\ s \in Nat
    <3>1. /\ Len(startIndices) \in Nat /\ n \in Nat /\ s \in Nat
          /\ \A k \in 1 .. Len(startIndices) : startIndices[k] \in 0 .. n
      BY DEF IInv, TypeOK
    <3>2. Bounded(NumThreads - 1)
      BY <2>1 DEF AllBounded
    <3> QED BY <2>1, <3>1, <3>2 DEF Bounded
  <2>3. ASSUME NEW t \in Threads
        PROVE  /\ t + 2 \in 1 .. Len(startIndices)
               /\ startIndices[t + 2] \in 0 .. n
               /\ t \in parsedBy[s] <=>
                    startIndices[t + 1] <= s /\ s < startIndices[t + 2]
    BY BoundedIndices DEF AllBounded, IInv, WorkerInv
  <2>4. ASSUME NEW t \in parsedBy[s] PROVE s < tail
    <3>1. t \in Threads
      BY DEF IInv, TypeOK
    <3>2. startIndices[t + 2] <= tail
      BY <2>1, <2>2, <2>3, <3>1 DEF IInv, GroupInv
    <3> QED BY <2>2, <2>3, <3>1, <3>2
  <2>5. ASSUME s < tail PROVE parsedBy[s] # {}
    <3>1. tail <= startIndices[Len(startIndices)]
      BY <2>1, <2>2 DEF IInv, GroupInv
    <3>2. s < startIndices[Len(startIndices)]
      <4>1. startIndices[Len(startIndices)] \in 0 .. n /\ tail \in 0 .. n
        BY <2>1, <2>2
      <4> QED BY <2>2, <2>5, <3>1, <4>1
    <3>3. PICK k \in 1 .. Len(startIndices) - 1 :
                 startIndices[k] <= s /\ s < startIndices[k + 1]
      BY <3>2 DEF IInv, CoverInv
    <3>4. k <= NumThreads
      <4> SUFFICES ASSUME NumThreads + 1 <= k PROVE FALSE
        BY <2>1, <2>2
      <4>1. k \in 1 .. Len(startIndices)
        BY <2>2
      <4>2. tail <= startIndices[k]
        BY <2>2, <4>1 DEF IInv, GroupInv
      <4>3. tail \in 0 .. n /\ startIndices[k] \in 0 .. n
        BY <2>2, <4>1
      <4> QED BY <2>2, <2>5, <3>3, <4>2, <4>3
    <3>5. k - 1 \in Threads /\ (k - 1) + 1 = k /\ (k - 1) + 2 = k + 1
      BY <2>1, <2>2, <3>4 DEF Threads
    <3>6. k - 1 \in parsedBy[s]
      BY <2>3, <3>3, <3>5
    <3> QED BY <3>6
  <2>6. s < tail <=> ~(s >= tail)
    <3>1. tail \in 0 .. n
      BY <2>2
    <3> QED BY <2>2, <3>1
  <2> HIDE DEF tail
  <2>7. parsedBy[s] = {} <=> s >= tail
    BY <2>4, <2>5, <2>6
  <2> QED BY <2>7 DEF tail
<1> QED
  BY <1>1, Invariance, PTL
================================================================================
