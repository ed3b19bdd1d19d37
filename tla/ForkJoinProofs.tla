----------------------------- MODULE ForkJoinProofs ----------------------------
(* Every step of ForkJoin keeps the invariant of ForkJoinInvariant, and what   *)
(* the invariant says of the scheduler: the safety properties of ForkJoin, and *)
(* that it implements ParallelFor.                                             *)
EXTENDS ForkJoinInvariant, SequenceTheorems, WellFoundedInduction, TLAPS

--------------------------------------------------------------------------------
(* What a step does to the stacks.                                             *)

\* The stacks seen from the bottom have the frames of the stacks seen from the top.
LEMMA Views ==
  ASSUME TypeInv, NEW w \in Workers
  PROVE  /\ depth[w] = Len(stack[w]) /\ depth[w] \in Nat
         /\ \A h \in 1 .. depth[w] :
              /\ frames[w][h] = stack[w][depth[w] + 1 - h]
              /\ frames[w][h] \in FrameType
         /\ Running(w) <=> depth[w] > 0
         /\ Running(w) => Top(w) = Inner(w) /\ Top(w) = stack[w][1] /\ Top(w) \in FrameType
  <1>1. stack[w] \in Seq(FrameType) /\ depth[w] = Len(stack[w]) /\ depth[w] \in Nat
    BY DEF TypeInv, depth
  <1>2. \A h \in 1 .. depth[w] : frames[w][h] = stack[w][depth[w] + 1 - h]
    BY DEF frames
  <1>3. \A h \in 1 .. depth[w] : depth[w] + 1 - h \in 1 .. Len(stack[w])
    BY <1>1
  <1>4. \A h \in 1 .. depth[w] : frames[w][h] \in FrameType
    BY <1>1, <1>2, <1>3, ElementOfSeq
  <1>5. Running(w) <=> depth[w] > 0
    BY <1>1, EmptySeq DEF Running
  <1>6. Running(w) => Top(w) = stack[w][1] /\ Inner(w) = stack[w][1] /\ Top(w) \in FrameType
    <2>1. Running(w) => depth[w] \in 1 .. depth[w] /\ depth[w] + 1 - depth[w] = 1
      BY <1>1, <1>5
    <2>2. QED
      BY <1>1, <1>2, <1>4, <1>5, <2>1 DEF Top, Inner
  <1>7. QED
    BY <1>1, <1>2, <1>4, <1>5, <1>6

\* All frames stay but those of w from height m + 1 on.
Kept(w, m) ==
  /\ \A v \in Workers : v # w =>
       depth'[v] = depth[v] /\ \A h \in 1 .. depth[v] : frames'[v][h] = frames[v][h]
  /\ \A h \in 1 .. m : frames'[w][h] = frames[w][h]

\* Worker w gets a new stack, the others keep theirs.
LEMMA NewStack ==
  ASSUME TypeInv, NEW w \in Workers, NEW s \in Seq(FrameType),
         stack' = [stack EXCEPT ![w] = s]
  PROVE  /\ stack' \in [Workers -> Seq(FrameType)]
         /\ depth'[w] = Len(s) /\ depth'[w] \in Nat
         /\ \A h \in 1 .. Len(s) : frames'[w][h] = s[Len(s) + 1 - h]
         /\ Kept(w, 0)
  <1>1. /\ stack' \in [Workers -> Seq(FrameType)] /\ stack'[w] = s
        /\ \A v \in Workers : v # w => stack'[v] = stack[v]
    BY DEF TypeInv
  <1>2. depth'[w] = Len(s) /\ depth'[w] \in Nat
    BY <1>1 DEF depth
  <1>3. \A h \in 1 .. Len(s) : frames'[w][h] = s[Len(s) + 1 - h]
    BY <1>1, <1>2 DEF frames
  <1>4. ASSUME NEW v \in Workers, v # w
        PROVE  depth'[v] = depth[v] /\ \A h \in 1 .. depth[v] : frames'[v][h] = frames[v][h]
    <2>1. depth'[v] = depth[v]
      BY <1>1, <1>4 DEF depth
    <2>2. ASSUME NEW h \in 1 .. depth[v]
          PROVE  frames'[v][h] = frames[v][h]
      BY <1>1, <1>4, <2>1 DEF frames
    <2>3. QED
      BY <2>1, <2>2
  <1>5. QED
    BY <1>1, <1>2, <1>3, <1>4 DEF Kept

\* The innermost frames of w are replaced by fs.
LEMMA Replaced ==
  ASSUME TypeInv, NEW w \in Workers, NEW fs \in Seq(FrameType), NEW rest \in Seq(FrameType),
         Len(rest) <= depth[w],
         \A i \in 1 .. Len(rest) : rest[i] = stack[w][i + (depth[w] - Len(rest))],
         stack' = [stack EXCEPT ![w] = fs \o rest]
  PROVE  /\ stack' \in [Workers -> Seq(FrameType)]
         /\ depth'[w] = Len(rest) + Len(fs)
         /\ Kept(w, Len(rest))
         /\ \A h \in Len(rest) + 1 .. Len(rest) + Len(fs) :
              frames'[w][h] = fs[Len(rest) + Len(fs) + 1 - h]
  <1> DEFINE s == fs \o rest
  <1>1. /\ s \in Seq(FrameType) /\ Len(s) = Len(rest) + Len(fs)
        /\ Len(rest) \in Nat /\ Len(fs) \in Nat
        /\ \A i \in 1 .. Len(fs) + Len(rest) :
             s[i] = IF i <= Len(fs) THEN fs[i] ELSE rest[i - Len(fs)]
    BY ConcatProperties, LenProperties
  <1> HIDE DEF s
  <1>2. stack' = [stack EXCEPT ![w] = s]
    BY DEF s
  <1>3. /\ stack' \in [Workers -> Seq(FrameType)]
        /\ depth'[w] = Len(s)
        /\ \A h \in 1 .. Len(s) : frames'[w][h] = s[Len(s) + 1 - h]
        /\ Kept(w, 0)
    BY <1>1, <1>2, NewStack
  <1>4. /\ depth[w] \in Nat
        /\ \A h \in 1 .. depth[w] : frames[w][h] = stack[w][depth[w] + 1 - h]
    BY Views
  <1>5. ASSUME NEW h \in 1 .. Len(rest)
        PROVE  frames'[w][h] = frames[w][h]
    <2>1. /\ h \in 1 .. Len(s) /\ h \in 1 .. depth[w]
          /\ Len(s) + 1 - h \in 1 .. Len(fs) + Len(rest)
          /\ ~(Len(s) + 1 - h <= Len(fs))
          /\ Len(s) + 1 - h - Len(fs) = Len(rest) + 1 - h
          /\ Len(rest) + 1 - h \in 1 .. Len(rest)
          /\ Len(rest) + 1 - h + (depth[w] - Len(rest)) = depth[w] + 1 - h
      BY <1>1, <1>4
    <2>2. frames'[w][h] = s[Len(s) + 1 - h] /\ frames[w][h] = stack[w][depth[w] + 1 - h]
      BY <1>3, <1>4, <2>1
    <2>3. s[Len(s) + 1 - h] = rest[Len(rest) + 1 - h]
      BY <1>1, <2>1
    <2>4. rest[Len(rest) + 1 - h] = stack[w][depth[w] + 1 - h]
      BY <2>1
    <2>5. QED
      BY <2>2, <2>3, <2>4
  <1>6. ASSUME NEW h \in Len(rest) + 1 .. Len(rest) + Len(fs)
        PROVE  frames'[w][h] = fs[Len(rest) + Len(fs) + 1 - h]
    <2>1. /\ h \in 1 .. Len(s)
          /\ Len(s) + 1 - h \in 1 .. Len(fs) + Len(rest)
          /\ Len(s) + 1 - h <= Len(fs)
      BY <1>1
    <2>2. QED
      BY <1>1, <1>3, <2>1
  <1>7. QED
    BY <1>1, <1>3, <1>5, <1>6 DEF Kept

\* The frames below the innermost one of w.
LEMMA Behead ==
  ASSUME TypeInv, NEW w \in Workers, Running(w)
  PROVE  /\ Tail(stack[w]) \in Seq(FrameType)
         /\ Len(Tail(stack[w])) = depth[w] - 1
         /\ \A i \in 1 .. Len(Tail(stack[w])) :
              Tail(stack[w])[i] = stack[w][i + (depth[w] - Len(Tail(stack[w])))]
         /\ Len(Tail(stack[w])) <= depth[w]
  <1> DEFINE t == Tail(stack[w])
  <1>1. stack[w] \in Seq(FrameType) /\ stack[w] # <<>> /\ depth[w] = Len(stack[w])
    BY Views DEF TypeInv, Running
  <1>2. /\ t \in Seq(FrameType) /\ Len(t) = Len(stack[w]) - 1
        /\ \A i \in 1 .. Len(t) : t[i] = stack[w][i + 1]
    BY <1>1, HeadTailProperties
  <1> HIDE DEF t
  <1>3. Len(stack[w]) \in Nat /\ depth[w] - Len(t) = 1
    BY <1>1, <1>2, LenProperties
  <1>4. /\ t \in Seq(FrameType) /\ Len(t) = depth[w] - 1 /\ Len(t) <= depth[w]
        /\ \A i \in 1 .. Len(t) : t[i] = stack[w][i + (depth[w] - Len(t))]
    BY <1>1, <1>2, <1>3
  <1>5. QED
    BY <1>4 DEF t

\* The innermost frame of w becomes f, ...
Rewritten(w, f) ==
  /\ depth'[w] = depth[w]
  /\ Kept(w, depth[w] - 1) /\ frames'[w][depth[w]] = f

\* ... becomes f, which calls c, ...
Entered(w, c, f) ==
  /\ depth'[w] = depth[w] + 1
  /\ Kept(w, depth[w] - 1)
  /\ frames'[w][depth[w]] = f /\ frames'[w][depth[w] + 1] = c

\* ... ends, ...
Left(w) == depth'[w] = depth[w] - 1 /\ Kept(w, depth[w] - 1)

\* ... or ends, and its caller becomes f.
Returned(w, f) ==
  /\ depth'[w] = depth[w] - 1
  /\ Kept(w, depth[w] - 2) /\ frames'[w][depth[w] - 1] = f

\* The innermost frame of w moves on, ...
LEMMA Rewriting ==
  ASSUME TypeInv, NEW w \in Workers, Running(w), NEW f \in FrameType, Become(w, <<f>>)
  PROVE  /\ stack' \in [Workers -> Seq(FrameType)]
         /\ Rewritten(w, f)
  <1> DEFINE r == Tail(stack[w])
             fs == <<f>>
  <1>1. stack' = [stack EXCEPT ![w] = fs \o r]
    BY DEF Become, TypeInv
  <1>2. fs \in Seq(FrameType) /\ Len(fs) = 1 /\ fs[1] = f
    OBVIOUS
  <1>3. /\ r \in Seq(FrameType) /\ Len(r) = depth[w] - 1 /\ Len(r) <= depth[w]
        /\ \A i \in 1 .. Len(r) : r[i] = stack[w][i + (depth[w] - Len(r))]
        /\ depth[w] \in Nat /\ depth[w] > 0
    BY Behead, Views
  <1> HIDE DEF r, fs
  <1>4. /\ stack' \in [Workers -> Seq(FrameType)]
        /\ depth'[w] = Len(r) + Len(fs)
        /\ Kept(w, Len(r))
        /\ \A h \in Len(r) + 1 .. Len(r) + Len(fs) :
             frames'[w][h] = fs[Len(r) + Len(fs) + 1 - h]
    BY ZenonT(60), <1>1, <1>2, <1>3, Replaced
  <1>5. /\ Len(r) + Len(fs) = depth[w] /\ Len(r) + Len(fs) + 1 - depth[w] = 1
        /\ depth[w] \in Len(r) + 1 .. Len(r) + Len(fs)
    BY <1>2, <1>3
  <1>6. QED
    BY <1>2, <1>3, <1>4, <1>5 DEF Rewritten

\* ... calls, ...
LEMMA Entering ==
  ASSUME TypeInv, NEW w \in Workers, Running(w), NEW c \in FrameType, NEW f \in FrameType,
         Become(w, <<c, f>>)
  PROVE  /\ stack' \in [Workers -> Seq(FrameType)]
         /\ Entered(w, c, f)
  <1> DEFINE r == Tail(stack[w])
             fs == <<c, f>>
  <1>1. stack' = [stack EXCEPT ![w] = fs \o r]
    BY DEF Become, TypeInv
  <1>2. /\ fs \in Seq(FrameType) /\ Len(fs) = 2
        /\ fs[1] = c /\ fs[2] = f
    OBVIOUS
  <1>3. /\ r \in Seq(FrameType) /\ Len(r) = depth[w] - 1 /\ Len(r) <= depth[w]
        /\ \A i \in 1 .. Len(r) : r[i] = stack[w][i + (depth[w] - Len(r))]
        /\ depth[w] \in Nat /\ depth[w] > 0
    BY Behead, Views
  <1> HIDE DEF r, fs
  <1>4. /\ stack' \in [Workers -> Seq(FrameType)]
        /\ depth'[w] = Len(r) + Len(fs)
        /\ Kept(w, Len(r))
        /\ \A h \in Len(r) + 1 .. Len(r) + Len(fs) :
             frames'[w][h] = fs[Len(r) + Len(fs) + 1 - h]
    BY ZenonT(60), <1>1, <1>2, <1>3, Replaced
  <1>5. /\ Len(r) + Len(fs) = depth[w] + 1
        /\ Len(r) + Len(fs) + 1 - depth[w] = 2
        /\ Len(r) + Len(fs) + 1 - (depth[w] + 1) = 1
        /\ depth[w] \in Len(r) + 1 .. Len(r) + Len(fs)
        /\ depth[w] + 1 \in Len(r) + 1 .. Len(r) + Len(fs)
    <2> DEFINE d == depth[w]
               n == Len(r)
    <2>1. n = d - 1 /\ Len(fs) = 2 /\ d \in Nat /\ d > 0 /\ n \in Int
      BY <1>2, <1>3
    <2> HIDE DEF d, n
    <2>2. /\ n + 2 = d + 1 /\ n + 2 + 1 - d = 2 /\ n + 2 + 1 - (d + 1) = 1
          /\ d \in n + 1 .. n + 2 /\ d + 1 \in n + 1 .. n + 2
      BY <2>1
    <2>3. QED
      BY <2>1, <2>2 DEF d, n
  <1>6. QED
    BY <1>2, <1>3, <1>4, <1>5 DEF Entered

\* ... ends, ...
LEMMA Leaving ==
  ASSUME TypeInv, NEW w \in Workers, Running(w), Become(w, <<>>)
  PROVE  /\ stack' \in [Workers -> Seq(FrameType)]
         /\ Left(w)
  <1> DEFINE r == Tail(stack[w])
             e == <<>>
  <1>1. stack' = [stack EXCEPT ![w] = e \o r]
    BY DEF Become, TypeInv
  <1>2. e \in Seq(FrameType) /\ Len(e) = 0
    BY EmptySeq
  <1>3. /\ r \in Seq(FrameType) /\ Len(r) = depth[w] - 1 /\ Len(r) <= depth[w]
        /\ \A i \in 1 .. Len(r) : r[i] = stack[w][i + (depth[w] - Len(r))]
        /\ depth[w] \in Nat /\ depth[w] > 0
    BY Behead, Views
  <1> HIDE DEF r, e
  <1>4. /\ stack' \in [Workers -> Seq(FrameType)]
        /\ depth'[w] = Len(r) + Len(e)
        /\ Kept(w, Len(r))
    BY <1>1, <1>2, <1>3, Replaced
  <1>5. QED
    BY <1>2, <1>3, <1>4 DEF Left

\* ... or returns to its caller.
LEMMA Returning ==
  ASSUME TypeInv, NEW w \in Workers, depth[w] > 1, NEW f \in FrameType,
         stack' = [stack EXCEPT ![w] = <<f>> \o Tail(Tail(@))]
  PROVE  /\ stack' \in [Workers -> Seq(FrameType)]
         /\ Returned(w, f)
  <1> DEFINE r == Tail(Tail(stack[w]))
             t == Tail(stack[w])
             fs == <<f>>
  <1>1. stack' = [stack EXCEPT ![w] = fs \o r]
    BY DEF TypeInv
  <1>2. fs \in Seq(FrameType) /\ Len(fs) = 1 /\ fs[1] = f
    OBVIOUS
  <1>3. /\ t \in Seq(FrameType) /\ Len(t) = depth[w] - 1
        /\ \A i \in 1 .. Len(t) : t[i] = stack[w][i + (depth[w] - Len(t))]
        /\ depth[w] \in Nat /\ depth[w] > 1
    BY Behead, Views
  <1> HIDE DEF t
  <1>4. t # <<>>
    BY <1>3, EmptySeq
  <1>5. /\ r \in Seq(FrameType) /\ Len(r) = Len(t) - 1
        /\ \A i \in 1 .. Len(r) : r[i] = t[i + 1]
    BY <1>3, <1>4, HeadTailProperties DEF t
  <1> HIDE DEF r, fs
  <1>6. \A i \in 1 .. Len(r) : r[i] = stack[w][i + (depth[w] - Len(r))]
    <2> SUFFICES ASSUME NEW i \in 1 .. Len(r)
                 PROVE  r[i] = stack[w][i + (depth[w] - Len(r))]
      OBVIOUS
    <2>1. i + 1 \in 1 .. Len(t) /\ i + 1 + (depth[w] - Len(t)) = i + (depth[w] - Len(r))
      BY <1>3, <1>5
    <2>2. QED
      BY <1>3, <1>5, <2>1
  <1>7. r \in Seq(FrameType) /\ Len(r) <= depth[w]
    BY <1>3, <1>5
  <1>8. /\ stack' \in [Workers -> Seq(FrameType)]
        /\ depth'[w] = Len(r) + Len(fs)
        /\ Kept(w, Len(r))
        /\ \A h \in Len(r) + 1 .. Len(r) + Len(fs) :
             frames'[w][h] = fs[Len(r) + Len(fs) + 1 - h]
    <2>1. Len(r) <= depth[w] /\ fs \in Seq(FrameType) /\ r \in Seq(FrameType)
      BY <1>2, <1>7
    <2>2. QED
      BY ZenonT(60), <1>1, <1>6, <2>1, Replaced
  <1>9. /\ Len(r) + Len(fs) = depth[w] - 1
        /\ Len(r) + Len(fs) + 1 - (depth[w] - 1) = 1
        /\ depth[w] - 1 \in Len(r) + 1 .. Len(r) + Len(fs)
        /\ Len(r) = depth[w] - 2 /\ Len(r) <= depth[w]
    BY <1>2, <1>3, <1>5
  <1>10. QED
    BY <1>2, <1>3, <1>8, <1>9 DEF Returned

--------------------------------------------------------------------------------
(* Numbers.                                                                    *)

\* A range of two iterations or more is split strictly inside.
LEMMA MidInside ==
  ASSUME NEW lo \in Nat, NEW hi \in Nat, hi - lo >= 2
  PROVE  Mid(lo, hi) \in Nat /\ lo < Mid(lo, hi) /\ Mid(lo, hi) < hi
  <1> DEFINE q == (9 * (hi - lo + 1)) \div 16
  <1>1. q \in Int /\ 16 * q <= 9 * (hi - lo + 1) /\ 9 * (hi - lo + 1) < 16 * q + 16
    OBVIOUS
  <1>2. Mid(lo, hi) = lo + q
    BY DEF Mid
  <1> HIDE DEF q
  <1>3. QED
    BY <1>1, <1>2

\* The granularity for large loops, n / (128 * num_threads), is a number.
LEMMA BatchesAreNat ==
  ASSUME NEW n \in Nat
  PROVE  n \div (128 * NumThreads) \in Nat
  <1>1. 128 * NumThreads \in Nat \ {0}
    BY NumThreadsAssumption
  <1>2. ASSUME NEW d \in Nat \ {0} PROVE n \div d \in Nat
    <2>1. n \div d \in Int /\ d * (n \div d) <= n /\ n < d * (n \div d) + d
      OBVIOUS
    <2>2. ASSUME n \div d < 0 PROVE FALSE
      <3> DEFINE q == n \div d
      <3>1. q \in Int /\ q <= -1 /\ n < d * q + d
        BY <2>1, <2>2
      <3> HIDE DEF q
      <3>2. d * q <= d * (-1)
        BY <3>1
      <3>3. QED
        BY <3>1, <3>2
    <2>3. QED
      BY <2>1, <2>2
  <1>3. QED
    BY <1>1, <1>2

\* The main thread is a worker.
LEMMA ZeroIsWorker == 0 \in Workers
  BY NumThreadsAssumption DEF Workers

\* Two ranges that meet and have been executed are one that has been.
LEMMA RangesJoin ==
  ASSUME NEW lo \in Nat, NEW mid \in Nat, NEW hi \in Nat, Done(lo, mid), Done(mid, hi)
  PROVE  Done(lo, hi)
  BY DEF Done

\* Only parfor_ makes ranges and jobs.
LEMMA InsideParfor ==
  ASSUME IInv, NEW w \in Workers, NEW h \in 1 .. depth[w],
         frames[w][h].kind \in {"range", "job"}
  PROVE  InParfor /\ h > 1 /\ depth[w] > 1
  <1>1. depth[w] \in Nat /\ h # 1
    BY Views DEF IInv, StackInv
  <1>2. depth[w] > 1 /\ h > 1
    BY <1>1
  <1>3. InParfor
    BY <1>1, <1>2 DEF IInv, MainInv, Quiet
  <1>4. QED
    BY <1>2, <1>3

\* The range of a caller that has split it.
LEMMA RangeMid ==
  ASSUME IInv, NEW w \in Workers, NEW h \in 1 .. depth[w],
         frames[w][h].kind = "range",
         frames[w][h].hi - frames[w][h].lo > granularity
  PROVE  LET f == frames[w][h]
         IN  /\ Mid(f.lo, f.hi) \in Nat
             /\ f.lo < Mid(f.lo, f.hi) /\ Mid(f.lo, f.hi) < f.hi
             /\ f.lo \in Nat /\ f.hi \in Nat
  <1> DEFINE f == frames[w][h]
  <1>1. f \in FrameType
    BY Views DEF IInv
  <1>2. f.lo \in Nat /\ f.hi \in Nat
    BY <1>1 DEF FrameType
  <1>3. granularity \in Nat /\ granularity >= 1 /\ f.hi - f.lo > granularity
    BY InsideParfor DEF IInv, MainInv, TypeInv
  <1> HIDE DEF f
  <1>4. Mid(f.lo, f.hi) \in Nat /\ f.lo < Mid(f.lo, f.hi) /\ Mid(f.lo, f.hi) < f.hi
    <2>1. f.hi - f.lo >= 2
      BY <1>2, <1>3
    <2>2. QED
      BY <1>2, <2>1, MidInside
  <1>5. QED
    BY <1>2, <1>4 DEF f

\* A job in a deque has not been executed.
LEMMA SlotsAreFresh ==
  ASSUME IInv, NEW d \in Deques, NEW k \in 1 .. Len(deques[d])
  PROVE  deques[d][k] \notin finished /\ deques[d][k] \in JobType
  <1>1. deques[d][k] \in JobType
    BY ElementOfSeq DEF IInv, TypeInv
  <1> DEFINE j == deques[d][k]
  <1>2. j.loop = loop /\ j.lo < j.hi /\ Todo(j.lo, j.hi) /\ j.lo \in Nat /\ j.hi \in Nat
    BY <1>1 DEF IInv, SlotInv, JobType
  <1>3. j \in finished => Done(j.lo, j.hi)
    BY <1>2 DEF IInv, FinishedInv
  <1> HIDE DEF j
  <1>4. j \notin finished
    BY <1>2, <1>3 DEF Done, Todo
  <1>5. QED
    BY <1>1, <1>4 DEF j

--------------------------------------------------------------------------------
(* Frames that have only moved on.                                             *)

\* The ways in which a frame goes on without a call and without an effect.
GoesOn(f, g, idle, ended) ==
  \/ f.kind = "range" /\ f.at = "enter" /\ g.at = "body" /\ f.hi - f.lo <= granularity
  \/ f.kind = "range" /\ f.at = "pop" /\ g.at = "check" /\ idle
  \/ f.kind \in {"range", "worker"} /\ f.at = "check" /\ g.at = "take"
  \/ f.kind \in {"range", "worker"} /\ f.at = "take" /\ g.at = "steal"
  \/ f.kind = "range" /\ f.at \in {"check", "steal"} /\ g.at = "return" /\ ended

\* A step that only moves the innermost frame of w on keeps the invariant.
LEMMA Moving ==
  ASSUME IInv, TypeInv', NEW w \in Workers, Running(w), NEW g \in FrameType,
         g.kind = Inner(w).kind, g.lo = Inner(w).lo, g.hi = Inner(w).hi,
         GoesOn(Inner(w), g, deques[w] = <<>>, RightJob(Inner(w)) \in finished),
         Rewritten(w, g), UNCHANGED <<deques, finished, loop, granularity, runs>>
  PROVE  IInv'
  <1> DEFINE D == depth[w]
             f == Inner(w)
  <1>1. /\ \A v \in Workers : depth[v] \in Nat /\ depth'[v] = depth[v]
        /\ D \in Nat /\ D >= 1 /\ f = frames[w][D] /\ f \in FrameType
        /\ \A v \in Workers : \A h \in 1 .. depth[v] : frames[v][h] \in FrameType
    BY Views DEF IInv, Rewritten, Kept, Inner
  <1>2. \A v \in Workers : \A h \in 1 .. depth[v] :
          IF v = w /\ h = D THEN frames'[v][h] = g ELSE frames'[v][h] = frames[v][h]
    BY <1>1 DEF Rewritten, Kept
  <1>3. \A v \in Workers : depth[v] > 0 =>
          Inner(v)' = IF v = w THEN g ELSE Inner(v)
    BY <1>1, <1>2 DEF Inner, Rewritten, Kept
  <1>4. /\ g.kind = f.kind /\ g.lo = f.lo /\ g.hi = f.hi
        /\ f.kind \in {"range", "worker"}
        /\ GoesOn(f, g, deques[w] = <<>>, RightJob(f) \in finished)
    BY DEF GoesOn
  <1>5. /\ Running(w) /\ deques' = deques /\ finished' = finished /\ loop' = loop
        /\ granularity' = granularity /\ runs' = runs /\ NumIterations' = NumIterations
        /\ depth' = depth' /\ \A lo, hi : Job(lo, hi)' = Job(lo, hi)
    BY DEF NumIterations, Job
  <1> HIDE DEF D, f
  <1>6. \A v \in Workers : /\ HasPiece(v)' <=> HasPiece(v)
                           /\ HasPiece(v) => /\ Inner(v).lo = Inner(v)'.lo
                                             /\ Inner(v).hi = Inner(v)'.hi
    BY <1>1, <1>3, <1>4 DEF HasPiece, IsPiece, GoesOn, f
  <1>7. \A v \in Workers : \A h \in 1 .. depth[v] :
          /\ IsJob(v, h)' <=> IsJob(v, h)
          /\ IsJob(v, h) => frames'[v][h] = frames[v][h]
    BY <1>1, <1>2, <1>4 DEF IsJob
  <1>8. \A v \in Workers : \A h \in 1 .. depth[v] :
          /\ frames'[v][h].lo = frames[v][h].lo /\ frames'[v][h].hi = frames[v][h].hi
          /\ frames'[v][h].kind = frames[v][h].kind
    BY <1>1, <1>2, <1>4
  <1>9. \A v \in Workers : \A h \in 1 .. depth[v] :
          /\ Owns(v, h)' => Owns(v, h)
          /\ Owns(v, h) => Owns(v, h)' \/ RightJob(frames[v][h]) \in finished
    BY <1>1, <1>2, <1>4, <1>5 DEF Owns, OwnsJob, GoesOn
  <1>9a. /\ 0 \in Workers /\ (depth[0] > 0 => frames'[0][1] = frames[0][1])
         /\ InParfor' <=> InParfor
         /\ Quiet' <=> Quiet
         /\ LoopRuns' <=> LoopRuns
    <2>1. 0 \in Workers
      BY ZeroIsWorker
    <2>2. depth[0] > 0 => frames'[0][1] = frames[0][1]
      BY <1>1, <1>2, <1>4, <2>1 DEF StackInv, IInv
    <2>3. InParfor' <=> InParfor
      BY <1>1, <2>1 DEF InParfor
    <2>4. Quiet' <=> Quiet
      BY <1>1, <1>5 DEF Quiet
    <2>6. LoopRuns' <=> LoopRuns
      BY <1>5 DEF LoopRuns
    <2>7. QED
      BY <2>1, <2>2, <2>3, <2>4, <2>6
  <1>10. MainInv'
    BY <1>1, <1>5, <1>9a DEF MainInv, IInv, MainAt, Done, Todo, InParfor
  <1>11. StackInv'
    <2> SUFFICES ASSUME NEW v \in Workers, NEW h \in 1 .. depth[v]
                 PROVE  /\ IF h = depth[v] THEN Innermost(frames'[v][h])
                           ELSE Calling(frames'[v][h]) /\ Called(frames[v][h + 1], frames[v][h])'
                        /\ frames'[v][h].kind = "main" <=> v = 0 /\ h = 1
                        /\ frames'[v][h].kind = "worker" <=> v # 0 /\ h = 1
      BY <1>1 DEF StackInv, Innermost, Calling
    <2>1. /\ IF h = depth[v] THEN Innermost(frames[v][h])
             ELSE Calling(frames[v][h]) /\ Called(frames[v][h + 1], frames[v][h])
          /\ frames[v][h].kind = "main" <=> v = 0 /\ h = 1
          /\ frames[v][h].kind = "worker" <=> v # 0 /\ h = 1
      BY DEF StackInv, IInv
    <2>2. CASE v = w /\ h = D
      <3>1. h = depth[v]
        BY <2>2 DEF D
      <3>2. Innermost(g)
        BY <1>4 DEF Innermost, GoesOn
      <3>3. QED
        BY <1>2, <1>8, <2>1, <2>2, <3>1, <3>2
    <2>3. CASE ~(v = w /\ h = D)
      <3>1. frames'[v][h] = frames[v][h]
        BY <1>2, <2>3
      <3>2. ASSUME h # depth[v]
            PROVE  Called(frames[v][h + 1], frames[v][h])'
        <4>1. h + 1 \in 1 .. depth[v] /\ Called(frames[v][h + 1], frames[v][h])
          BY <1>1, <2>1, <3>2
        <4>2. CASE v = w /\ h + 1 = D
          <5>1. frames'[v][h + 1] = g /\ frames[v][h + 1] = f
            BY <1>1, <1>2, <4>1, <4>2 DEF D
          <5>2. QED
            BY <1>4, <1>5, <3>1, <4>1, <5>1 DEF Called, CalledLo, CalledHi, Done, Mid, GoesOn
        <4>3. CASE ~(v = w /\ h + 1 = D)
          <5>1. frames'[v][h + 1] = frames[v][h + 1]
            BY <1>2, <4>1, <4>3
          <5>2. QED
            BY <1>5, <3>1, <4>1, <5>1 DEF Called, CalledLo, CalledHi, Done, Mid
        <4>4. QED
          BY <4>2, <4>3
      <3>3. QED
        BY <2>1, <3>1, <3>2
    <2>4. QED
      BY <2>2, <2>3
  <1>12. FrameInv'
    <2>1. ASSUME NEW v \in Workers, NEW h \in 1 .. depth[v]
          PROVE  FrameOK(frames[v][h])'
      <3>1. FrameOK(frames[v][h])
        BY DEF FrameInv, IInv
      <3>2. CASE v = w /\ h = D
        <4>1. frames'[v][h] = g /\ frames[v][h] = f /\ FrameOK(f)
          BY <1>1, <1>2, <3>1, <3>2
        <4>2. ASSUME g.at = "return"
              PROVE  Done(f.lo, f.hi)
          <5>1. /\ f.kind = "range" /\ f.at \notin {"enter", "body", "left"}
                /\ RightJob(f) \in finished
            BY <1>4, <4>2 DEF GoesOn
          <5>2. Done(f.lo, Mid(f.lo, f.hi))
            BY <4>1, <5>1 DEF FrameOK
          <5>3. Done(Mid(f.lo, f.hi), f.hi)
            BY <5>1 DEF FinishedInv, IInv, RightJob, Job
          <5>4. f.lo \in Nat /\ f.hi \in Nat /\ Mid(f.lo, f.hi) \in Nat
            BY SMTT(30), <1>1, <4>1, <5>1, RangeMid DEF FrameOK, FrameType
          <5>5. QED
            BY <5>2, <5>3, <5>4, RangesJoin
        <4>3. QED
          BY <1>4, <1>5, <4>1, <4>2 DEF FrameOK, GoesOn, Done, Mid
      <3>3. CASE ~(v = w /\ h = D)
        BY <1>2, <1>5, <3>1, <3>3 DEF FrameOK, Done, Mid
      <3>4. QED
        BY <3>2, <3>3
    <2>2. QED
      BY <1>1, <2>1 DEF FrameInv
  <1>13. PieceInv'
    BY <1>5, <1>6 DEF PieceInv, IInv, Apart, Todo
  <1>14. SlotInv'
    BY <1>5, <1>6 DEF SlotInv, IInv, Apart, Todo
  <1>15. JobInv'
    BY <1>1, <1>5, <1>6, <1>7 DEF JobInv, IInv, JobOf, Done
  <1>16. FinishedInv'
    BY <1>1, <1>5, <1>9a DEF FinishedInv, IInv, Done, MainAt
  <1>16a. OwnerInv'
    <2>1. \A v \in Workers : \A h \in 1 .. depth[v] :
            RightJob(frames[v][h])' = RightJob(frames[v][h])
      BY <1>5, <1>8 DEF RightJob, Mid
    <2>2. ASSUME NEW u \in Workers, NEW v \in Workers,
                 NEW h \in 1 .. depth[u], NEW e \in 1 .. depth[v],
                 Owns(u, h)', Owns(v, e)',
                 RightJob(frames[u][h])' = RightJob(frames[v][e])'
          PROVE  u = v /\ h = e
      BY <1>9, <2>1, <2>2 DEF OwnerInv, IInv
    <2>3. QED
      BY <1>1, <2>2 DEF OwnerInv
  <1>17. AliveInv'
    <2>1. \A j : j \notin finished /\ Alive(j) => Alive(j)'
      BY <1>1, <1>5, <1>8, <1>9 DEF Alive, RightJob, Mid
    <2>2. \A d \in Deques : \A k \in 1 .. Len(deques[d]) : Alive(deques[d][k])'
      BY <1>5, <2>1, SlotsAreFresh DEF AliveInv, IInv
    <2>3. \A v \in Workers : \A h \in 1 .. depth[v] :
            IsJob(v, h) => Alive(JobOf(frames[v][h]))'
      <3>1. ASSUME NEW v \in Workers, NEW h \in 1 .. depth[v], IsJob(v, h)
            PROVE  Alive(JobOf(frames[v][h]))'
        <4>1. /\ JobOf(frames[v][h]) \notin finished /\ Alive(JobOf(frames[v][h]))
              /\ JobOf(frames[v][h])' = JobOf(frames[v][h])
          BY <1>5, <1>7, <3>1 DEF AliveInv, JobInv, IInv, JobOf
        <4>2. QED
          BY <2>1, <4>1 DEF Alive
      <3>2. QED
        BY <3>1
    <2>4. QED
      BY <1>1, <1>5, <1>7, <2>2, <2>3 DEF AliveInv, Alive
  <1>18. OwnedInv'
    <2>1. \A v \in Workers : \A h \in 1 .. depth[v] :
            RightJob(frames[v][h])' = RightJob(frames[v][h])
      BY <1>5, <1>8 DEF RightJob, Mid
    <2>2. \A j : Started(j) => Started(j)'
      BY <1>1, <1>5, <1>7 DEF Started, JobOf
    <2>3. ASSUME NEW v \in Workers, NEW h \in 1 .. depth[v], Owns(v, h)'
          PROVE  \/ \E k \in 1 .. Len(deques'[v]) : deques'[v][k] = RightJob(frames[v][h])'
                 \/ Started(RightJob(frames[v][h]))'
                 \/ RightJob(frames[v][h])' \in finished'
      <3> DEFINE j == RightJob(frames[v][h])
      <3>1. \/ \E k \in 1 .. Len(deques[v]) : deques[v][k] = j
            \/ Started(j)
            \/ j \in finished
        BY <1>9, <2>3 DEF OwnedInv, IInv
      <3>2. RightJob(frames[v][h])' = j
        BY <2>1
      <3> HIDE DEF j
      <3>3. QED
        BY <1>5, <2>2, <3>1, <3>2
    <2>4. QED
      BY <1>1, <2>3 DEF OwnedInv
  <1>19. DequeInv'
    <2>1. \A v \in Workers : \A h \in 1 .. depth[v] :
            /\ RightJob(frames[v][h])' = RightJob(frames[v][h])
            /\ AtFork(frames'[v][h]) => AtFork(frames[v][h])
            /\ deques[v] # <<>> => (AtFork(frames[v][h]) => AtFork(frames'[v][h]))
            /\ deques[v] # <<>> => (Waiting(frames'[v][h]) => Waiting(frames[v][h]))
      BY <1>1, <1>2, <1>4, <1>5, <1>8 DEF RightJob, Mid, AtFork, Waiting, GoesOn
    <2>2. \A v \in Workers : \A k \in 1 .. Len(deques[v]) : deques[v] # <<>>
      BY EmptySeq
    <2>3. ASSUME NEW v \in Workers, NEW k \in 1 .. Len(deques[v])
          PROVE  /\ \E h \in 1 .. depth[v] :
                      AtFork(frames'[v][h]) /\ RightJob(frames[v][h])' = deques[v][k]
                 /\ \A e, h \in 1 .. depth[v] :
                      AtFork(frames'[v][e]) /\ RightJob(frames[v][e])' = deques[v][k] /\ e < h =>
                        /\ ~Waiting(frames'[v][h])
                        /\ AtFork(frames'[v][h]) =>
                             \E l \in k + 1 .. Len(deques[v]) :
                               deques[v][l] = RightJob(frames[v][h])'
      <3>1. /\ deques[v] # <<>>
            /\ \E h \in 1 .. depth[v] :
                 AtFork(frames[v][h]) /\ RightJob(frames[v][h]) = deques[v][k]
        BY <2>2 DEF DequeInv, IInv
      <3>2. \E h \in 1 .. depth[v] :
              AtFork(frames'[v][h]) /\ RightJob(frames[v][h])' = deques[v][k]
        BY <2>1, <3>1
      <3>3. ASSUME NEW e \in 1 .. depth[v], NEW h \in 1 .. depth[v],
                   AtFork(frames'[v][e]), RightJob(frames[v][e])' = deques[v][k], e < h
            PROVE  /\ ~Waiting(frames'[v][h])
                   /\ AtFork(frames'[v][h]) =>
                        \E l \in k + 1 .. Len(deques[v]) :
                          deques[v][l] = RightJob(frames[v][h])'
        <4>1. AtFork(frames[v][e]) /\ RightJob(frames[v][e]) = deques[v][k]
          BY <2>1, <3>3
        <4>2. /\ ~Waiting(frames[v][h])
              /\ AtFork(frames[v][h]) =>
                   \E l \in k + 1 .. Len(deques[v]) : deques[v][l] = RightJob(frames[v][h])
          BY <3>3, <4>1 DEF DequeInv, IInv
        <4>3. QED
          BY <2>1, <3>1, <4>2
      <3>4. QED
        BY <3>2, <3>3
    <2>4. QED
      BY <1>1, <1>5, <2>3 DEF DequeInv, IInv, AtFork, Waiting
  <1>20. NestInv'
    BY <1>1, <1>5, <1>7, <1>8 DEF NestInv, IInv
  <1>21. QED
    BY <1>10, <1>11, <1>12, <1>13, <1>14, <1>15, <1>16, <1>16a, <1>17, <1>18, <1>19, <1>20 DEF IInv

--------------------------------------------------------------------------------
(* The deque of a worker against its stack.                                    *)

\* The innermost frame of a running worker.
LEMMA InnerFrame ==
  ASSUME IInv, NEW w \in Workers, Running(w)
  PROVE  /\ depth[w] \in Nat /\ depth[w] >= 1 /\ depth[w] \in 1 .. depth[w]
         /\ Inner(w) = frames[w][depth[w]] /\ Inner(w) \in FrameType
         /\ Inner(w).lo \in Nat /\ Inner(w).hi \in Nat
         /\ Top(w) = Inner(w) /\ Innermost(Inner(w)) /\ FrameOK(Inner(w))
  <1>1. /\ depth[w] \in Nat /\ depth[w] > 0 /\ Top(w) = Inner(w) /\ Top(w) \in FrameType
        /\ TypeInv
    BY Views DEF IInv
  <1>2. depth[w] >= 1 /\ depth[w] \in 1 .. depth[w]
    BY <1>1
  <1>3. Innermost(Inner(w)) /\ FrameOK(Inner(w))
    BY <1>2 DEF IInv, StackInv, FrameInv, Inner
  <1>4. QED
    BY <1>1, <1>2, <1>3 DEF Inner, FrameType

\* Inside parfor_ there is a loop, with a number of iterations.
LEMMA IterationsAreNat ==
  ASSUME IInv, InParfor
  PROVE  NumIterations \in Nat
  <1>1. loop \in 1 .. Len(Loops)
    BY LoopsAssumption DEF IInv, TypeInv, MainInv, LoopRuns
  <1>2. QED
    BY <1>1, LoopsAssumption, ElementOfSeq DEF NumIterations

\* A worker that waits has nothing left in its deque: what is there belongs to
\* frames on top of which nobody waits.
LEMMA WaitingDequeIsEmpty ==
  ASSUME IInv, NEW w \in Workers, Running(w), Waiting(Inner(w))
  PROVE  deques[w] = <<>>
  <1> SUFFICES ASSUME deques[w] # <<>> PROVE FALSE
    OBVIOUS
  <1>1. w \in Deques /\ deques[w] \in Seq(JobType)
    BY NumThreadsAssumption DEF IInv, TypeInv, Deques, Workers
  <1>2. 1 \in 1 .. Len(deques[w])
    BY <1>1, EmptySeq
  <1>3. PICK h \in 1 .. depth[w] :
          AtFork(frames[w][h]) /\ RightJob(frames[w][h]) = deques[w][1]
    BY <1>2 DEF IInv, DequeInv
  <1>4. depth[w] \in 1 .. depth[w] /\ h # depth[w] /\ h < depth[w]
    BY <1>3, InnerFrame DEF AtFork, Waiting
  <1>5. ~Waiting(frames[w][depth[w]])
    BY <1>2, <1>3, <1>4 DEF IInv, DequeInv
  <1>6. QED
    BY <1>5 DEF Inner

\* What pop_bottom gives a pardo is the right part of that pardo.
LEMMA LastIsOwn ==
  ASSUME IInv, NEW w \in Workers, Running(w), AtFork(Inner(w)), deques[w] # <<>>
  PROVE  /\ Len(deques[w]) \in 1 .. Len(deques[w])
         /\ deques[w][Len(deques[w])] = RightJob(Inner(w))
  <1>1. w \in Deques /\ deques[w] \in Seq(JobType)
    BY NumThreadsAssumption DEF IInv, TypeInv, Deques, Workers
  <1>2. Len(deques[w]) \in 1 .. Len(deques[w]) /\ Len(deques[w]) \in Nat
    BY <1>1, EmptySeq
  <1>3. PICK h \in 1 .. depth[w] :
          AtFork(frames[w][h]) /\ RightJob(frames[w][h]) = deques[w][Len(deques[w])]
    BY <1>2 DEF IInv, DequeInv
  <1>4. CASE h = depth[w]
    BY <1>2, <1>3, <1>4 DEF Inner
  <1>5. CASE h # depth[w]
    <2>1. depth[w] \in 1 .. depth[w] /\ h < depth[w]
      BY <1>5, InnerFrame
    <2>2. \E l \in Len(deques[w]) + 1 .. Len(deques[w]) :
            deques[w][l] = RightJob(frames[w][depth[w]])
      BY SMTT(30), <1>2, <1>3, <2>1 DEF IInv, DequeInv, Inner
    <2>3. QED
      BY <1>2, <2>2
  <1>6. QED
    BY <1>4, <1>5

\* The actions that only move a frame on.
LEMMA MovingSteps ==
  ASSUME IInv, NEW w \in Workers,
         \/ RunHere(w) \/ LoopGoesOn(w) \/ TakeOwn(w)
         \/ PopBottom(w) /\ deques[w] = <<>>
         \/ LoopEnds(w) /\ Top(w).kind = "range"
  PROVE  IInv'
  <1>1. Running(w)
    BY DEF RunHere, LoopGoesOn, TakeOwn, PopBottom, LoopEnds, AtRange, InLoop, At
  <1>2. /\ depth[w] \in Nat /\ depth[w] > 0 /\ Top(w) = Inner(w) /\ Inner(w) \in FrameType
        /\ TypeInv
    BY <1>1, Views DEF IInv
  <1> DEFINE f == Inner(w)
             g(at) == [f EXCEPT !.at = at]
  <1>3. TakeOwn(w) => deques[w] = <<>>
    BY <1>1, <1>2, WaitingDequeIsEmpty DEF TakeOwn, InLoop, At, Waiting
  <1>4. /\ UNCHANGED <<deques, finished, finishedFlag, loop, granularity, runs>>
        /\ \E at \in {"body", "check", "take", "steal", "return"} :
             Become(w, <<g(at)>>) /\ GoesOn(f, g(at), deques[w] = <<>>, RightJob(f) \in finished)
    <2> HIDE DEF f
    <2>0. /\ Top(w) = f /\ f \in FrameType
          /\ \A at : Goto(w, at) = g(at) /\ g(at).at = at
      BY <1>2 DEF f, Goto, FrameType
    <2> HIDE DEF g
    <2>1. CASE RunHere(w)
      <3>1. /\ Become(w, <<g("body")>>)
            /\ GoesOn(f, g("body"), deques[w] = <<>>, RightJob(f) \in finished)
        BY <2>0, <2>1 DEF RunHere, AtRange, At, GoesOn, FrameType
      <3>2. QED
        BY <2>1, <3>1 DEF RunHere
    <2>2. CASE LoopGoesOn(w)
      <3>1. /\ Become(w, <<g("take")>>)
            /\ GoesOn(f, g("take"), deques[w] = <<>>, RightJob(f) \in finished)
        BY <2>0, <2>2 DEF LoopGoesOn, InLoop, At, GoesOn
      <3>2. QED
        BY <2>2, <3>1 DEF LoopGoesOn
    <2>3. CASE TakeOwn(w)
      <3>1. /\ Become(w, <<g("steal")>>)
            /\ GoesOn(f, g("steal"), deques[w] = <<>>, RightJob(f) \in finished)
        BY <1>3, <2>0, <2>3 DEF TakeOwn, InLoop, At, GoesOn
      <3>2. QED
        BY <1>3, <2>3, <3>1 DEF TakeOwn
    <2>4. CASE PopBottom(w) /\ deques[w] = <<>>
      <3>1. /\ Become(w, <<g("check")>>)
            /\ GoesOn(f, g("check"), deques[w] = <<>>, RightJob(f) \in finished)
        BY <2>0, <2>4 DEF PopBottom, AtRange, At, GoesOn
      <3>2. QED
        BY <2>4, <3>1 DEF PopBottom
    <2>5. CASE LoopEnds(w) /\ Top(w).kind = "range"
      <3>1. /\ Become(w, <<g("return")>>)
            /\ GoesOn(f, g("return"), deques[w] = <<>>, RightJob(f) \in finished)
        BY <2>0, <2>5 DEF LoopEnds, InLoop, At, GoesOn, Finished, LeaveLoop
      <3>2. QED
        BY <2>5, <3>1 DEF LoopEnds
    <2>6. QED
      BY <2>1, <2>2, <2>3, <2>4, <2>5
  <1>5. PICK at \in {"body", "check", "take", "steal", "return"} :
          Become(w, <<g(at)>>) /\ GoesOn(f, g(at), deques[w] = <<>>, RightJob(f) \in finished)
    BY <1>4
  <1>6. /\ g(at) \in FrameType
        /\ g(at).kind = f.kind /\ g(at).lo = f.lo /\ g(at).hi = f.hi
    BY <1>2 DEF FrameType
  <1> HIDE DEF f, g
  <1>7. stack' \in [Workers -> Seq(FrameType)] /\ Rewritten(w, g(at))
    BY <1>1, <1>2, <1>5, <1>6, Rewriting
  <1>8. TypeInv'
    BY <1>2, <1>4, <1>7 DEF TypeInv
  <1>9. QED
    BY <1>1, <1>4, <1>5, <1>6, <1>7, <1>8, Moving DEF f

--------------------------------------------------------------------------------
(* Jobs that nobody has begun.                                                 *)

\* A job that nobody has begun, and whose first iteration is not the next one
\* of a worker, is not on any stack and not finished.
LEMMA NotStarted ==
  ASSUME IInv, NEW lo \in Nat, NEW hi \in Nat, lo < hi, Todo(lo, hi),
         \A v \in Workers :
           HasPiece(v) /\ Inner(v).lo < Inner(v).hi => Inner(v).lo # lo
  PROVE  ~Started(Job(lo, hi)) /\ Job(lo, hi) \notin finished
  <1>1. ~Done(lo, lo + 1) /\ ~Done(lo, hi)
    BY DEF Done, Todo
  <1>2. ASSUME NEW v \in Workers, NEW h \in 1 .. depth[v],
               IsJob(v, h), JobOf(frames[v][h]) = Job(lo, hi)
        PROVE  FALSE
    <2> DEFINE f == frames[v][h]
    <2>1. f.lo = lo /\ f.hi = hi /\ f.kind = "job" /\ FrameOK(f)
      BY <1>2 DEF IsJob, JobOf, Job, IInv, FrameInv
    <2>2. f.at # "finish"
      BY <1>1, <2>1 DEF FrameOK
    <2>3. f.at # "running"
      BY <1>1, <1>2, <2>1 DEF IInv, JobInv
    <2>4. depth[v] \in Nat /\ IF h = depth[v] THEN Innermost(f) ELSE Calling(f)
      BY Views DEF IInv, StackInv
    <2> HIDE DEF f
    <2>5. f.at = "run" /\ h = depth[v]
      BY <2>1, <2>2, <2>3, <2>4 DEF Innermost, Calling
    <2>6. Inner(v) = f /\ HasPiece(v)
      BY <1>2, <2>1, <2>4, <2>5 DEF Inner, HasPiece, IsPiece, f
    <2>7. QED
      BY <2>1, <2>6
  <1>3. ~Started(Job(lo, hi))
    BY <1>2 DEF Started
  <1>4. Job(lo, hi) \in finished => Done(lo, hi)
    BY DEF IInv, FinishedInv, Job
  <1>5. QED
    BY <1>1, <1>3, <1>4

\* Nobody runs a job of a deque.
LEMMA SlotNotStarted ==
  ASSUME IInv, NEW d \in Deques, NEW k \in 1 .. Len(deques[d])
  PROVE  LET j == deques[d][k]
         IN  /\ j \in JobType /\ j = Job(j.lo, j.hi) /\ j.lo < j.hi
             /\ j.lo \in Nat /\ j.hi \in Nat
             /\ j.hi <= NumIterations /\ Todo(j.lo, j.hi)
             /\ ~Started(j) /\ j \notin finished /\ Alive(j)
             /\ \A v \in Workers : HasPiece(v) => Apart(Inner(v), j)
  <1> DEFINE j == deques[d][k]
  <1>1. j \in JobType /\ j \notin finished
    BY SlotsAreFresh
  <1>2. /\ j.loop = loop /\ j.lo < j.hi /\ j.hi <= NumIterations /\ Todo(j.lo, j.hi)
        /\ \A v \in Workers : HasPiece(v) => Apart(Inner(v), j)
        /\ Alive(j)
    BY DEF IInv, SlotInv, AliveInv
  <1> HIDE DEF j
  <1>3. j.lo \in Nat /\ j.hi \in Nat /\ j = Job(j.lo, j.hi)
    BY <1>1, <1>2 DEF JobType, Job
  <1>4. ASSUME NEW v \in Workers, HasPiece(v), Inner(v).lo < Inner(v).hi
        PROVE  Inner(v).lo # j.lo
    <2>1. Inner(v).lo \in Nat /\ Inner(v).hi \in Nat
      BY <1>4, InnerFrame, Views DEF HasPiece, IInv
    <2>2. QED
      BY <1>2, <1>3, <1>4, <2>1 DEF Apart
  <1>5. ~Started(j)
    BY <1>2, <1>3, <1>4, NotStarted
  <1>6. QED
    BY <1>1, <1>2, <1>3, <1>5 DEF j

\* Two jobs of the deques are different.
LEMMA SlotsDiffer ==
  ASSUME IInv, NEW d \in Deques, NEW e \in Deques,
         NEW k \in 1 .. Len(deques[d]), NEW l \in 1 .. Len(deques[e]),
         deques[d][k] = deques[e][l]
  PROVE  d = e /\ k = l
  <1>1. d # e \/ k # l => Apart(deques[d][k], deques[e][l])
    BY DEF IInv, SlotInv
  <1>2. /\ deques[d][k].lo \in Nat /\ deques[d][k].hi \in Nat
        /\ deques[d][k].lo < deques[d][k].hi
    BY SlotNotStarted
  <1>3. QED
    BY <1>1, <1>2 DEF Apart

\* The right part of a range that is about to be split is no job yet.
LEMMA PartNotStarted ==
  ASSUME IInv, NEW w \in Workers, HasPiece(w), NEW mid \in Nat,
         Inner(w).lo < mid, mid < Inner(w).hi
  PROVE  LET j == Job(mid, Inner(w).hi)
         IN  /\ ~Started(j) /\ j \notin finished
             /\ \A d \in Deques : \A k \in 1 .. Len(deques[d]) : deques[d][k] # j
             /\ \A v \in Workers : \A h \in 1 .. depth[v] :
                  Owns(v, h) => RightJob(frames[v][h]) # j
  <1> DEFINE lo == Inner(w).lo
             hi == Inner(w).hi
             j == Job(mid, hi)
  <1>1. lo \in Nat /\ hi \in Nat /\ Todo(lo, hi) /\ lo < mid /\ mid < hi
    BY InnerFrame, Views DEF HasPiece, IInv, PieceInv
  <1>2. \A v \in Workers : v # w /\ HasPiece(v) => Apart(Inner(v), Inner(w))
    BY DEF IInv, PieceInv
  <1>3. ASSUME NEW v \in Workers, HasPiece(v), Inner(v).lo < Inner(v).hi
        PROVE  Inner(v).lo # mid
    <2>1. Inner(v).lo \in Nat /\ Inner(v).hi \in Nat
      BY <1>3, InnerFrame, Views DEF HasPiece, IInv
    <2>2. QED
      BY <1>1, <1>2, <1>3, <2>1 DEF Apart
  <1>4. \A d \in Deques : \A k \in 1 .. Len(deques[d]) : deques[d][k] # j
    <2>1. ASSUME NEW d \in Deques, NEW k \in 1 .. Len(deques[d]), deques[d][k] = j
          PROVE  FALSE
      <3>1. j.lo = mid /\ j.hi = hi
        BY DEF Job
      <3>2. Apart(Inner(w), j)
        BY <2>1, SlotNotStarted
      <3>3. QED
        BY <1>1, <3>1, <3>2 DEF Apart
    <2>2. QED
      BY <2>1
  <1> HIDE DEF lo, hi
  <1>5. Todo(mid, hi)
    BY <1>1 DEF Todo
  <1>6. ~Started(j) /\ j \notin finished
    BY <1>1, <1>3, <1>5, NotStarted
  <1>7. \A v \in Workers : \A h \in 1 .. depth[v] :
          Owns(v, h) => RightJob(frames[v][h]) # j
    <2>1. \A v \in Workers : v \in Deques
      BY NumThreadsAssumption DEF Workers, Deques
    <2> HIDE DEF j
    <2>2. QED
      BY <1>4, <1>6, <2>1 DEF IInv, OwnedInv
  <1>8. QED
    BY <1>4, <1>6, <1>7 DEF hi, j

--------------------------------------------------------------------------------
(* Calls.                                                                      *)

\* f, the innermost frame, becomes g and calls c.
Call(w, c, g) ==
  /\ g.kind = Inner(w).kind /\ g.lo = Inner(w).lo /\ g.hi = Inner(w).hi
  /\ \/ /\ \/ g.kind = "range" /\ g.at \in {"left", "right"}
           \/ g.kind = "job" /\ g.at = "running"
        /\ Inner(w).at \in {"enter", "pop", "run"}
        /\ c.kind = "range" /\ c.at = "enter"
        /\ c.lo = CalledLo(g) /\ c.hi = CalledHi(g)
        /\ g.lo <= c.lo /\ c.hi <= g.hi
     \/ /\ g.kind \in {"range", "worker"} /\ g.at = "check" /\ Inner(w).at = "steal"
        /\ c.kind = "job" /\ c.at = "run"

\* Which frames there are after a call.
LEMMA CallFrames ==
  ASSUME IInv, NEW w \in Workers, Running(w), NEW c \in FrameType, NEW g \in FrameType,
         Entered(w, c, g)
  PROVE  /\ \A v \in Workers : v # w => depth'[v] = depth[v]
         /\ \A v \in Workers : depth[v] \in Nat
         /\ depth'[w] = depth[w] + 1 /\ depth[w] \in 1 .. depth[w]
         /\ frames[w][depth[w]] = Inner(w)
         /\ frames'[w][depth[w]] = g /\ frames'[w][depth[w] + 1] = c
         /\ \A v \in Workers : \A h \in 1 .. depth[v] :
              h \in 1 .. depth'[v] /\ (v # w \/ h # depth[w] => frames'[v][h] = frames[v][h])
         /\ \A v \in Workers : \A h \in 1 .. depth'[v] :
              \/ h \in 1 .. depth[v]
              \/ v = w /\ h = depth[w] + 1
         /\ Inner(w)' = c
         /\ \A v \in Workers : v # w /\ depth[v] > 0 => Inner(v)' = Inner(v)
  <1>1. \A v \in Workers : depth[v] \in Nat
    BY Views DEF IInv
  <1>2. depth[w] \in 1 .. depth[w] /\ frames[w][depth[w]] = Inner(w)
    BY InnerFrame
  <1>3. /\ \A v \in Workers : v # w => depth'[v] = depth[v]
        /\ depth'[w] = depth[w] + 1
        /\ frames'[w][depth[w]] = g /\ frames'[w][depth[w] + 1] = c
        /\ \A v \in Workers : \A h \in 1 .. depth[v] :
             v # w \/ h # depth[w] => frames'[v][h] = frames[v][h]
    BY <1>1 DEF Entered, Kept
  <1>4. \A v \in Workers : \A h \in 1 .. depth[v] : h \in 1 .. depth'[v]
    BY <1>1, <1>3
  <1>5. \A v \in Workers : \A h \in 1 .. depth'[v] :
              \/ h \in 1 .. depth[v]
              \/ v = w /\ h = depth[w] + 1
    BY <1>1, <1>3
  <1>6. Inner(w)' = c
    BY <1>3 DEF Inner
  <1>7. ASSUME NEW v \in Workers, v # w, depth[v] > 0
        PROVE  Inner(v)' = Inner(v)
    <2>1. depth[v] \in 1 .. depth[v]
      BY <1>1, <1>7
    <2>2. QED
      BY <1>3, <1>7, <2>1 DEF Inner
  <1>8. QED
    BY <1>1, <1>2, <1>3, <1>4, <1>5, <1>6, <1>7

\* The parts of the invariant that only the frames of a call matter to: the
\* main thread, the stacks, the frames, the finished jobs and the nesting.
LEMMA Calls ==
  ASSUME IInv, NEW w \in Workers, Running(w), NEW c \in FrameType, NEW g \in FrameType,
         Entered(w, c, g), Call(w, c, g), FrameOK(g), FrameOK(c), InParfor,
         UNCHANGED <<finished, loop, granularity, runs>>
  PROVE  MainInv' /\ StackInv' /\ FrameInv' /\ FinishedInv' /\ NestInv'
  <1> DEFINE D == depth[w]
             f == Inner(w)
  <1>1. /\ \A v \in Workers : v # w => depth'[v] = depth[v]
        /\ \A v \in Workers : depth[v] \in Nat
        /\ depth'[w] = D + 1 /\ D \in 1 .. D /\ frames[w][D] = f
        /\ frames'[w][D] = g /\ frames'[w][D + 1] = c
        /\ \A v \in Workers : \A h \in 1 .. depth[v] :
             v # w \/ h # D => frames'[v][h] = frames[v][h]
        /\ \A v \in Workers : \A h \in 1 .. depth'[v] :
             h \in 1 .. depth[v] \/ (v = w /\ h = D + 1)
    BY CallFrames
  <1>2. /\ finished' = finished /\ loop' = loop /\ granularity' = granularity
        /\ runs' = runs /\ NumIterations' = NumIterations /\ 0 \in Workers
    BY ZeroIsWorker DEF NumIterations
  <1>3. /\ g.kind = f.kind /\ g.lo = f.lo /\ g.hi = f.hi /\ f.kind # "main"
        /\ f.at # "body" /\ Calling(g) /\ Innermost(c)
        /\ c.kind \in {"range", "job"}
        /\ c.kind = "range" => f.kind \in {"range", "job"} /\ g.lo <= c.lo /\ c.hi <= g.hi
    BY DEF Call, Calling, Innermost
  <1>4. Called(c, g)
    <2>1. g.at = "check" => c.kind = "job"
      BY DEF Call
    <2>2. g.at # "check" => c.kind = "range" /\ c.hi = CalledHi(g) /\ c.lo = CalledLo(g)
      BY DEF Call
    <2>3. g.at # "check" => c.lo \in Nat
      BY DEF FrameType
    <2>4. c.lo \in Nat => Done(c.lo, c.lo)
      BY DEF Done
    <2>5. QED
      BY <2>1, <2>2, <2>3, <2>4 DEF Called
  <1>5. InParfor' /\ frames'[0][1] = frames[0][1]
    <2>1. f.kind # "main"
      BY <1>3
    <2>2. w = 0 => D # 1
      BY <1>1, <2>1 DEF IInv, StackInv
    <2>3. QED
      BY <1>1, <1>2, <2>2 DEF InParfor
  <1> HIDE DEF D, f
  <1>6. MainInv'
    <2>1. ~MainAt("measure")' /\ ~MainAt("returned")' /\ ~MainAt("call")' /\ ~MainAt("join")'
      BY <1>5 DEF MainAt, InParfor
    <2>2. depth'[0] # 0
      BY <1>5 DEF InParfor
    <2>3. /\ LoopRuns /\ granularity >= 1
          /\ frames[0][1].lo <= NumIterations /\ Done(0, frames[0][1].lo)
      BY DEF IInv, MainInv
    <2>4. /\ LoopRuns' /\ granularity' >= 1
          /\ frames'[0][1].lo <= NumIterations' /\ Done(0, frames[0][1].lo)'
      BY <1>2, <1>5, <2>3 DEF LoopRuns, Done
    <2>5. QED
      BY <1>5, <2>1, <2>2, <2>4 DEF MainInv
  <1>7. StackInv'
    <2> SUFFICES ASSUME NEW v \in Workers, NEW h \in 1 .. depth'[v]
                 PROVE  /\ IF h = depth'[v] THEN Innermost(frames'[v][h])
                           ELSE Calling(frames'[v][h]) /\ Called(frames[v][h + 1], frames[v][h])'
                        /\ frames'[v][h].kind = "main" <=> v = 0 /\ h = 1
                        /\ frames'[v][h].kind = "worker" <=> v # 0 /\ h = 1
      BY DEF StackInv, Innermost, Calling
    <2>1. CASE v = w /\ h = D + 1
      BY <1>1, <1>3, <2>1
    <2>2. CASE h \in 1 .. depth[v]
      <3>1. /\ IF h = depth[v] THEN Innermost(frames[v][h])
               ELSE Calling(frames[v][h]) /\ Called(frames[v][h + 1], frames[v][h])
            /\ frames[v][h].kind = "main" <=> v = 0 /\ h = 1
            /\ frames[v][h].kind = "worker" <=> v # 0 /\ h = 1
        BY <2>2 DEF StackInv, IInv
      <3>2. CASE v = w /\ h = D
        <4>1. frames'[v][h] = g /\ frames'[v][h + 1] = c /\ h # depth'[v] /\ frames[v][h] = f
          BY <1>1, <3>2
        <4>2. Called(frames[v][h + 1], frames[v][h])'
          BY <1>2, <1>4, <4>1 DEF Called, CalledLo, CalledHi, Done, Mid
        <4>3. QED
          BY <1>3, <3>1, <4>1, <4>2
      <3>3. CASE ~(v = w /\ h = D)
        <4>1. frames'[v][h] = frames[v][h] /\ (h = depth[v] <=> h = depth'[v])
          BY <1>1, <2>2, <3>3 DEF D
        <4>2. ASSUME h # depth[v]
              PROVE  Called(frames[v][h + 1], frames[v][h])'
          <5>1. h + 1 \in 1 .. depth[v] /\ Called(frames[v][h + 1], frames[v][h])
            BY <1>1, <2>2, <3>1, <4>2
          <5>2. CASE v = w /\ h + 1 = D
            <6>1. frames'[v][h + 1] = g /\ frames[v][h + 1] = f
              BY <1>1, <5>1, <5>2
            <6>2. QED
              BY <1>2, <1>3, <4>1, <5>1, <6>1 DEF Called, CalledLo, CalledHi, Done, Mid
          <5>3. CASE ~(v = w /\ h + 1 = D)
            <6>1. frames'[v][h + 1] = frames[v][h + 1]
              BY <1>1, <5>1, <5>3
            <6>2. QED
              BY <1>2, <4>1, <5>1, <6>1 DEF Called, CalledLo, CalledHi, Done, Mid
          <5>4. QED
            BY <5>2, <5>3
        <4>3. QED
          BY <3>1, <4>1, <4>2
      <3>4. QED
        BY <3>2, <3>3
    <2>3. QED
      BY <1>1, <2>1, <2>2
  <1>8. FrameInv'
    <2>1. ASSUME NEW v \in Workers, NEW h \in 1 .. depth'[v]
          PROVE  FrameOK(frames[v][h])'
      <3>1. frames'[v][h] \in {g, c} => FrameOK(frames[v][h])'
        BY <1>2 DEF FrameOK, Done, Mid
      <3>2. ASSUME h \in 1 .. depth[v], v # w \/ h # D
            PROVE  FrameOK(frames[v][h])'
        <4>1. FrameOK(frames[v][h]) /\ frames'[v][h] = frames[v][h]
          BY <1>1, <3>2 DEF FrameInv, IInv
        <4>2. QED
          BY <1>2, <4>1 DEF FrameOK, Done, Mid
      <3>3. QED
        BY <1>1, <3>1, <3>2
    <2>2. QED
      BY <2>1 DEF FrameInv
  <1>9. FinishedInv'
    BY <1>2, <1>5 DEF FinishedInv, IInv, Done
  <1>10. NestInv'
    <2> DEFINE Within(v, h, e) ==
          \/ frames[v][e].kind = "main"
          \/ /\ IsJob(v, e)
             /\ frames[v][e].lo <= frames[v][h].lo /\ frames[v][h].hi <= frames[v][e].hi
    <2>1. ASSUME NEW v \in Workers, NEW h \in 1 .. depth'[v], frames'[v][h].kind = "range"
          PROVE  \E e \in 1 .. h - 1 : Within(v, h, e)'
      <3>1. \A e \in 1 .. depth[v] :
              /\ frames'[v][e].kind = frames[v][e].kind
              /\ frames'[v][e].lo = frames[v][e].lo /\ frames'[v][e].hi = frames[v][e].hi
        BY <1>1, <1>3
      <3>2. CASE h \in 1 .. depth[v]
        <4>1. PICK e \in 1 .. h - 1 : Within(v, h, e)
          BY <2>1, <3>1, <3>2 DEF NestInv, IInv
        <4>2. e \in 1 .. depth[v]
          BY <1>1, <3>2
        <4>3. QED
          BY <3>1, <3>2, <4>1, <4>2 DEF IsJob
      <3>3. CASE v = w /\ h = D + 1
        <4>1. frames'[v][h] = c /\ c.kind = "range" /\ D \in 1 .. h - 1 /\ D \in 1 .. depth[w]
          BY <1>1, <2>1, <3>3
        <4>2. CASE f.kind = "job"
          <5>1. PICK e \in 1 .. h - 1 : e = D
            BY <4>1
          <5>2. Within(v, h, e)'
            BY <1>1, <1>3, <3>3, <4>1, <4>2, <5>1 DEF IsJob
          <5>3. QED
            BY <5>2
        <4>3. CASE f.kind = "range"
          <5>1. PICK e \in 1 .. D - 1 : Within(w, D, e)
            BY <1>1, <4>1, <4>3 DEF NestInv, IInv
          <5>2. e \in 1 .. h - 1 /\ e \in 1 .. depth[w] /\ e # D
            BY <1>1, <3>3, <4>1
          <5>3. /\ frames[w][e].lo \in Nat /\ frames[w][e].hi \in Nat
                /\ c.lo \in Nat /\ c.hi \in Nat /\ f.lo \in Nat /\ f.hi \in Nat
            BY <5>2, InnerFrame, Views DEF IInv, FrameType, f
          <5>4. Within(v, h, e)'
            BY <1>1, <1>3, <3>1, <3>3, <4>1, <5>1, <5>2, <5>3 DEF IsJob
          <5>5. QED
            BY <5>2, <5>4
        <4>4. QED
          BY <1>3, <4>1, <4>2, <4>3
      <3>4. QED
        BY <1>1, <3>2, <3>3
    <2>2. QED
      BY <2>1 DEF NestInv
  <1>11. QED
    BY <1>6, <1>7, <1>8, <1>9, <1>10

\* pardo leaves its right part in the deque and calls left(): the piece of the
\* range is split between the worker and the new job.
LEMMA ForkStep ==
  ASSUME IInv, NEW w \in Workers, Fork(w)
  PROVE  IInv'
  <1>0. PICK D \in Nat, f \in FrameType, j \in JobType :
          D = depth[w] /\ f = Inner(w) /\ j = RightJob(f)
    <2>1. Running(w) /\ Top(w).kind = "range" /\ Top(w).hi - Top(w).lo > granularity
      BY DEF Fork, AtRange, At
    <2>2. /\ Top(w) = Inner(w) /\ depth[w] \in 1 .. depth[w]
          /\ Inner(w) = frames[w][depth[w]]
      BY <2>1, InnerFrame
    <2>3. Mid(Inner(w).lo, Inner(w).hi) \in Nat /\ Inner(w).hi \in Nat
      BY <2>1, <2>2, RangeMid
    <2>4. RightJob(Inner(w)) \in JobType
      BY <2>3 DEF RightJob, Job, JobType, IInv, TypeInv
    <2>5. QED
      BY <2>1, <2>4, InnerFrame
  <1> DEFINE mid == Mid(f.lo, f.hi)
             g == [f EXCEPT !.at = "left"]
             c == CallRange(f.lo, mid)
  <1>1. /\ Running(w) /\ Top(w) = f /\ f \in FrameType /\ f.lo \in Nat /\ f.hi \in Nat
        /\ f.kind = "range" /\ f.at = "enter" /\ f.hi - f.lo > granularity
        /\ D \in Nat /\ D \in 1 .. D /\ f = frames[w][D] /\ FrameOK(f) /\ TypeInv
        /\ D = depth[w] /\ f = Inner(w)
    <2>1. Running(w) /\ Top(w).kind = "range" /\ Top(w).at = "enter"
          /\ Top(w).hi - Top(w).lo > granularity
      BY DEF Fork, AtRange, At
    <2>2. QED
      BY <1>0, <2>1, InnerFrame DEF IInv
  <1>2. /\ mid \in Nat /\ f.lo < mid /\ mid < f.hi /\ f.hi <= NumIterations /\ InParfor
        /\ NumIterations \in Nat
    BY <1>1, RangeMid, InsideParfor, IterationsAreNat DEF FrameOK
  <1>3. /\ g \in FrameType /\ g.kind = "range" /\ g.at = "left" /\ g.lo = f.lo /\ g.hi = f.hi
    BY <1>1 DEF FrameType
  <1>4. /\ c \in FrameType /\ c.kind = "range" /\ c.at = "enter" /\ c.lo = f.lo /\ c.hi = mid
    BY <1>1, <1>2 DEF CallRange, Frame, FrameType
  <1>5. /\ j \in JobType /\ j.loop = loop /\ j.lo = mid /\ j.hi = f.hi /\ j = Job(mid, f.hi)
    BY <1>0, <1>1, <1>2 DEF RightJob, Job
  <1>6. /\ Become(w, <<c, g>>) /\ deques' = [deques EXCEPT ![w] = Append(@, j)]
        /\ UNCHANGED <<finished, finishedFlag, loop, granularity, runs>>
    BY <1>0, <1>1 DEF Fork, Goto
  <1>7. HasPiece(w) /\ Todo(f.lo, f.hi)
    BY <1>1 DEF HasPiece, IsPiece, IInv, PieceInv
  <1> HIDE DEF g, c, mid
  <1>8. stack' \in [Workers -> Seq(FrameType)] /\ Entered(w, c, g)
    BY <1>1, <1>3, <1>4, <1>6, Entering
  <1>9. /\ w \in Deques /\ deques[w] \in Seq(JobType) /\ Len(deques[w]) \in Nat
        /\ deques' \in [Deques -> Seq(JobType)]
        /\ Len(deques'[w]) = Len(deques[w]) + 1 /\ deques'[w][Len(deques[w]) + 1] = j
        /\ \A k \in 1 .. Len(deques[w]) : deques'[w][k] = deques[w][k]
        /\ \A d \in Deques : d # w => deques'[d] = deques[d]
    <2>1. w \in Deques
      BY NumThreadsAssumption DEF Deques, Workers
    <2>2. deques \in [Deques -> Seq(JobType)]
      BY <1>1 DEF TypeInv
    <2>3. deques[w] \in Seq(JobType) /\ deques'[w] = Append(deques[w], j)
      BY <1>6, <2>1, <2>2
    <2>4. /\ Append(deques[w], j) \in Seq(JobType)
          /\ Len(Append(deques[w], j)) = Len(deques[w]) + 1
          /\ Append(deques[w], j)[Len(deques[w]) + 1] = j
          /\ \A k \in 1 .. Len(deques[w]) : Append(deques[w], j)[k] = deques[w][k]
      BY <1>5, <2>3, AppendProperties
    <2>5. \A d \in Deques : d # w => deques'[d] = deques[d]
      BY <1>6, <2>2
    <2>6. deques' \in [Deques -> Seq(JobType)]
      BY <1>6, <2>1, <2>2, <2>3, <2>4
    <2>7. Len(deques[w]) \in Nat
      BY <2>3
    <2>8. QED
      BY <2>1, <2>3, <2>4, <2>5, <2>6, <2>7
  <1>10. TypeInv'
    BY <1>1, <1>6, <1>8, <1>9 DEF TypeInv
  <1>11. /\ \A v \in Workers : v # w => depth'[v] = depth[v]
         /\ \A v \in Workers : depth[v] \in Nat
         /\ depth'[w] = D + 1
         /\ frames'[w][D] = g /\ frames'[w][D + 1] = c
         /\ \A v \in Workers : \A h \in 1 .. depth[v] :
              h \in 1 .. depth'[v] /\ (v # w \/ h # D => frames'[v][h] = frames[v][h])
         /\ \A v \in Workers : \A h \in 1 .. depth'[v] :
              h \in 1 .. depth[v] \/ (v = w /\ h = D + 1)
         /\ Inner(w)' = c
         /\ \A v \in Workers : v # w /\ depth[v] > 0 => Inner(v)' = Inner(v)
    BY <1>1, <1>3, <1>4, <1>8, CallFrames
  <1>12. /\ finished' = finished /\ loop' = loop /\ granularity' = granularity
         /\ runs' = runs /\ NumIterations' = NumIterations
         /\ \A lo, hi : Job(lo, hi)' = Job(lo, hi)
    BY <1>6 DEF NumIterations, Job
  <1>13. MainInv' /\ StackInv' /\ FrameInv' /\ FinishedInv' /\ NestInv'
    <2>1. Call(w, c, g)
      BY <1>1, <1>2, <1>3, <1>4 DEF Call, CalledLo, CalledHi, mid
    <2>2. FrameOK(g) /\ FrameOK(c)
      BY <1>1, <1>2, <1>3, <1>4 DEF FrameOK
    <2>3. QED
      BY <1>1, <1>2, <1>3, <1>4, <1>6, <1>8, <2>1, <2>2, Calls
  <1>14. /\ ~Started(j) /\ j \notin finished
         /\ \A d \in Deques : \A k \in 1 .. Len(deques[d]) : deques[d][k] # j
         /\ \A v \in Workers : \A h \in 1 .. depth[v] :
              Owns(v, h) => RightJob(frames[v][h]) # j
    BY <1>1, <1>2, <1>5, <1>7, PartNotStarted
  <1>15. \A v \in Workers :
           /\ HasPiece(v)' <=> HasPiece(v)
           /\ v # w /\ HasPiece(v) =>
                Inner(v)' = Inner(v) /\ Apart(Inner(v), f) /\ Apart(f, Inner(v))
    <2>1. HasPiece(w) /\ HasPiece(w)'
      BY <1>1, <1>4, <1>7, <1>11 DEF HasPiece, IsPiece
    <2>2. ASSUME NEW v \in Workers, v # w
          PROVE  /\ HasPiece(v)' <=> HasPiece(v)
                 /\ HasPiece(v) => Inner(v)' = Inner(v)
      BY <1>1, <1>11, <2>2 DEF HasPiece, IsPiece
    <2>3. ASSUME NEW v \in Workers, v # w, HasPiece(v)
          PROVE  Apart(Inner(v), f) /\ Apart(f, Inner(v))
      BY <1>1, <1>7, <2>3 DEF PieceInv, IInv
    <2>4. QED
      BY <2>1, <2>2, <2>3
  <1>16. \A v \in Workers : HasPiece(v) => Inner(v).lo \in Nat /\ Inner(v).hi \in Nat
    BY InnerFrame, Views DEF HasPiece, IInv
  <1>17. PieceInv'
    <2>1. ASSUME NEW v \in Workers, HasPiece(v)'
          PROVE  /\ Todo(Inner(v).lo, Inner(v).hi)'
                 /\ \A u \in Workers : u # v /\ HasPiece(u)' => Apart(Inner(v), Inner(u))'
      <3>1. Todo(Inner(v).lo, Inner(v).hi)'
        BY <1>1, <1>2, <1>4, <1>7, <1>11, <1>12, <1>15, <2>1 DEF PieceInv, IInv, Todo
      <3>2. ASSUME NEW u \in Workers, u # v, HasPiece(u)'
            PROVE  Apart(Inner(v), Inner(u))'
        <4>1. HasPiece(u) /\ HasPiece(v) /\ Apart(Inner(v), Inner(u))
          BY <1>15, <2>1, <3>2 DEF PieceInv, IInv
        <4>2. QED
          BY <1>1, <1>2, <1>4, <1>11, <1>15, <1>16, <3>2, <4>1 DEF Apart
      <3>3. QED
        BY <3>1, <3>2
    <2>2. QED
      BY <2>1 DEF PieceInv
  <1>18. SlotInv'
    <2>1. \A d \in Deques : \A k \in 1 .. Len(deques'[d]) :
            \/ k \in 1 .. Len(deques[d]) /\ deques'[d][k] = deques[d][k]
            \/ d = w /\ k = Len(deques[w]) + 1 /\ deques'[d][k] = j
      BY <1>9
    <2>2. \A d \in Deques : \A k \in 1 .. Len(deques[d]) :
            /\ deques[d][k].lo \in Nat /\ deques[d][k].hi \in Nat
            /\ Apart(deques[d][k], f) /\ Apart(f, deques[d][k])
      BY <1>1, <1>7, SlotNotStarted DEF Apart
    <2>3. ASSUME NEW d \in Deques, NEW k \in 1 .. Len(deques'[d])
          PROVE  /\ deques'[d][k].loop = loop /\ deques'[d][k].lo < deques'[d][k].hi
                 /\ deques'[d][k].hi <= NumIterations
                 /\ Todo(deques[d][k].lo, deques[d][k].hi)'
                 /\ \A v \in Workers : HasPiece(v)' => Apart(Inner(v), deques[d][k])'
      <3>1. CASE k \in 1 .. Len(deques[d]) /\ deques'[d][k] = deques[d][k]
        <4>1. /\ deques[d][k].loop = loop /\ deques[d][k].lo < deques[d][k].hi
              /\ deques[d][k].hi <= NumIterations
              /\ Todo(deques[d][k].lo, deques[d][k].hi)
              /\ \A v \in Workers : HasPiece(v) => Apart(Inner(v), deques[d][k])
          BY <3>1 DEF SlotInv, IInv
        <4>2. \A v \in Workers : HasPiece(v)' => Apart(Inner(v), deques[d][k])'
          BY SMTT(30), <1>1, <1>2, <1>4, <1>11, <1>15, <2>2, <3>1, <4>1 DEF Apart
        <4>3. QED
          BY <1>12, <3>1, <4>1, <4>2 DEF Todo
      <3>2. CASE d = w /\ k = Len(deques[w]) + 1 /\ deques'[d][k] = j
        <4>1. Todo(mid, f.hi)
          BY <1>1, <1>2, <1>7 DEF Todo
        <4>2. \A v \in Workers : HasPiece(v)' => Apart(Inner(v), deques[d][k])'
          BY <1>1, <1>2, <1>4, <1>5, <1>11, <1>15, <1>16, <3>2 DEF Apart
        <4>3. QED
          BY <1>2, <1>5, <1>12, <3>2, <4>1, <4>2 DEF Todo
      <3>3. QED
        BY <2>1, <3>1, <3>2
    <2>4. ASSUME NEW d \in Deques, NEW e \in Deques,
                 NEW k \in 1 .. Len(deques'[d]), NEW l \in 1 .. Len(deques'[e]),
                 d # e \/ k # l
          PROVE  Apart(deques[d][k], deques[e][l])'
      <3>1. CASE /\ k \in 1 .. Len(deques[d]) /\ deques'[d][k] = deques[d][k]
                 /\ l \in 1 .. Len(deques[e]) /\ deques'[e][l] = deques[e][l]
        BY <2>4, <3>1 DEF SlotInv, IInv, Apart
      <3>2. CASE /\ k \in 1 .. Len(deques[d]) /\ deques'[d][k] = deques[d][k]
                 /\ deques'[e][l] = j
        BY SMTT(30), <1>1, <1>2, <1>5, <2>2, <3>2 DEF Apart
      <3>3. CASE /\ l \in 1 .. Len(deques[e]) /\ deques'[e][l] = deques[e][l]
                 /\ deques'[d][k] = j
        BY SMTT(30), <1>1, <1>2, <1>5, <2>2, <3>3 DEF Apart
      <3>4. QED
        BY <2>1, <2>4, <3>1, <3>2, <3>3
    <2>5. QED
      BY <1>12, <2>3, <2>4 DEF SlotInv
  <1>19. \A v \in Workers : \A h \in 1 .. depth'[v] :
           /\ IsJob(v, h)' => /\ h \in 1 .. depth[v] /\ IsJob(v, h)
                              /\ frames'[v][h] = frames[v][h]
                              /\ JobOf(frames[v][h])' = JobOf(frames[v][h])
    BY <1>1, <1>3, <1>4, <1>11, <1>12 DEF IsJob, JobOf
  <1>20. \A v \in Workers : \A h \in 1 .. depth[v] :
           IsJob(v, h) => /\ h \in 1 .. depth'[v] /\ IsJob(v, h)'
                          /\ JobOf(frames[v][h])' = JobOf(frames[v][h])
    BY <1>1, <1>3, <1>4, <1>11, <1>12 DEF IsJob, JobOf
  <1>21. \A v \in Workers : \A h \in 1 .. depth'[v] :
           Owns(v, h)' =>
             \/ /\ h \in 1 .. depth[v] /\ Owns(v, h) /\ (v # w \/ h # D)
                /\ RightJob(frames[v][h])' = RightJob(frames[v][h])
             \/ v = w /\ h = D /\ RightJob(frames[v][h])' = j
    BY <1>1, <1>3, <1>4, <1>5, <1>11, <1>12 DEF Owns, OwnsJob, RightJob, mid
  <1>22. \A v \in Workers : \A h \in 1 .. depth[v] :
           Owns(v, h) =>
             /\ h \in 1 .. depth'[v] /\ Owns(v, h)'
             /\ RightJob(frames[v][h])' = RightJob(frames[v][h])
    BY <1>1, <1>11, <1>12 DEF Owns, OwnsJob, RightJob
  <1>23. D \in 1 .. depth'[w] /\ Owns(w, D)' /\ RightJob(frames[w][D])' = j
    BY <1>1, <1>3, <1>5, <1>11, <1>12 DEF Owns, OwnsJob, RightJob, mid
  <1>24. JobInv'
    <2>1. ASSUME NEW v \in Workers, NEW h \in 1 .. depth'[v], IsJob(v, h)'
          PROVE  /\ JobOf(frames[v][h])' \notin finished'
                 /\ frames'[v][h].at = "running" =>
                      \/ Done(frames[v][h].lo, frames[v][h].lo + 1)'
                      \/ /\ HasPiece(v)' /\ Inner(v)'.lo = frames'[v][h].lo
                         /\ Inner(v)'.lo < Inner(v)'.hi
      <3>1. /\ JobOf(frames[v][h]) \notin finished
            /\ frames[v][h].at = "running" =>
                      \/ Done(frames[v][h].lo, frames[v][h].lo + 1)
                      \/ /\ HasPiece(v) /\ Inner(v).lo = frames[v][h].lo
                         /\ Inner(v).lo < Inner(v).hi
        BY <1>19, <2>1 DEF JobInv, IInv
      <3>2. HasPiece(v) =>
              \/ HasPiece(v)' /\ Inner(v)'.lo = Inner(v).lo /\ Inner(v)'.lo < Inner(v)'.hi
              \/ ~(Inner(v).lo < Inner(v).hi)
        BY <1>1, <1>2, <1>4, <1>11, <1>15
      <3>3. QED
        BY <1>12, <1>19, <2>1, <3>1, <3>2 DEF Done
    <2>2. ASSUME NEW u \in Workers, NEW v \in Workers,
                 NEW h \in 1 .. depth'[u], NEW e \in 1 .. depth'[v],
                 IsJob(u, h)', IsJob(v, e)', JobOf(frames[u][h])' = JobOf(frames[v][e])'
          PROVE  u = v /\ h = e
      BY <1>19, <2>2 DEF JobInv, IInv
    <2>3. QED
      BY <2>1, <2>2 DEF JobInv
  <1>25. OwnerInv'
    <2>1. ASSUME NEW u \in Workers, NEW v \in Workers,
                 NEW h \in 1 .. depth'[u], NEW e \in 1 .. depth'[v],
                 Owns(u, h)', Owns(v, e)',
                 RightJob(frames[u][h])' = RightJob(frames[v][e])'
          PROVE  u = v /\ h = e
      BY <1>14, <1>21, <2>1 DEF OwnerInv, IInv
    <2>2. QED
      BY <2>1 DEF OwnerInv
  <1>26. AliveInv'
    <2>1. \A i : Alive(i) => Alive(i)'
      BY <1>22 DEF Alive
    <2>2. Alive(j)'
      BY <1>23 DEF Alive
    <2>3. ASSUME NEW d \in Deques, NEW k \in 1 .. Len(deques'[d])
          PROVE  Alive(deques[d][k])'
      <3>1. \/ k \in 1 .. Len(deques[d]) /\ deques'[d][k] = deques[d][k]
            \/ deques'[d][k] = j
        BY <1>9
      <3>2. k \in 1 .. Len(deques[d]) => Alive(deques[d][k])
        BY DEF AliveInv, IInv
      <3>3. QED
        BY <2>1, <2>2, <3>1, <3>2 DEF Alive
    <2>4. ASSUME NEW v \in Workers, NEW h \in 1 .. depth'[v], IsJob(v, h)'
          PROVE  Alive(JobOf(frames[v][h]))'
      <3>1. Alive(JobOf(frames[v][h])) /\ JobOf(frames[v][h])' = JobOf(frames[v][h])
        BY <1>19, <2>4 DEF AliveInv, IInv
      <3>2. QED
        BY <2>1, <3>1 DEF Alive
    <2>5. QED
      BY <2>3, <2>4 DEF AliveInv
  <1>27. OwnedInv'
    <2>1. \A i : Started(i) => Started(i)'
      BY <1>20 DEF Started
    <2>2. ASSUME NEW v \in Workers, NEW h \in 1 .. depth'[v], Owns(v, h)'
          PROVE  \/ \E k \in 1 .. Len(deques'[v]) : deques'[v][k] = RightJob(frames[v][h])'
                 \/ Started(RightJob(frames[v][h]))'
                 \/ RightJob(frames[v][h])' \in finished'
      <3>1. CASE v = w /\ h = D /\ RightJob(frames[v][h])' = j
        <4>1. Len(deques[w]) + 1 \in 1 .. Len(deques'[v]) /\ deques'[v][Len(deques[w]) + 1] = j
          BY <1>9, <3>1
        <4>2. QED
          BY <3>1, <4>1
      <3>2. CASE /\ h \in 1 .. depth[v] /\ Owns(v, h)
                 /\ RightJob(frames[v][h])' = RightJob(frames[v][h])
        <4>1. \/ \E k \in 1 .. Len(deques[v]) : deques[v][k] = RightJob(frames[v][h])
              \/ Started(RightJob(frames[v][h]))
              \/ RightJob(frames[v][h]) \in finished
          BY <3>2 DEF OwnedInv, IInv
        <4>2. \A k \in 1 .. Len(deques[v]) :
                k \in 1 .. Len(deques'[v]) /\ deques'[v][k] = deques[v][k]
          <5>1. v \in Deques
            BY NumThreadsAssumption DEF Deques, Workers
          <5>2. QED
            BY <1>9, <5>1
        <4>3. QED
          BY <1>12, <2>1, <3>2, <4>1, <4>2
      <3>3. QED
        BY <1>21, <2>2, <3>1, <3>2
    <2>3. QED
      BY <2>2 DEF OwnedInv
  <1>28. DequeInv'
    <2>1. \A v \in Workers : \A h \in 1 .. depth'[v] :
            AtFork(frames'[v][h]) =>
              \/ /\ h \in 1 .. depth[v] /\ AtFork(frames[v][h]) /\ (v # w \/ h < D)
                 /\ RightJob(frames[v][h])' = RightJob(frames[v][h])
                 /\ RightJob(frames[v][h]) # j
              \/ v = w /\ h = D /\ RightJob(frames[v][h])' = j
      <3>1. ASSUME NEW v \in Workers, NEW h \in 1 .. depth'[v], AtFork(frames'[v][h])
            PROVE  Owns(v, h)' /\ (h \in 1 .. depth[v] => AtFork(frames[v][h]) \/ (v = w /\ h = D))
        BY <1>1, <1>11, <3>1 DEF AtFork, Owns, OwnsJob
      <3>2. QED
        BY <1>1, <1>14, <1>21, <3>1
    <2>2. \A v \in Workers : \A h \in 1 .. depth[v] :
            AtFork(frames[v][h]) =>
              /\ h \in 1 .. depth'[v] /\ AtFork(frames'[v][h])
              /\ RightJob(frames[v][h])' = RightJob(frames[v][h])
      BY <1>1, <1>3, <1>11, <1>22 DEF AtFork, Owns, OwnsJob
    <2>3. \A v \in Workers : \A h \in 1 .. depth'[v] :
            Waiting(frames'[v][h]) => h \in 1 .. depth[v] /\ Waiting(frames[v][h])
      BY <1>1, <1>3, <1>4, <1>11 DEF Waiting
    <2>4. \A v \in Workers : v \in Deques
      BY NumThreadsAssumption DEF Workers, Deques
    <2>5. ASSUME NEW v \in Workers, NEW k \in 1 .. Len(deques'[v])
          PROVE  /\ \E h \in 1 .. depth'[v] :
                      AtFork(frames'[v][h]) /\ RightJob(frames[v][h])' = deques'[v][k]
                 /\ \A e, h \in 1 .. depth'[v] :
                      AtFork(frames'[v][e]) /\ RightJob(frames[v][e])' = deques'[v][k] /\ e < h =>
                        /\ ~Waiting(frames'[v][h])
                        /\ AtFork(frames'[v][h]) =>
                             \E l \in k + 1 .. Len(deques'[v]) :
                               deques'[v][l] = RightJob(frames[v][h])'
      <3>1. CASE k \in 1 .. Len(deques[v])
        <4>1. deques'[v][k] = deques[v][k] /\ deques[v][k] # j
          BY <1>9, <1>14, <2>4, <3>1
        <4>2. \E h \in 1 .. depth'[v] :
                AtFork(frames'[v][h]) /\ RightJob(frames[v][h])' = deques'[v][k]
          <5>1. PICK h \in 1 .. depth[v] :
                  AtFork(frames[v][h]) /\ RightJob(frames[v][h]) = deques[v][k]
            BY <3>1 DEF DequeInv, IInv
          <5>2. QED
            BY <2>2, <4>1, <5>1
        <4>3. ASSUME NEW e \in 1 .. depth'[v], NEW h \in 1 .. depth'[v],
                     AtFork(frames'[v][e]), RightJob(frames[v][e])' = deques'[v][k], e < h
              PROVE  /\ ~Waiting(frames'[v][h])
                     /\ AtFork(frames'[v][h]) =>
                             \E l \in k + 1 .. Len(deques'[v]) :
                               deques'[v][l] = RightJob(frames[v][h])'
          <5>1. /\ e \in 1 .. depth[v] /\ AtFork(frames[v][e])
                /\ RightJob(frames[v][e]) = deques[v][k]
            BY <2>1, <4>1, <4>3
          <5>2. h \in 1 .. depth[v] =>
                  /\ ~Waiting(frames[v][h])
                  /\ AtFork(frames[v][h]) =>
                       \E l \in k + 1 .. Len(deques[v]) :
                         deques[v][l] = RightJob(frames[v][h])
            BY <3>1, <4>3, <5>1 DEF DequeInv, IInv
          <5>3. ~Waiting(frames'[v][h])
            BY <2>3, <5>2
          <5>4. ASSUME AtFork(frames'[v][h])
                PROVE  \E l \in k + 1 .. Len(deques'[v]) :
                               deques'[v][l] = RightJob(frames[v][h])'
            <6>1. CASE v = w /\ h = D /\ RightJob(frames[v][h])' = j
              <7>1. Len(deques[w]) + 1 \in k + 1 .. Len(deques'[v])
                BY <1>9, <3>1, <6>1
              <7>2. QED
                BY <1>9, <6>1, <7>1
            <6>2. CASE /\ h \in 1 .. depth[v] /\ AtFork(frames[v][h])
                       /\ RightJob(frames[v][h])' = RightJob(frames[v][h])
              <7>1. PICK l \in k + 1 .. Len(deques[v]) : deques[v][l] = RightJob(frames[v][h])
                BY <5>2, <6>2
              <7>2. l \in k + 1 .. Len(deques'[v]) /\ deques'[v][l] = deques[v][l]
                BY SMTT(30), <1>9, <2>4, <3>1
              <7>3. QED
                BY <6>2, <7>1, <7>2
            <6>3. QED
              BY <2>1, <5>4, <6>1, <6>2
          <5>5. QED
            BY <5>3, <5>4
        <4>4. QED
          BY <4>2, <4>3
      <3>2. CASE k \notin 1 .. Len(deques[v])
        <4>1. v = w /\ k = Len(deques[w]) + 1 /\ deques'[v][k] = j
          BY <1>9, <2>4, <3>2
        <4>2. \A h \in 1 .. depth'[v] :
                AtFork(frames'[v][h]) /\ RightJob(frames[v][h])' = j => h = D
          BY <2>1, <4>1
        <4>3. \A h \in 1 .. depth'[v] : h > D =>
                ~Waiting(frames'[v][h]) /\ ~AtFork(frames'[v][h])
          BY <1>1, <1>4, <1>11, <4>1 DEF Waiting, AtFork
        <4>4. \E h \in 1 .. depth'[v] : AtFork(frames'[v][h]) /\ RightJob(frames[v][h])' = j
          BY <1>1, <1>3, <1>11, <1>23, <4>1 DEF AtFork
        <4>5. QED
          BY <4>1, <4>2, <4>3, <4>4
      <3>3. QED
        BY <3>1, <3>2
    <2>6. \A d \in Deques \ Workers : deques'[d] = <<>>
      BY <1>9 DEF DequeInv, IInv
    <2>7. QED
      BY <2>5, <2>6 DEF DequeInv
  <1>29. QED
    BY <1>10, <1>13, <1>17, <1>18, <1>24, <1>25, <1>26, <1>27, <1>28 DEF IInv

\* A deque without its youngest job, ...
LEMMA LastTaken ==
  ASSUME TypeInv, NEW d \in Deques, deques[d] # <<>>,
         deques' = [deques EXCEPT ![d] = Front(@)]
  PROVE  /\ deques' \in [Deques -> Seq(JobType)]
         /\ Len(deques[d]) \in 1 .. Len(deques[d]) /\ Len(deques[d]) \in Nat
         /\ Len(deques'[d]) = Len(deques[d]) - 1
         /\ \A k \in 1 .. Len(deques[d]) - 1 : deques'[d][k] = deques[d][k]
         /\ \A e \in Deques : e # d => deques'[e] = deques[e]
  <1> DEFINE s == deques[d]
             t == Front(s)
  <1>1. /\ deques \in [Deques -> Seq(JobType)] /\ s \in Seq(JobType) /\ deques'[d] = t
        /\ \A e \in Deques : e # d => deques'[e] = deques[e]
    BY DEF TypeInv
  <1>2. Len(s) \in Nat /\ Len(s) >= 1 /\ \A k \in 1 .. Len(s) : s[k] \in JobType
    BY <1>1, EmptySeq, LenProperties, ElementOfSeq
  <1>3. t = SubSeq(s, 1, Len(s) - 1)
    BY DEF Front
  <1> HIDE DEF s, t
  <1>4. \A i \in 1 .. Len(s) - 1 : s[i] \in JobType
    BY <1>2
  <1>5. 1 \in Int /\ Len(s) - 1 \in Int
    BY <1>2
  <1>6. /\ t \in Seq(JobType) /\ Len(t) = IF 1 <= Len(s) - 1 THEN Len(s) - 1 - 1 + 1 ELSE 0
        /\ \A i \in 1 .. Len(s) - 1 - 1 + 1 : t[i] = s[1 + i - 1]
    BY <1>3, <1>4, <1>5, SubSeqProperties
  <1>7. Len(t) = Len(s) - 1 /\ \A i \in 1 .. Len(s) - 1 : t[i] = s[i]
    <2>1. Len(t) = Len(s) - 1 /\ Len(s) - 1 - 1 + 1 = Len(s) - 1
      <3>1. PICK n \in Nat : n = Len(s) /\ n >= 1
        BY <1>2
      <3>2. Len(t) = IF 1 <= n - 1 THEN n - 1 - 1 + 1 ELSE 0
        BY <1>6, <3>1
      <3>3. QED
        BY <3>1, <3>2
    <2>2. \A i \in 1 .. Len(s) - 1 : 1 + i - 1 = i
      OBVIOUS
    <2>3. QED
      BY <1>6, <2>1, <2>2
  <1>8. deques' \in [Deques -> Seq(JobType)]
    BY <1>1, <1>6 DEF s
  <1>9. QED
    BY <1>1, <1>2, <1>7, <1>8 DEF s

\* ... and without its oldest.
LEMMA FirstTaken ==
  ASSUME TypeInv, NEW d \in Deques, deques[d] # <<>>,
         deques' = [deques EXCEPT ![d] = Tail(@)]
  PROVE  /\ deques' \in [Deques -> Seq(JobType)]
         /\ 1 \in 1 .. Len(deques[d]) /\ Len(deques[d]) \in Nat
         /\ Head(deques[d]) = deques[d][1]
         /\ Len(deques'[d]) = Len(deques[d]) - 1
         /\ \A k \in 1 .. Len(deques[d]) - 1 : deques'[d][k] = deques[d][k + 1]
         /\ \A e \in Deques : e # d => deques'[e] = deques[e]
  <1> DEFINE s == deques[d]
             t == Tail(s)
  <1>1. /\ deques \in [Deques -> Seq(JobType)] /\ s \in Seq(JobType) /\ deques'[d] = t
        /\ \A e \in Deques : e # d => deques'[e] = deques[e]
    BY DEF TypeInv
  <1>2. /\ t \in Seq(JobType) /\ Len(t) = Len(s) - 1
        /\ \A i \in 1 .. Len(t) : t[i] = s[i + 1]
    BY <1>1, HeadTailProperties
  <1>3. Len(s) \in Nat /\ Len(s) >= 1
    BY <1>1, EmptySeq, LenProperties
  <1> HIDE DEF t
  <1>4. deques' \in [Deques -> Seq(JobType)]
    BY <1>1, <1>2
  <1>5. QED
    BY <1>1, <1>2, <1>3, <1>4

\* pop_bottom gives a pardo its own right part back, and it calls right(): the
\* piece goes from the deque to the worker, and the job is nobody's any more.
LEMMA PopStep ==
  ASSUME IInv, NEW w \in Workers, PopBottom(w), deques[w] # <<>>
  PROVE  IInv'
  <1>0. PICK D \in Nat, f \in FrameType, j \in JobType, L \in Nat :
          D = depth[w] /\ f = Inner(w) /\ j = RightJob(f) /\ L = Len(deques[w])
    <2>1. Running(w) /\ Top(w).kind = "range" /\ Top(w).at = "pop"
      BY DEF PopBottom, AtRange, At
    <2>2. /\ Top(w) = Inner(w) /\ depth[w] \in 1 .. depth[w] /\ FrameOK(Inner(w))
          /\ Inner(w) = frames[w][depth[w]]
      BY <2>1, InnerFrame
    <2>3. Mid(Inner(w).lo, Inner(w).hi) \in Nat /\ Inner(w).hi \in Nat
      BY <2>1, <2>2, RangeMid DEF FrameOK
    <2>4. RightJob(Inner(w)) \in JobType
      BY <2>3 DEF RightJob, Job, JobType, IInv, TypeInv
    <2>5. deques[w] \in Seq(JobType)
      BY NumThreadsAssumption DEF Deques, Workers, IInv, TypeInv
    <2>6. QED
      BY <2>1, <2>4, <2>5, InnerFrame
  <1> DEFINE mid == Mid(f.lo, f.hi)
             g == [f EXCEPT !.at = "right"]
             c == CallRange(mid, f.hi)
  <1>1. /\ Running(w) /\ Top(w) = f /\ f \in FrameType /\ f.lo \in Nat /\ f.hi \in Nat
        /\ f.kind = "range" /\ f.at = "pop" /\ f.hi - f.lo > granularity
        /\ D \in Nat /\ D \in 1 .. D /\ f = frames[w][D] /\ FrameOK(f) /\ TypeInv
        /\ D = depth[w] /\ f = Inner(w)
    <2>1. Running(w) /\ Top(w).kind = "range" /\ Top(w).at = "pop"
      BY DEF PopBottom, AtRange, At
    <2>2. QED
      BY <1>0, <2>1, InnerFrame DEF IInv, FrameOK
  <1>2. /\ mid \in Nat /\ f.lo < mid /\ mid < f.hi /\ f.hi <= NumIterations /\ InParfor
        /\ NumIterations \in Nat
    BY <1>1, RangeMid, InsideParfor, IterationsAreNat DEF FrameOK
  <1>3. /\ g \in FrameType /\ g.kind = "range" /\ g.at = "right" /\ g.lo = f.lo /\ g.hi = f.hi
    BY <1>1 DEF FrameType
  <1>4. /\ c \in FrameType /\ c.kind = "range" /\ c.at = "enter" /\ c.lo = mid /\ c.hi = f.hi
    BY <1>1, <1>2 DEF CallRange, Frame, FrameType
  <1>5. /\ j \in JobType /\ j.loop = loop /\ j.lo = mid /\ j.hi = f.hi /\ j = Job(mid, f.hi)
    BY <1>0, <1>1, <1>2 DEF RightJob, Job
  <1>6. /\ Become(w, <<c, g>>) /\ deques' = [deques EXCEPT ![w] = Front(@)]
        /\ UNCHANGED <<finished, finishedFlag, loop, granularity, runs>>
    BY <1>0, <1>1 DEF PopBottom, Goto
  <1>7. /\ w \in Deques /\ L \in 1 .. Len(deques[w]) /\ j = deques[w][L] /\ L = Len(deques[w])
    <2>1. AtFork(Inner(w)) /\ w \in Deques
      BY <1>1, NumThreadsAssumption DEF AtFork, Deques, Workers
    <2>2. QED
      BY <1>0, <1>1, <2>1, LastIsOwn
  <1> HIDE DEF g, c, mid
  <1>8. stack' \in [Workers -> Seq(FrameType)] /\ Entered(w, c, g)
    BY <1>1, <1>3, <1>4, <1>6, Entering
  <1>9. /\ deques' \in [Deques -> Seq(JobType)] /\ Len(deques'[w]) = L - 1
        /\ \A d \in Deques : \A k \in 1 .. Len(deques'[d]) :
             /\ k \in 1 .. Len(deques[d]) /\ deques'[d][k] = deques[d][k]
             /\ d # w \/ k # L
        /\ \A k \in 1 .. L - 1 : deques'[w][k] = deques[w][k]
        /\ \A d \in Deques : d # w => deques'[d] = deques[d]
    <2>1. /\ deques' \in [Deques -> Seq(JobType)] /\ L \in Nat
          /\ Len(deques'[w]) = L - 1
          /\ \A k \in 1 .. L - 1 : deques'[w][k] = deques[w][k]
          /\ \A d \in Deques : d # w => deques'[d] = deques[d]
      BY <1>1, <1>6, <1>7, LastTaken
    <2>2. ASSUME NEW d \in Deques, NEW k \in 1 .. Len(deques'[d])
          PROVE  /\ k \in 1 .. Len(deques[d]) /\ deques'[d][k] = deques[d][k]
                 /\ d # w \/ k # L
      BY <1>7, <2>1
    <2>3. QED
      BY <2>1, <2>2
  <1>10. TypeInv'
    BY <1>1, <1>6, <1>8, <1>9 DEF TypeInv
  <1>11. /\ \A v \in Workers : v # w => depth'[v] = depth[v]
         /\ \A v \in Workers : depth[v] \in Nat
         /\ depth'[w] = D + 1
         /\ frames'[w][D] = g /\ frames'[w][D + 1] = c
         /\ \A v \in Workers : \A h \in 1 .. depth[v] :
              h \in 1 .. depth'[v] /\ (v # w \/ h # D => frames'[v][h] = frames[v][h])
         /\ \A v \in Workers : \A h \in 1 .. depth'[v] :
              h \in 1 .. depth[v] \/ (v = w /\ h = D + 1)
         /\ Inner(w)' = c
         /\ \A v \in Workers : v # w /\ depth[v] > 0 => Inner(v)' = Inner(v)
    BY <1>1, <1>3, <1>4, <1>8, CallFrames
  <1>12. /\ finished' = finished /\ loop' = loop /\ granularity' = granularity
         /\ runs' = runs /\ NumIterations' = NumIterations
         /\ \A lo, hi : Job(lo, hi)' = Job(lo, hi)
    BY <1>6 DEF NumIterations, Job
  <1>13. MainInv' /\ StackInv' /\ FrameInv' /\ FinishedInv' /\ NestInv'
    <2>1. Call(w, c, g)
      BY <1>1, <1>2, <1>3, <1>4 DEF Call, CalledLo, CalledHi, mid
    <2>2. FrameOK(g) /\ FrameOK(c)
      BY <1>1, <1>2, <1>3, <1>4 DEF FrameOK, mid
    <2>3. QED
      BY <1>1, <1>2, <1>3, <1>4, <1>6, <1>8, <2>1, <2>2, Calls
  <1>14. /\ ~Started(j) /\ j \notin finished /\ Todo(mid, f.hi)
         /\ \A v \in Workers : HasPiece(v) => Apart(Inner(v), j)
    BY <1>5, <1>7, SlotNotStarted
  <1>15. /\ ~HasPiece(w) /\ HasPiece(w)'
         /\ \A v \in Workers : v # w => /\ HasPiece(v)' <=> HasPiece(v)
                                        /\ HasPiece(v) => Inner(v)' = Inner(v)
    BY <1>1, <1>4, <1>11 DEF HasPiece, IsPiece
  <1>16. \A d \in Deques : \A k \in 1 .. Len(deques'[d]) :
           /\ deques'[d][k].lo \in Nat /\ deques'[d][k].hi \in Nat
           /\ deques'[d][k] # j
           /\ Apart(deques[d][k], j)' /\ Apart(j, deques[d][k])'
    <2>1. ASSUME NEW d \in Deques, NEW k \in 1 .. Len(deques'[d])
          PROVE  /\ deques'[d][k].lo \in Nat /\ deques'[d][k].hi \in Nat
                 /\ deques'[d][k] # j
                 /\ Apart(deques[d][k], j)' /\ Apart(j, deques[d][k])'
      <3>1. k \in 1 .. Len(deques[d]) /\ deques'[d][k] = deques[d][k] /\ (d # w \/ k # L)
        BY <1>9
      <3>2. deques[d][k].lo \in Nat /\ deques[d][k].hi \in Nat
        BY <3>1, SlotNotStarted
      <3>3. deques[d][k] # j
        BY <1>7, <3>1, SlotsDiffer
      <3>4. Apart(deques[d][k], j) /\ Apart(j, deques[d][k])
        BY <1>7, <3>1 DEF SlotInv, IInv
      <3>5. QED
        BY <3>1, <3>2, <3>3, <3>4 DEF Apart
    <2>2. QED
      BY <2>1
  <1>17. PieceInv'
    <2>1. ASSUME NEW v \in Workers, HasPiece(v)'
          PROVE  /\ Todo(Inner(v).lo, Inner(v).hi)'
                 /\ \A u \in Workers : u # v /\ HasPiece(u)' => Apart(Inner(v), Inner(u))'
      <3>1. CASE v = w
        <4>1. Todo(Inner(v).lo, Inner(v).hi)'
          BY <1>4, <1>11, <1>12, <1>14, <3>1 DEF Todo
        <4>2. ASSUME NEW u \in Workers, u # v, HasPiece(u)'
              PROVE  Apart(Inner(v), Inner(u))'
          BY <1>4, <1>5, <1>11, <1>14, <1>15, <3>1, <4>2 DEF Apart
        <4>3. QED
          BY <4>1, <4>2
      <3>2. CASE v # w
        <4>1. HasPiece(v) /\ Inner(v)' = Inner(v)
          BY <1>15, <2>1, <3>2
        <4>2. Todo(Inner(v).lo, Inner(v).hi)'
          BY <1>12, <4>1 DEF Todo, PieceInv, IInv
        <4>3. ASSUME NEW u \in Workers, u # v, HasPiece(u)'
              PROVE  Apart(Inner(v), Inner(u))'
          <5>1. CASE u = w
            BY <1>4, <1>5, <1>11, <1>14, <4>1, <5>1 DEF Apart
          <5>2. CASE u # w
            BY <1>15, <4>1, <4>3, <5>2 DEF PieceInv, IInv, Apart
          <5>3. QED
            BY <5>1, <5>2
        <4>4. QED
          BY <4>2, <4>3
      <3>3. QED
        BY <3>1, <3>2
    <2>2. QED
      BY <2>1 DEF PieceInv
  <1>18. SlotInv'
    <2>1. ASSUME NEW d \in Deques, NEW k \in 1 .. Len(deques'[d])
          PROVE  /\ deques'[d][k].loop = loop /\ deques'[d][k].lo < deques'[d][k].hi
                 /\ deques'[d][k].hi <= NumIterations
                 /\ Todo(deques[d][k].lo, deques[d][k].hi)'
                 /\ \A v \in Workers : HasPiece(v)' => Apart(Inner(v), deques[d][k])'
      <3>1. k \in 1 .. Len(deques[d]) /\ deques'[d][k] = deques[d][k]
        BY <1>9
      <3>2. /\ deques[d][k].loop = loop /\ deques[d][k].lo < deques[d][k].hi
            /\ deques[d][k].hi <= NumIterations
            /\ Todo(deques[d][k].lo, deques[d][k].hi)
            /\ \A v \in Workers : HasPiece(v) => Apart(Inner(v), deques[d][k])
        BY <3>1 DEF SlotInv, IInv
      <3>3. \A v \in Workers : HasPiece(v)' => Apart(Inner(v), deques[d][k])'
        BY SMTT(30), <1>4, <1>5, <1>11, <1>15, <1>16, <3>1, <3>2 DEF Apart
      <3>4. QED
        BY <1>12, <3>1, <3>2, <3>3 DEF Todo
    <2>2. ASSUME NEW d \in Deques, NEW e \in Deques,
                 NEW k \in 1 .. Len(deques'[d]), NEW l \in 1 .. Len(deques'[e]),
                 d # e \/ k # l
          PROVE  Apart(deques[d][k], deques[e][l])'
      BY <1>9, <2>2 DEF SlotInv, IInv, Apart
    <2>3. QED
      BY <1>12, <2>1, <2>2 DEF SlotInv
  <1>19. \A v \in Workers : \A h \in 1 .. depth'[v] :
           /\ IsJob(v, h)' => /\ h \in 1 .. depth[v] /\ IsJob(v, h)
                              /\ frames'[v][h] = frames[v][h]
                              /\ JobOf(frames[v][h])' = JobOf(frames[v][h])
    BY <1>1, <1>3, <1>4, <1>11, <1>12 DEF IsJob, JobOf
  <1>20. \A v \in Workers : \A h \in 1 .. depth[v] :
           IsJob(v, h) => /\ h \in 1 .. depth'[v] /\ IsJob(v, h)'
                          /\ JobOf(frames[v][h])' = JobOf(frames[v][h])
    BY <1>1, <1>3, <1>4, <1>11, <1>12 DEF IsJob, JobOf
  <1>21. \A v \in Workers : \A h \in 1 .. depth'[v] :
           Owns(v, h)' =>
             /\ h \in 1 .. depth[v] /\ Owns(v, h) /\ RightJob(frames[v][h]) # j
             /\ RightJob(frames[v][h])' = RightJob(frames[v][h])
             /\ v # w \/ h # D
    <2>1. ASSUME NEW v \in Workers, NEW h \in 1 .. depth'[v], Owns(v, h)'
          PROVE  /\ h \in 1 .. depth[v] /\ Owns(v, h) /\ (v # w \/ h # D)
                 /\ RightJob(frames[v][h])' = RightJob(frames[v][h])
      BY <1>1, <1>3, <1>4, <1>11, <1>12, <2>1 DEF Owns, OwnsJob, RightJob
    <2>2. D \in 1 .. depth[w] /\ Owns(w, D) /\ RightJob(frames[w][D]) = j
      BY <1>0, <1>1 DEF Owns, OwnsJob
    <2>3. QED
      BY <2>1, <2>2 DEF OwnerInv, IInv
  <1>22. \A v \in Workers : \A h \in 1 .. depth[v] :
           Owns(v, h) =>
             \/ RightJob(frames[v][h]) = j
             \/ /\ h \in 1 .. depth'[v] /\ Owns(v, h)'
                /\ RightJob(frames[v][h])' = RightJob(frames[v][h])
    BY <1>0, <1>1, <1>11, <1>12 DEF Owns, OwnsJob, RightJob
  <1>24. JobInv'
    <2>1. ASSUME NEW v \in Workers, NEW h \in 1 .. depth'[v], IsJob(v, h)'
          PROVE  /\ JobOf(frames[v][h])' \notin finished'
                 /\ frames'[v][h].at = "running" =>
                      \/ Done(frames[v][h].lo, frames[v][h].lo + 1)'
                      \/ /\ HasPiece(v)' /\ Inner(v)'.lo = frames'[v][h].lo
                         /\ Inner(v)'.lo < Inner(v)'.hi
      <3>1. /\ JobOf(frames[v][h]) \notin finished
            /\ frames[v][h].at = "running" =>
                      \/ Done(frames[v][h].lo, frames[v][h].lo + 1)
                      \/ /\ HasPiece(v) /\ Inner(v).lo = frames[v][h].lo
                         /\ Inner(v).lo < Inner(v).hi
        BY <1>19, <2>1 DEF JobInv, IInv
      <3>2. HasPiece(v) => HasPiece(v)' /\ Inner(v)' = Inner(v)
        BY <1>15
      <3>3. QED
        BY <1>12, <1>19, <2>1, <3>1, <3>2 DEF Done
    <2>2. ASSUME NEW u \in Workers, NEW v \in Workers,
                 NEW h \in 1 .. depth'[u], NEW e \in 1 .. depth'[v],
                 IsJob(u, h)', IsJob(v, e)', JobOf(frames[u][h])' = JobOf(frames[v][e])'
          PROVE  u = v /\ h = e
      BY <1>19, <2>2 DEF JobInv, IInv
    <2>3. QED
      BY <2>1, <2>2 DEF JobInv
  <1>25. OwnerInv'
    <2>1. ASSUME NEW u \in Workers, NEW v \in Workers,
                 NEW h \in 1 .. depth'[u], NEW e \in 1 .. depth'[v],
                 Owns(u, h)', Owns(v, e)',
                 RightJob(frames[u][h])' = RightJob(frames[v][e])'
          PROVE  u = v /\ h = e
      BY <1>21, <2>1 DEF OwnerInv, IInv
    <2>2. QED
      BY <2>1 DEF OwnerInv
  <1>26. AliveInv'
    <2>1. \A i : i # j /\ Alive(i) => Alive(i)'
      BY <1>22 DEF Alive
    <2>2. ASSUME NEW d \in Deques, NEW k \in 1 .. Len(deques'[d])
          PROVE  Alive(deques[d][k])'
      <3>1. k \in 1 .. Len(deques[d]) /\ deques'[d][k] = deques[d][k] /\ deques[d][k] # j
        BY <1>9, <1>16
      <3>2. Alive(deques[d][k])
        BY <3>1 DEF AliveInv, IInv
      <3>3. QED
        BY <2>1, <3>1, <3>2 DEF Alive
    <2>3. ASSUME NEW v \in Workers, NEW h \in 1 .. depth'[v], IsJob(v, h)'
          PROVE  Alive(JobOf(frames[v][h]))'
      <3>1. /\ Alive(JobOf(frames[v][h])) /\ JobOf(frames[v][h])' = JobOf(frames[v][h])
            /\ h \in 1 .. depth[v] /\ IsJob(v, h)
        BY <1>19, <2>3 DEF AliveInv, IInv
      <3>2. JobOf(frames[v][h]) # j
        BY <1>14, <3>1 DEF Started
      <3>3. QED
        BY <2>1, <3>1, <3>2 DEF Alive
    <2>4. QED
      BY <2>2, <2>3 DEF AliveInv
  <1>27. OwnedInv'
    <2>1. \A i : Started(i) => Started(i)'
      BY <1>20 DEF Started
    <2>2. ASSUME NEW v \in Workers, NEW h \in 1 .. depth'[v], Owns(v, h)'
          PROVE  \/ \E k \in 1 .. Len(deques'[v]) : deques'[v][k] = RightJob(frames[v][h])'
                 \/ Started(RightJob(frames[v][h]))'
                 \/ RightJob(frames[v][h])' \in finished'
      <3>1. /\ h \in 1 .. depth[v] /\ Owns(v, h) /\ RightJob(frames[v][h]) # j
            /\ RightJob(frames[v][h])' = RightJob(frames[v][h])
        BY <1>21, <2>2
      <3>2. \/ \E k \in 1 .. Len(deques[v]) : deques[v][k] = RightJob(frames[v][h])
            \/ Started(RightJob(frames[v][h]))
            \/ RightJob(frames[v][h]) \in finished
        BY <3>1 DEF OwnedInv, IInv
      <3>3. \A k \in 1 .. Len(deques[v]) :
              deques[v][k] # j => k \in 1 .. Len(deques'[v]) /\ deques'[v][k] = deques[v][k]
        <4>1. v \in Deques
          BY NumThreadsAssumption DEF Deques, Workers
        <4>2. QED
          BY <1>7, <1>9, <4>1
      <3>4. QED
        BY <1>12, <2>1, <3>1, <3>2, <3>3
    <2>3. QED
      BY <2>2 DEF OwnedInv
  <1>28. DequeInv'
    <2>1. \A v \in Workers : \A h \in 1 .. depth'[v] :
            AtFork(frames'[v][h]) =>
              /\ h \in 1 .. depth[v] /\ AtFork(frames[v][h]) /\ RightJob(frames[v][h]) # j
              /\ RightJob(frames[v][h])' = RightJob(frames[v][h])
      <3>1. ASSUME NEW v \in Workers, NEW h \in 1 .. depth'[v], AtFork(frames'[v][h])
            PROVE  Owns(v, h)' /\ (h \in 1 .. depth[v] => AtFork(frames[v][h]) \/ (v = w /\ h = D))
        BY <1>1, <1>11, <3>1 DEF AtFork, Owns, OwnsJob
      <3>2. QED
        BY <1>21, <3>1
    <2>2. \A v \in Workers : \A h \in 1 .. depth[v] :
            AtFork(frames[v][h]) /\ RightJob(frames[v][h]) # j =>
              /\ h \in 1 .. depth'[v] /\ AtFork(frames'[v][h])
              /\ RightJob(frames[v][h])' = RightJob(frames[v][h])
      <3>1. ASSUME NEW v \in Workers, NEW h \in 1 .. depth[v],
                   AtFork(frames[v][h]), RightJob(frames[v][h]) # j
            PROVE  /\ h \in 1 .. depth'[v] /\ AtFork(frames'[v][h])
                   /\ RightJob(frames[v][h])' = RightJob(frames[v][h])
        <4>1. v # w \/ h # D
          BY <1>0, <1>1, <3>1
        <4>2. QED
          BY <1>11, <1>22, <3>1, <4>1 DEF AtFork, Owns, OwnsJob
      <3>2. QED
        BY <3>1
    <2>3. \A v \in Workers : \A h \in 1 .. depth'[v] :
            Waiting(frames'[v][h]) => h \in 1 .. depth[v] /\ Waiting(frames[v][h])
      BY <1>1, <1>3, <1>4, <1>11 DEF Waiting
    <2>4. ASSUME NEW v \in Workers, NEW k \in 1 .. Len(deques'[v])
          PROVE  /\ \E h \in 1 .. depth'[v] :
                      AtFork(frames'[v][h]) /\ RightJob(frames[v][h])' = deques'[v][k]
                 /\ \A e, h \in 1 .. depth'[v] :
                      AtFork(frames'[v][e]) /\ RightJob(frames[v][e])' = deques'[v][k] /\ e < h =>
                        /\ ~Waiting(frames'[v][h])
                        /\ AtFork(frames'[v][h]) =>
                             \E l \in k + 1 .. Len(deques'[v]) :
                               deques'[v][l] = RightJob(frames[v][h])'
      <3>1. v \in Deques
        BY NumThreadsAssumption DEF Workers, Deques
      <3>2. k \in 1 .. Len(deques[v]) /\ deques'[v][k] = deques[v][k] /\ deques[v][k] # j
        BY <1>9, <1>16, <3>1
      <3>3. \E h \in 1 .. depth'[v] :
              AtFork(frames'[v][h]) /\ RightJob(frames[v][h])' = deques'[v][k]
        <4>1. PICK h \in 1 .. depth[v] :
                AtFork(frames[v][h]) /\ RightJob(frames[v][h]) = deques[v][k]
          BY <3>2 DEF DequeInv, IInv
        <4>2. QED
          BY <2>2, <3>2, <4>1
      <3>4. ASSUME NEW e \in 1 .. depth'[v], NEW h \in 1 .. depth'[v],
                   AtFork(frames'[v][e]), RightJob(frames[v][e])' = deques'[v][k], e < h
            PROVE  /\ ~Waiting(frames'[v][h])
                   /\ AtFork(frames'[v][h]) =>
                           \E l \in k + 1 .. Len(deques'[v]) :
                             deques'[v][l] = RightJob(frames[v][h])'
        <4>1. /\ e \in 1 .. depth[v] /\ AtFork(frames[v][e])
              /\ RightJob(frames[v][e]) = deques[v][k]
          BY <2>1, <3>2, <3>4
        <4>2. h \in 1 .. depth[v] =>
                /\ ~Waiting(frames[v][h])
                /\ AtFork(frames[v][h]) =>
                     \E l \in k + 1 .. Len(deques[v]) :
                       deques[v][l] = RightJob(frames[v][h])
          BY <3>2, <3>4, <4>1 DEF DequeInv, IInv
        <4>3. ~Waiting(frames'[v][h])
          BY <2>3, <4>2
        <4>4. ASSUME AtFork(frames'[v][h])
              PROVE  \E l \in k + 1 .. Len(deques'[v]) :
                             deques'[v][l] = RightJob(frames[v][h])'
          <5>1. /\ h \in 1 .. depth[v] /\ AtFork(frames[v][h]) /\ RightJob(frames[v][h]) # j
                /\ RightJob(frames[v][h])' = RightJob(frames[v][h])
            BY <2>1, <4>4
          <5>2. PICK l \in k + 1 .. Len(deques[v]) : deques[v][l] = RightJob(frames[v][h])
            BY <4>2, <5>1
          <5>3. l \in k + 1 .. Len(deques'[v]) /\ deques'[v][l] = deques[v][l]
            <6>1. l \in 1 .. Len(deques[v]) /\ (v = w => l # L)
              BY <1>7, <3>2, <5>1, <5>2
            <6>2. CASE v = w
              BY <1>7, <1>9, <5>2, <6>1, <6>2
            <6>3. CASE v # w
              BY <1>9, <3>1, <6>3
            <6>4. QED
              BY <6>2, <6>3
          <5>4. QED
            BY <5>1, <5>2, <5>3
        <4>5. QED
          BY <4>3, <4>4
      <3>5. QED
        BY <3>3, <3>4
    <2>5. \A d \in Deques \ Workers : deques'[d] = <<>>
      BY <1>9 DEF DequeInv, IInv
    <2>6. QED
      BY <2>4, <2>5 DEF DequeInv
  <1>29. QED
    BY <1>10, <1>13, <1>17, <1>18, <1>24, <1>25, <1>26, <1>27, <1>28 DEF IInv

\* A thief takes the oldest job of a deque: its owner is the outermost frame
\* that still has a job there.
LEMMA StealStep ==
  ASSUME IInv, NEW w \in Workers, NEW d \in Deques, Steal(w, d)
  PROVE  IInv'
  <1>0. PICK D \in Nat, f \in FrameType, j \in JobType :
          D = depth[w] /\ f = Inner(w) /\ j = deques[d][1]
    <2>1. Running(w) /\ deques[d] # <<>>
      BY DEF Steal, InLoop, At
    <2>2. deques[d] \in Seq(JobType)
      BY DEF IInv, TypeInv
    <2>3. 1 \in 1 .. Len(deques[d])
      BY <2>1, <2>2, EmptySeq
    <2>4. deques[d][1] \in JobType
      BY <2>2, <2>3, ElementOfSeq
    <2>5. QED
      BY <2>1, <2>4, InnerFrame
  <1> DEFINE g == [f EXCEPT !.at = "check"]
             c == RunJob(j)
  <1>1. /\ Running(w) /\ Top(w) = f /\ f \in FrameType /\ f.lo \in Nat /\ f.hi \in Nat
        /\ f.kind \in {"range", "worker"} /\ f.at = "steal"
        /\ D \in Nat /\ D \in 1 .. D /\ f = frames[w][D] /\ FrameOK(f) /\ TypeInv
        /\ D = depth[w] /\ f = Inner(w)
    <2>1. /\ Running(w) /\ Top(w).kind \in {"range", "worker"} /\ Top(w).at = "steal"
      BY DEF Steal, InLoop, At
    <2>2. QED
      BY <1>0, <2>1, InnerFrame DEF IInv
  <1>2. /\ deques[w] = <<>> /\ w \in Deques /\ d # w /\ deques[d] # <<>>
        /\ InParfor /\ NumIterations \in Nat
    <2>1. deques[w] = <<>>
      BY <1>1, WaitingDequeIsEmpty DEF Waiting
    <2>2. deques[d] # <<>> /\ w \in Deques
      BY NumThreadsAssumption DEF Steal, Deques, Workers
    <2>3. InParfor
      BY <2>2 DEF IInv, MainInv, Quiet
    <2>4. QED
      BY <2>1, <2>2, <2>3, IterationsAreNat
  <1>3. /\ g \in FrameType /\ g.kind = f.kind /\ g.at = "check" /\ g.lo = f.lo /\ g.hi = f.hi
    BY <1>1 DEF FrameType
  <1>4. /\ c \in FrameType /\ c.kind = "job" /\ c.at = "run" /\ c.lo = j.lo /\ c.hi = j.hi
        /\ j.lo \in Nat /\ j.hi \in Nat
    BY <1>0 DEF RunJob, Frame, FrameType, JobType
  <1>5. /\ deques' = [deques EXCEPT ![d] = Tail(@)]
        /\ UNCHANGED <<finished, finishedFlag, loop, granularity, runs>>
    BY DEF Steal
  <1>6. /\ deques' \in [Deques -> Seq(JobType)]
        /\ 1 \in 1 .. Len(deques[d]) /\ Len(deques[d]) \in Nat
        /\ j = Head(deques[d]) /\ j = deques[d][1]
        /\ Len(deques'[d]) = Len(deques[d]) - 1
        /\ \A k \in 1 .. Len(deques[d]) - 1 : deques'[d][k] = deques[d][k + 1]
        /\ \A e \in Deques : e # d => deques'[e] = deques[e]
    BY <1>0, <1>1, <1>2, <1>5, FirstTaken
  <1>7. Become(w, <<c, g>>)
    BY <1>1, <1>6 DEF Steal, Goto
  <1> HIDE DEF g, c
  <1>8. stack' \in [Workers -> Seq(FrameType)] /\ Entered(w, c, g)
    BY <1>1, <1>3, <1>4, <1>7, Entering
  <1>9. /\ \A e \in Deques : \A k \in 1 .. Len(deques'[e]) :
             \E l \in 1 .. Len(deques[e]) :
               deques'[e][k] = deques[e][l] /\ l = (IF e = d THEN k + 1 ELSE k)
        /\ \A e \in Deques : \A l \in 1 .. Len(deques[e]) : e # d \/ l # 1 =>
             \E k \in 1 .. Len(deques'[e]) :
               deques'[e][k] = deques[e][l] /\ l = (IF e = d THEN k + 1 ELSE k)
    <2>1. ASSUME NEW e \in Deques, NEW k \in 1 .. Len(deques'[e])
          PROVE  \E l \in 1 .. Len(deques[e]) :
                   deques'[e][k] = deques[e][l] /\ l = (IF e = d THEN k + 1 ELSE k)
      <3>1. CASE e = d
        <4>1. k + 1 \in 1 .. Len(deques[e]) /\ deques'[e][k] = deques[e][k + 1]
          BY <1>6, <3>1
        <4>2. QED
          BY <3>1, <4>1
      <3>2. CASE e # d
        BY <1>6, <3>2
      <3>3. QED
        BY <3>1, <3>2
    <2>2. ASSUME NEW e \in Deques, NEW l \in 1 .. Len(deques[e]), e # d \/ l # 1
          PROVE  \E k \in 1 .. Len(deques'[e]) :
                   deques'[e][k] = deques[e][l] /\ l = (IF e = d THEN k + 1 ELSE k)
      <3>1. CASE e = d
        <4>1. l - 1 \in 1 .. Len(deques'[e]) /\ deques'[e][l - 1] = deques[e][l - 1 + 1]
              /\ l - 1 + 1 = l
          BY <1>6, <2>2, <3>1
        <4>2. QED
          BY <3>1, <4>1
      <3>2. CASE e # d
        BY <1>6, <3>2
      <3>3. QED
        BY <3>1, <3>2
    <2>3. QED
      BY <2>1, <2>2
  <1>10. TypeInv'
    BY <1>1, <1>5, <1>8, <1>6 DEF TypeInv
  <1>11. /\ \A v \in Workers : v # w => depth'[v] = depth[v]
         /\ \A v \in Workers : depth[v] \in Nat
         /\ depth'[w] = D + 1
         /\ frames'[w][D] = g /\ frames'[w][D + 1] = c
         /\ \A v \in Workers : \A h \in 1 .. depth[v] :
              h \in 1 .. depth'[v] /\ (v # w \/ h # D => frames'[v][h] = frames[v][h])
         /\ \A v \in Workers : \A h \in 1 .. depth'[v] :
              h \in 1 .. depth[v] \/ (v = w /\ h = D + 1)
         /\ Inner(w)' = c
         /\ \A v \in Workers : v # w /\ depth[v] > 0 => Inner(v)' = Inner(v)
    BY <1>1, <1>3, <1>4, <1>8, CallFrames
  <1>12. /\ finished' = finished /\ loop' = loop /\ granularity' = granularity
         /\ runs' = runs /\ NumIterations' = NumIterations
         /\ \A lo, hi : Job(lo, hi)' = Job(lo, hi)
    BY <1>5 DEF NumIterations, Job
  <1>13. /\ j = Job(j.lo, j.hi) /\ j.lo < j.hi /\ j.hi <= NumIterations /\ Todo(j.lo, j.hi)
         /\ ~Started(j) /\ j \notin finished /\ Alive(j)
         /\ \A v \in Workers : HasPiece(v) => Apart(Inner(v), j)
    BY <1>6, SlotNotStarted
  <1>14. MainInv' /\ StackInv' /\ FrameInv' /\ FinishedInv' /\ NestInv'
    <2>1. Call(w, c, g)
      BY <1>1, <1>2, <1>3, <1>4 DEF Call
    <2>2. FrameOK(g) /\ FrameOK(c)
      BY <1>1, <1>2, <1>3, <1>4, <1>13 DEF FrameOK
    <2>3. QED
      BY <1>1, <1>2, <1>3, <1>4, <1>5, <1>8, <2>1, <2>2, Calls
  <1>15. /\ ~HasPiece(w) /\ HasPiece(w)'
         /\ \A v \in Workers : v # w => /\ HasPiece(v)' <=> HasPiece(v)
                                        /\ HasPiece(v) => Inner(v)' = Inner(v)
    BY <1>1, <1>4, <1>11 DEF HasPiece, IsPiece
  <1>16. \A e \in Deques : \A k \in 1 .. Len(deques'[e]) :
           Apart(deques[e][k], j)' /\ Apart(j, deques[e][k])'
    <2>1. ASSUME NEW e \in Deques, NEW k \in 1 .. Len(deques'[e])
          PROVE  Apart(deques[e][k], j)' /\ Apart(j, deques[e][k])'
      <3>1. PICK l \in 1 .. Len(deques[e]) :
              deques'[e][k] = deques[e][l] /\ (e # d \/ l # 1)
        BY <1>9
      <3>2. Apart(deques[e][l], j) /\ Apart(j, deques[e][l])
        BY <1>6, <3>1 DEF SlotInv, IInv
      <3>3. QED
        BY <3>1, <3>2 DEF Apart
    <2>2. QED
      BY <2>1
  <1>17. PieceInv'
    <2>1. ASSUME NEW v \in Workers, HasPiece(v)'
          PROVE  /\ Todo(Inner(v).lo, Inner(v).hi)'
                 /\ \A u \in Workers : u # v /\ HasPiece(u)' => Apart(Inner(v), Inner(u))'
      <3>1. CASE v = w
        <4>1. Todo(Inner(v).lo, Inner(v).hi)'
          BY <1>4, <1>11, <1>12, <1>13, <3>1 DEF Todo
        <4>2. ASSUME NEW u \in Workers, u # v, HasPiece(u)'
              PROVE  Apart(Inner(v), Inner(u))'
          BY <1>4, <1>11, <1>13, <1>15, <3>1, <4>2 DEF Apart
        <4>3. QED
          BY <4>1, <4>2
      <3>2. CASE v # w
        <4>1. HasPiece(v) /\ Inner(v)' = Inner(v)
          BY <1>15, <2>1, <3>2
        <4>2. Todo(Inner(v).lo, Inner(v).hi)'
          BY <1>12, <4>1 DEF Todo, PieceInv, IInv
        <4>3. ASSUME NEW u \in Workers, u # v, HasPiece(u)'
              PROVE  Apart(Inner(v), Inner(u))'
          <5>1. CASE u = w
            BY <1>4, <1>11, <1>13, <4>1, <5>1 DEF Apart
          <5>2. CASE u # w
            BY <1>15, <4>1, <4>3, <5>2 DEF PieceInv, IInv, Apart
          <5>3. QED
            BY <5>1, <5>2
        <4>4. QED
          BY <4>2, <4>3
      <3>3. QED
        BY <3>1, <3>2
    <2>2. QED
      BY <2>1 DEF PieceInv
  <1>18. SlotInv'
    <2>1. ASSUME NEW e \in Deques, NEW k \in 1 .. Len(deques'[e])
          PROVE  /\ deques'[e][k].loop = loop /\ deques'[e][k].lo < deques'[e][k].hi
                 /\ deques'[e][k].hi <= NumIterations
                 /\ Todo(deques[e][k].lo, deques[e][k].hi)'
                 /\ \A v \in Workers : HasPiece(v)' => Apart(Inner(v), deques[e][k])'
      <3>1. PICK l \in 1 .. Len(deques[e]) : deques'[e][k] = deques[e][l]
        BY <1>9
      <3>2. /\ deques[e][l].loop = loop /\ deques[e][l].lo < deques[e][l].hi
            /\ deques[e][l].hi <= NumIterations
            /\ Todo(deques[e][l].lo, deques[e][l].hi)
            /\ \A v \in Workers : HasPiece(v) => Apart(Inner(v), deques[e][l])
        BY DEF SlotInv, IInv
      <3>3. \A v \in Workers : HasPiece(v)' => Apart(Inner(v), deques[e][k])'
        BY SMTT(30), <1>4, <1>11, <1>15, <1>16, <3>1, <3>2 DEF Apart
      <3>4. QED
        BY <1>12, <3>1, <3>2, <3>3 DEF Todo
    <2>2. ASSUME NEW a \in Deques, NEW b \in Deques,
                 NEW k \in 1 .. Len(deques'[a]), NEW l \in 1 .. Len(deques'[b]),
                 a # b \/ k # l
          PROVE  Apart(deques[a][k], deques[b][l])'
      <3>1. PICK m \in 1 .. Len(deques[a]) :
              deques'[a][k] = deques[a][m] /\ m = (IF a = d THEN k + 1 ELSE k)
        BY <1>9
      <3>2. PICK n \in 1 .. Len(deques[b]) :
              deques'[b][l] = deques[b][n] /\ n = (IF b = d THEN l + 1 ELSE l)
        BY <1>9
      <3>3. a # b \/ m # n
        BY <2>2, <3>1, <3>2
      <3>4. Apart(deques[a][m], deques[b][n])
        BY <3>3 DEF SlotInv, IInv
      <3>5. QED
        BY <3>1, <3>2, <3>4 DEF Apart
    <2>3. QED
      BY <1>12, <2>1, <2>2 DEF SlotInv
  <1>19. \A v \in Workers : \A h \in 1 .. depth'[v] :
           IsJob(v, h)' =>
             \/ /\ h \in 1 .. depth[v] /\ IsJob(v, h)
                /\ frames'[v][h] = frames[v][h]
                /\ JobOf(frames[v][h])' = JobOf(frames[v][h])
             \/ v = w /\ h = D + 1 /\ JobOf(frames[v][h])' = j /\ frames'[v][h].at = "run"
    BY <1>1, <1>3, <1>4, <1>11, <1>12, <1>13 DEF IsJob, JobOf
  <1>20. /\ \A v \in Workers : \A h \in 1 .. depth[v] :
              IsJob(v, h) => /\ h \in 1 .. depth'[v] /\ IsJob(v, h)'
                             /\ JobOf(frames[v][h])' = JobOf(frames[v][h])
         /\ Started(j)'
    <2>1. \A v \in Workers : \A h \in 1 .. depth[v] :
              IsJob(v, h) => /\ h \in 1 .. depth'[v] /\ IsJob(v, h)'
                             /\ JobOf(frames[v][h])' = JobOf(frames[v][h])
      BY <1>1, <1>3, <1>4, <1>11, <1>12 DEF IsJob, JobOf
    <2>2. \E h \in 1 .. depth'[w] : h = D + 1
      BY <1>1, <1>11
    <2>3. Started(j)'
      BY <1>4, <1>11, <1>12, <1>13, <2>2 DEF Started, IsJob, JobOf
    <2>4. QED
      BY <2>1, <2>3
  <1>21. \A v \in Workers : \A h \in 1 .. depth'[v] :
           Owns(v, h)' =>
             /\ h \in 1 .. depth[v] /\ Owns(v, h)
             /\ RightJob(frames[v][h])' = RightJob(frames[v][h])
    BY <1>1, <1>3, <1>4, <1>11, <1>12 DEF Owns, OwnsJob, RightJob
  <1>22. \A v \in Workers : \A h \in 1 .. depth[v] :
           Owns(v, h) =>
             /\ h \in 1 .. depth'[v] /\ Owns(v, h)'
             /\ RightJob(frames[v][h])' = RightJob(frames[v][h])
    BY <1>1, <1>3, <1>11, <1>12 DEF Owns, OwnsJob, RightJob
  <1>24. JobInv'
    <2>1. ASSUME NEW v \in Workers, NEW h \in 1 .. depth'[v], IsJob(v, h)'
          PROVE  /\ JobOf(frames[v][h])' \notin finished'
                 /\ frames'[v][h].at = "running" =>
                      \/ Done(frames[v][h].lo, frames[v][h].lo + 1)'
                      \/ /\ HasPiece(v)' /\ Inner(v)'.lo = frames'[v][h].lo
                         /\ Inner(v)'.lo < Inner(v)'.hi
      <3>1. CASE JobOf(frames[v][h])' = j /\ frames'[v][h].at = "run"
        BY <1>12, <1>13, <3>1
      <3>2. CASE /\ h \in 1 .. depth[v] /\ IsJob(v, h)
                 /\ frames'[v][h] = frames[v][h]
                 /\ JobOf(frames[v][h])' = JobOf(frames[v][h])
        <4>1. /\ JobOf(frames[v][h]) \notin finished
              /\ frames[v][h].at = "running" =>
                      \/ Done(frames[v][h].lo, frames[v][h].lo + 1)
                      \/ /\ HasPiece(v) /\ Inner(v).lo = frames[v][h].lo
                         /\ Inner(v).lo < Inner(v).hi
          BY <3>2 DEF JobInv, IInv
        <4>2. HasPiece(v) => HasPiece(v)' /\ Inner(v)' = Inner(v)
          BY <1>15
        <4>3. QED
          BY <1>12, <3>2, <4>1, <4>2 DEF Done
      <3>3. QED
        BY <1>19, <2>1, <3>1, <3>2
    <2>2. ASSUME NEW u \in Workers, NEW v \in Workers,
                 NEW h \in 1 .. depth'[u], NEW e \in 1 .. depth'[v],
                 IsJob(u, h)', IsJob(v, e)', JobOf(frames[u][h])' = JobOf(frames[v][e])'
          PROVE  u = v /\ h = e
      <3>1. \A x \in Workers : \A i \in 1 .. depth[x] : IsJob(x, i) => JobOf(frames[x][i]) # j
        BY <1>13 DEF Started
      <3>2. QED
        BY <1>19, <2>2, <3>1 DEF JobInv, IInv
    <2>3. QED
      BY <2>1, <2>2 DEF JobInv
  <1>25. OwnerInv'
    <2>1. ASSUME NEW u \in Workers, NEW v \in Workers,
                 NEW h \in 1 .. depth'[u], NEW e \in 1 .. depth'[v],
                 Owns(u, h)', Owns(v, e)',
                 RightJob(frames[u][h])' = RightJob(frames[v][e])'
          PROVE  u = v /\ h = e
      BY <1>21, <2>1 DEF OwnerInv, IInv
    <2>2. QED
      BY <2>1 DEF OwnerInv
  <1>26. AliveInv'
    <2>1. \A i : Alive(i) => Alive(i)'
      BY <1>22 DEF Alive
    <2>2. ASSUME NEW e \in Deques, NEW k \in 1 .. Len(deques'[e])
          PROVE  Alive(deques[e][k])'
      <3>1. PICK l \in 1 .. Len(deques[e]) : deques'[e][k] = deques[e][l]
        BY <1>9
      <3>2. Alive(deques[e][l])
        BY DEF AliveInv, IInv
      <3>3. QED
        BY <2>1, <3>1, <3>2 DEF Alive
    <2>3. ASSUME NEW v \in Workers, NEW h \in 1 .. depth'[v], IsJob(v, h)'
          PROVE  Alive(JobOf(frames[v][h]))'
      <3>1. PICK i : Alive(i) /\ JobOf(frames[v][h])' = i
        BY <1>13, <1>19, <2>3 DEF AliveInv, IInv
      <3>2. QED
        BY <2>1, <3>1 DEF Alive
    <2>4. QED
      BY <2>2, <2>3 DEF AliveInv
  <1>27. OwnedInv'
    <2>1. \A i : Started(i) => Started(i)'
      BY <1>20 DEF Started
    <2>2. ASSUME NEW v \in Workers, NEW h \in 1 .. depth'[v], Owns(v, h)'
          PROVE  \/ \E k \in 1 .. Len(deques'[v]) : deques'[v][k] = RightJob(frames[v][h])'
                 \/ Started(RightJob(frames[v][h]))'
                 \/ RightJob(frames[v][h])' \in finished'
      <3>1. PICK i : /\ i = RightJob(frames[v][h]) /\ RightJob(frames[v][h])' = i
                     /\ h \in 1 .. depth[v] /\ Owns(v, h)
        BY <1>21, <2>2
      <3>2. \/ \E k \in 1 .. Len(deques[v]) : deques[v][k] = i
            \/ Started(i)
            \/ i \in finished
        BY <3>1 DEF OwnedInv, IInv
      <3>3. ASSUME NEW l \in 1 .. Len(deques[v]), deques[v][l] = i
            PROVE  i = j \/ \E k \in 1 .. Len(deques'[v]) : deques'[v][k] = i
        <4>1. v \in Deques
          BY NumThreadsAssumption DEF Deques, Workers
        <4>2. QED
          BY <1>6, <1>9, <3>3, <4>1
      <3>4. \/ \E k \in 1 .. Len(deques'[v]) : deques'[v][k] = i
            \/ Started(i)'
            \/ i \in finished'
        BY <1>12, <1>20, <2>1, <3>2, <3>3
      <3>5. QED
        BY <3>1, <3>4
    <2>3. QED
      BY <2>2 DEF OwnedInv
  <1>28. DequeInv'
    <2>1. \A v \in Workers : \A h \in 1 .. depth'[v] :
            AtFork(frames'[v][h]) =>
              /\ h \in 1 .. depth[v] /\ AtFork(frames[v][h])
              /\ RightJob(frames[v][h])' = RightJob(frames[v][h])
      <3>1. ASSUME NEW v \in Workers, NEW h \in 1 .. depth'[v], AtFork(frames'[v][h])
            PROVE  Owns(v, h)' /\ (h \in 1 .. depth[v] => AtFork(frames[v][h]))
        BY <1>1, <1>3, <1>11, <3>1 DEF AtFork, Owns, OwnsJob
      <3>2. QED
        BY <1>21, <3>1
    <2>2. \A v \in Workers : \A h \in 1 .. depth[v] :
            AtFork(frames[v][h]) =>
              /\ h \in 1 .. depth'[v] /\ AtFork(frames'[v][h])
              /\ RightJob(frames[v][h])' = RightJob(frames[v][h])
      BY <1>1, <1>3, <1>11, <1>22 DEF AtFork, Owns, OwnsJob
    <2>3. \A v \in Workers : \A h \in 1 .. depth'[v] :
            Waiting(frames'[v][h]) => h \in 1 .. depth[v] /\ Waiting(frames[v][h])
      BY <1>1, <1>3, <1>4, <1>11 DEF Waiting
    <2>4. ASSUME NEW v \in Workers, NEW k \in 1 .. Len(deques'[v])
          PROVE  /\ \E h \in 1 .. depth'[v] :
                      AtFork(frames'[v][h]) /\ RightJob(frames[v][h])' = deques'[v][k]
                 /\ \A e, h \in 1 .. depth'[v] :
                      AtFork(frames'[v][e]) /\ RightJob(frames[v][e])' = deques'[v][k] /\ e < h =>
                        /\ ~Waiting(frames'[v][h])
                        /\ AtFork(frames'[v][h]) =>
                             \E l \in k + 1 .. Len(deques'[v]) :
                               deques'[v][l] = RightJob(frames[v][h])'
      <3>1. v \in Deques
        BY NumThreadsAssumption DEF Workers, Deques
      <3>2. PICK m \in 1 .. Len(deques[v]) :
              deques'[v][k] = deques[v][m] /\ m = (IF v = d THEN k + 1 ELSE k)
        BY <1>9, <3>1
      <3>3. \E h \in 1 .. depth'[v] :
              AtFork(frames'[v][h]) /\ RightJob(frames[v][h])' = deques'[v][k]
        <4>1. PICK h \in 1 .. depth[v] :
                AtFork(frames[v][h]) /\ RightJob(frames[v][h]) = deques[v][m]
          BY DEF DequeInv, IInv
        <4>2. QED
          BY <2>2, <3>2, <4>1
      <3>4. ASSUME NEW e \in 1 .. depth'[v], NEW h \in 1 .. depth'[v],
                   AtFork(frames'[v][e]), RightJob(frames[v][e])' = deques'[v][k], e < h
            PROVE  /\ ~Waiting(frames'[v][h])
                   /\ AtFork(frames'[v][h]) =>
                           \E l \in k + 1 .. Len(deques'[v]) :
                             deques'[v][l] = RightJob(frames[v][h])'
        <4>1. /\ e \in 1 .. depth[v] /\ AtFork(frames[v][e])
              /\ RightJob(frames[v][e]) = deques[v][m]
          BY <2>1, <3>2, <3>4
        <4>2. h \in 1 .. depth[v] =>
                /\ ~Waiting(frames[v][h])
                /\ AtFork(frames[v][h]) =>
                     \E l \in m + 1 .. Len(deques[v]) :
                       deques[v][l] = RightJob(frames[v][h])
          BY <3>4, <4>1 DEF DequeInv, IInv
        <4>3. ~Waiting(frames'[v][h])
          BY <2>3, <4>2
        <4>4. ASSUME AtFork(frames'[v][h])
              PROVE  \E l \in k + 1 .. Len(deques'[v]) :
                             deques'[v][l] = RightJob(frames[v][h])'
          <5>1. /\ h \in 1 .. depth[v] /\ AtFork(frames[v][h])
                /\ RightJob(frames[v][h])' = RightJob(frames[v][h])
            BY <2>1, <4>4
          <5>2. PICK l \in m + 1 .. Len(deques[v]) : deques[v][l] = RightJob(frames[v][h])
            BY <4>2, <5>1
          <5>3. l \in 1 .. Len(deques[v]) /\ l # 1
            BY <5>2
          <5>4. PICK n \in 1 .. Len(deques'[v]) :
                  deques'[v][n] = deques[v][l] /\ l = (IF v = d THEN n + 1 ELSE n)
            BY <1>9, <3>1, <5>3
          <5>5. n \in k + 1 .. Len(deques'[v])
            BY <3>2, <5>2, <5>4
          <5>6. QED
            BY <5>1, <5>2, <5>4, <5>5
        <4>5. QED
          BY <4>3, <4>4
      <3>5. QED
        BY <3>3, <3>4
    <2>5. ASSUME NEW e \in Deques \ Workers
          PROVE  deques'[e] = <<>>
      BY <1>2, <1>6 DEF DequeInv, IInv
    <2>6. QED
      BY <2>4, <2>5 DEF DequeInv
  <1>29. QED
    BY <1>10, <1>14, <1>17, <1>18, <1>24, <1>25, <1>26, <1>27, <1>28 DEF IInv

--------------------------------------------------------------------------------
(* Steps that touch no deque and leave every owner of a job where it is.       *)

Undisturbed ==
  /\ \A v \in Workers : \A h \in 1 .. depth[v] : Owns(v, h) =>
       /\ h \in 1 .. depth'[v] /\ Owns(v, h)'
       /\ RightJob(frames[v][h])' = RightJob(frames[v][h])
       /\ AtFork(frames[v][h]) => AtFork(frames'[v][h])
  /\ \A v \in Workers : \A h \in 1 .. depth'[v] :
       /\ Owns(v, h)' =>
            /\ h \in 1 .. depth[v] /\ Owns(v, h)
            /\ RightJob(frames[v][h])' = RightJob(frames[v][h])
            /\ AtFork(frames'[v][h]) => AtFork(frames[v][h])
       /\ Waiting(frames'[v][h]) => h \in 1 .. depth[v] /\ Waiting(frames[v][h])
       /\ IsJob(v, h)' =>
            /\ h \in 1 .. depth[v] /\ IsJob(v, h)
            /\ JobOf(frames[v][h])' = JobOf(frames[v][h])
  /\ \A i : Started(i) => Started(i)' \/ i \in finished'

\* Such a step keeps owners, jobs and deques in order.
LEMMA JobsUndisturbed ==
  ASSUME IInv, Undisturbed, deques' = deques, finished \subseteq finished'
  PROVE  OwnerInv' /\ AliveInv' /\ OwnedInv' /\ DequeInv'
  <1>1. \A v \in Workers : \A h \in 1 .. depth[v] : Owns(v, h) =>
           /\ h \in 1 .. depth'[v] /\ Owns(v, h)'
           /\ RightJob(frames[v][h])' = RightJob(frames[v][h])
           /\ AtFork(frames[v][h]) => AtFork(frames'[v][h])
    BY DEF Undisturbed
  <1>2. \A v \in Workers : \A h \in 1 .. depth'[v] :
           /\ Owns(v, h)' =>
                /\ h \in 1 .. depth[v] /\ Owns(v, h)
                /\ RightJob(frames[v][h])' = RightJob(frames[v][h])
                /\ AtFork(frames'[v][h]) => AtFork(frames[v][h])
           /\ Waiting(frames'[v][h]) => h \in 1 .. depth[v] /\ Waiting(frames[v][h])
           /\ IsJob(v, h)' =>
                /\ h \in 1 .. depth[v] /\ IsJob(v, h)
                /\ JobOf(frames[v][h])' = JobOf(frames[v][h])
    BY DEF Undisturbed
  <1>3. \A i : Started(i) => Started(i)' \/ i \in finished'
    BY DEF Undisturbed
  <1>4. OwnerInv'
    <2>1. ASSUME NEW u \in Workers, NEW v \in Workers,
                 NEW h \in 1 .. depth'[u], NEW e \in 1 .. depth'[v],
                 Owns(u, h)', Owns(v, e)',
                 RightJob(frames[u][h])' = RightJob(frames[v][e])'
          PROVE  u = v /\ h = e
      BY <1>2, <2>1 DEF OwnerInv, IInv
    <2>2. QED
      BY <2>1 DEF OwnerInv
  <1>5. AliveInv'
    <2>1. \A i : Alive(i) => Alive(i)'
      BY <1>1 DEF Alive
    <2>2. ASSUME NEW d \in Deques, NEW k \in 1 .. Len(deques[d])
          PROVE  Alive(deques[d][k])'
      <3>1. Alive(deques[d][k])
        BY DEF AliveInv, IInv
      <3>2. QED
        BY <2>1, <3>1 DEF Alive
    <2>3. ASSUME NEW v \in Workers, NEW h \in 1 .. depth'[v], IsJob(v, h)'
          PROVE  Alive(JobOf(frames[v][h]))'
      <3>1. PICK i : Alive(i) /\ JobOf(frames[v][h])' = i
        BY <1>2, <2>3 DEF AliveInv, IInv
      <3>2. QED
        BY <2>1, <3>1 DEF Alive
    <2>4. QED
      BY <2>2, <2>3 DEF AliveInv
  <1>6. OwnedInv'
    <2>1. ASSUME NEW v \in Workers, NEW h \in 1 .. depth'[v], Owns(v, h)'
          PROVE  \/ \E k \in 1 .. Len(deques'[v]) : deques'[v][k] = RightJob(frames[v][h])'
                 \/ Started(RightJob(frames[v][h]))'
                 \/ RightJob(frames[v][h])' \in finished'
      <3>1. PICK i : /\ i = RightJob(frames[v][h]) /\ RightJob(frames[v][h])' = i
                     /\ h \in 1 .. depth[v] /\ Owns(v, h)
        BY <1>2, <2>1
      <3>2. \/ \E k \in 1 .. Len(deques[v]) : deques[v][k] = i
            \/ Started(i)
            \/ i \in finished
        BY <3>1 DEF OwnedInv, IInv
      <3>3. \/ \E k \in 1 .. Len(deques'[v]) : deques'[v][k] = i
            \/ Started(i)'
            \/ i \in finished'
        BY <1>3, <3>2
      <3>4. QED
        BY <3>1, <3>3
    <2>2. QED
      BY <2>1 DEF OwnedInv
  <1>7. DequeInv'
    <2>1. \A f : AtFork(f) => OwnsJob(f)
      BY DEF AtFork, OwnsJob
    <2>2. \A v \in Workers : \A h \in 1 .. depth'[v] :
            AtFork(frames'[v][h]) =>
              /\ h \in 1 .. depth[v] /\ AtFork(frames[v][h])
              /\ RightJob(frames[v][h])' = RightJob(frames[v][h])
      <3>1. \A v \in Workers : \A h \in 1 .. depth'[v] :
              AtFork(frames'[v][h]) => Owns(v, h)'
        BY <2>1 DEF Owns
      <3>2. QED
        BY <1>2, <3>1
    <2>3. \A v \in Workers : \A h \in 1 .. depth[v] :
            AtFork(frames[v][h]) =>
              /\ h \in 1 .. depth'[v] /\ AtFork(frames'[v][h])
              /\ RightJob(frames[v][h])' = RightJob(frames[v][h])
      BY <1>1, <2>1 DEF Owns
    <2>4. ASSUME NEW v \in Workers, NEW k \in 1 .. Len(deques[v])
          PROVE  /\ \E h \in 1 .. depth'[v] :
                      AtFork(frames'[v][h]) /\ RightJob(frames[v][h])' = deques[v][k]
                 /\ \A e, h \in 1 .. depth'[v] :
                      AtFork(frames'[v][e]) /\ RightJob(frames[v][e])' = deques[v][k] /\ e < h =>
                        /\ ~Waiting(frames'[v][h])
                        /\ AtFork(frames'[v][h]) =>
                             \E l \in k + 1 .. Len(deques[v]) :
                               deques[v][l] = RightJob(frames[v][h])'
      <3>1. \E h \in 1 .. depth'[v] :
              AtFork(frames'[v][h]) /\ RightJob(frames[v][h])' = deques[v][k]
        <4>1. PICK h \in 1 .. depth[v] :
                AtFork(frames[v][h]) /\ RightJob(frames[v][h]) = deques[v][k]
          BY DEF DequeInv, IInv
        <4>2. QED
          BY <2>3, <4>1
      <3>2. ASSUME NEW e \in 1 .. depth'[v], NEW h \in 1 .. depth'[v],
                   AtFork(frames'[v][e]), RightJob(frames[v][e])' = deques[v][k], e < h
            PROVE  /\ ~Waiting(frames'[v][h])
                   /\ AtFork(frames'[v][h]) =>
                           \E l \in k + 1 .. Len(deques[v]) :
                             deques[v][l] = RightJob(frames[v][h])'
        <4>1. /\ e \in 1 .. depth[v] /\ AtFork(frames[v][e])
              /\ RightJob(frames[v][e]) = deques[v][k]
          BY <2>2, <3>2
        <4>2. h \in 1 .. depth[v] =>
                /\ ~Waiting(frames[v][h])
                /\ AtFork(frames[v][h]) =>
                     \E l \in k + 1 .. Len(deques[v]) :
                       deques[v][l] = RightJob(frames[v][h])
          BY <3>2, <4>1 DEF DequeInv, IInv
        <4>3. ~Waiting(frames'[v][h])
          BY <1>2, <4>2
        <4>4. QED
          BY <2>2, <4>2, <4>3
      <3>3. QED
        BY <3>1, <3>2
    <2>5. QED
      BY <2>4 DEF DequeInv, IInv
  <1>8. QED
    BY <1>4, <1>5, <1>6, <1>7

\* operator() of a job calls parfor_ for the right part.
LEMMA StartJobStep ==
  ASSUME IInv, NEW w \in Workers, StartJob(w)
  PROVE  IInv'
  <1>0. PICK D \in Nat, f \in FrameType : D = depth[w] /\ f = Inner(w)
    BY InnerFrame DEF StartJob, At
  <1> DEFINE g == [f EXCEPT !.at = "running"]
             c == CallRange(f.lo, f.hi)
  <1>1. /\ Running(w) /\ Top(w) = f /\ f \in FrameType /\ f.lo \in Nat /\ f.hi \in Nat
        /\ f.kind = "job" /\ f.at = "run" /\ f.lo < f.hi /\ f.hi <= NumIterations
        /\ D \in Nat /\ D \in 1 .. D /\ f = frames[w][D] /\ FrameOK(f) /\ TypeInv
        /\ D = depth[w] /\ f = Inner(w)
    <2>1. Running(w) /\ Top(w).kind = "job" /\ Top(w).at = "run"
      BY DEF StartJob, At
    <2>2. QED
      BY <1>0, <2>1, InnerFrame DEF IInv, FrameOK
  <1>2. InParfor /\ HasPiece(w)
    BY <1>1, InsideParfor DEF HasPiece, IsPiece
  <1>3. /\ g \in FrameType /\ g.kind = "job" /\ g.at = "running" /\ g.lo = f.lo /\ g.hi = f.hi
    BY <1>1 DEF FrameType
  <1>4. /\ c \in FrameType /\ c.kind = "range" /\ c.at = "enter" /\ c.lo = f.lo /\ c.hi = f.hi
    BY <1>1 DEF CallRange, Frame, FrameType
  <1>5. /\ Become(w, <<c, g>>)
        /\ UNCHANGED <<deques, finished, finishedFlag, loop, granularity, runs>>
    BY <1>1 DEF StartJob, Goto
  <1> HIDE DEF g, c
  <1>6. stack' \in [Workers -> Seq(FrameType)] /\ Entered(w, c, g)
    BY <1>1, <1>3, <1>4, <1>5, Entering
  <1>7. TypeInv'
    BY <1>1, <1>5, <1>6 DEF TypeInv
  <1>8. /\ \A v \in Workers : v # w => depth'[v] = depth[v]
        /\ \A v \in Workers : depth[v] \in Nat
        /\ depth'[w] = D + 1
        /\ frames'[w][D] = g /\ frames'[w][D + 1] = c
        /\ \A v \in Workers : \A h \in 1 .. depth[v] :
             h \in 1 .. depth'[v] /\ (v # w \/ h # D => frames'[v][h] = frames[v][h])
        /\ \A v \in Workers : \A h \in 1 .. depth'[v] :
             h \in 1 .. depth[v] \/ (v = w /\ h = D + 1)
        /\ Inner(w)' = c
        /\ \A v \in Workers : v # w /\ depth[v] > 0 => Inner(v)' = Inner(v)
    BY <1>1, <1>3, <1>4, <1>6, CallFrames
  <1>9. /\ deques' = deques /\ finished' = finished /\ loop' = loop
        /\ granularity' = granularity /\ runs' = runs /\ NumIterations' = NumIterations
        /\ \A lo, hi : Job(lo, hi)' = Job(lo, hi)
    BY <1>5 DEF NumIterations, Job
  <1>10. MainInv' /\ StackInv' /\ FrameInv' /\ FinishedInv' /\ NestInv'
    <2>1. Call(w, c, g)
      BY <1>1, <1>3, <1>4 DEF Call, CalledLo, CalledHi
    <2>2. FrameOK(g) /\ FrameOK(c)
      BY <1>1, <1>3, <1>4 DEF FrameOK
    <2>3. QED
      BY <1>1, <1>2, <1>3, <1>4, <1>5, <1>6, <2>1, <2>2, Calls
  <1>11. \A v \in Workers :
           /\ HasPiece(v)' <=> HasPiece(v)
           /\ HasPiece(v) => Inner(v)'.lo = Inner(v).lo /\ Inner(v)'.hi = Inner(v).hi
    BY <1>1, <1>2, <1>4, <1>8 DEF HasPiece, IsPiece
  <1>12. PieceInv' /\ SlotInv'
    BY <1>9, <1>11 DEF PieceInv, SlotInv, IInv, Apart, Todo
  <1>13. \A v \in Workers : \A h \in 1 .. depth'[v] :
           IsJob(v, h)' =>
             /\ h \in 1 .. depth[v] /\ IsJob(v, h)
             /\ JobOf(frames[v][h])' = JobOf(frames[v][h])
             /\ frames'[v][h].lo = frames[v][h].lo
             /\ frames'[v][h] = frames[v][h] \/ (v = w /\ frames'[v][h] = g)
    BY <1>1, <1>3, <1>4, <1>8, <1>9 DEF IsJob, JobOf
  <1>14. Undisturbed
    <2>1. \A v \in Workers : \A h \in 1 .. depth[v] : Owns(v, h) =>
             /\ h \in 1 .. depth'[v] /\ Owns(v, h)'
             /\ RightJob(frames[v][h])' = RightJob(frames[v][h])
             /\ AtFork(frames[v][h]) => AtFork(frames'[v][h])
      BY <1>1, <1>8, <1>9 DEF Owns, OwnsJob, RightJob
    <2>2. \A v \in Workers : \A h \in 1 .. depth'[v] :
             /\ Owns(v, h)' =>
                  /\ h \in 1 .. depth[v] /\ Owns(v, h)
                  /\ RightJob(frames[v][h])' = RightJob(frames[v][h])
                  /\ AtFork(frames'[v][h]) => AtFork(frames[v][h])
             /\ Waiting(frames'[v][h]) => h \in 1 .. depth[v] /\ Waiting(frames[v][h])
      BY <1>1, <1>3, <1>4, <1>8, <1>9 DEF Owns, OwnsJob, RightJob, Waiting
    <2>3. \A v \in Workers : \A h \in 1 .. depth[v] :
             IsJob(v, h) => /\ h \in 1 .. depth'[v] /\ IsJob(v, h)'
                            /\ JobOf(frames[v][h])' = JobOf(frames[v][h])
      BY <1>1, <1>3, <1>8, <1>9 DEF IsJob, JobOf
    <2>4. \A i : Started(i) => Started(i)'
      BY <2>3 DEF Started
    <2>5. QED
      BY <1>13, <2>1, <2>2, <2>4 DEF Undisturbed
  <1>15. OwnerInv' /\ AliveInv' /\ OwnedInv' /\ DequeInv'
    BY <1>9, <1>14, JobsUndisturbed
  <1>16. JobInv'
    <2>1. ASSUME NEW v \in Workers, NEW h \in 1 .. depth'[v], IsJob(v, h)'
          PROVE  /\ JobOf(frames[v][h])' \notin finished'
                 /\ frames'[v][h].at = "running" =>
                      \/ Done(frames[v][h].lo, frames[v][h].lo + 1)'
                      \/ /\ HasPiece(v)' /\ Inner(v)'.lo = frames'[v][h].lo
                         /\ Inner(v)'.lo < Inner(v)'.hi
      <3>1. /\ JobOf(frames[v][h]) \notin finished
            /\ frames[v][h].at = "running" =>
                    \/ Done(frames[v][h].lo, frames[v][h].lo + 1)
                    \/ /\ HasPiece(v) /\ Inner(v).lo = frames[v][h].lo
                       /\ Inner(v).lo < Inner(v).hi
        BY <1>13, <2>1 DEF JobInv, IInv
      <3>2. CASE v = w /\ frames'[v][h] = g
        BY <1>1, <1>2, <1>3, <1>4, <1>8, <1>9, <1>11, <1>13, <2>1, <3>1, <3>2
      <3>3. CASE frames'[v][h] = frames[v][h]
        BY <1>9, <1>11, <1>13, <2>1, <3>1, <3>3 DEF Done
      <3>4. QED
        BY <1>13, <2>1, <3>2, <3>3
    <2>2. ASSUME NEW u \in Workers, NEW v \in Workers,
                 NEW h \in 1 .. depth'[u], NEW e \in 1 .. depth'[v],
                 IsJob(u, h)', IsJob(v, e)', JobOf(frames[u][h])' = JobOf(frames[v][e])'
          PROVE  u = v /\ h = e
      BY <1>13, <2>2 DEF JobInv, IInv
    <2>3. QED
      BY <2>1, <2>2 DEF JobInv
  <1>17. QED
    BY <1>7, <1>10, <1>12, <1>15, <1>16 DEF IInv

--------------------------------------------------------------------------------
(* Frames that end.                                                            *)

\* A job is finished and its worker goes on with what it waited for, or a
\* spawned thread ends.
LEMMA EndStep ==
  ASSUME IInv, NEW w \in Workers, FinishJob(w) \/ (LoopEnds(w) /\ Top(w).kind = "worker")
  PROVE  IInv'
  <1>0. PICK D \in Nat, f \in FrameType : D = depth[w] /\ f = Inner(w)
    BY InnerFrame DEF FinishJob, LoopEnds, InLoop, At
  <1>1. /\ Running(w) /\ Top(w) = f /\ f \in FrameType /\ f.lo \in Nat /\ f.hi \in Nat
        /\ D \in Nat /\ D \in 1 .. D /\ f = frames[w][D] /\ FrameOK(f) /\ TypeInv
        /\ D = depth[w] /\ f = Inner(w)
        /\ \/ f.kind = "job" /\ f.at = "finish"
           \/ f.kind = "worker" /\ f.at \in {"check", "steal"}
    <2>1. /\ Running(w)
          /\ \/ Top(w).kind = "job" /\ Top(w).at = "finish"
             \/ Top(w).kind = "worker" /\ Top(w).at \in {"check", "steal"}
      BY DEF FinishJob, LoopEnds, InLoop, At
    <2>2. QED
      BY <1>0, <2>1, InnerFrame DEF IInv
  <1>2. /\ Become(w, <<>>)
        /\ UNCHANGED <<deques, loop, granularity, runs>> /\ finishedFlag' = finishedFlag
        /\ finished' = IF f.kind = "job" THEN finished \union {JobOf(f)} ELSE finished
    BY <1>1 DEF FinishJob, LoopEnds, LeaveLoop, JobOf, At, InLoop
  <1>3. stack' \in [Workers -> Seq(FrameType)] /\ Left(w)
    BY <1>1, <1>2, Leaving
  <1>4. /\ \A v \in Workers : v # w => depth'[v] = depth[v]
        /\ \A v \in Workers : depth[v] \in Nat
        /\ depth'[w] = D - 1
        /\ \A v \in Workers : \A h \in 1 .. depth'[v] :
             /\ h \in 1 .. depth[v] /\ frames'[v][h] = frames[v][h] /\ (v # w \/ h # D)
             /\ frames[v][h] \in FrameType
        /\ \A v \in Workers : \A h \in 1 .. depth[v] :
             v # w \/ h # D => h \in 1 .. depth'[v]
    <2>1. \A v \in Workers : depth[v] \in Nat /\ \A h \in 1 .. depth[v] : frames[v][h] \in FrameType
      BY Views DEF IInv
    <2>2. /\ \A v \in Workers : v # w => depth'[v] = depth[v]
          /\ depth'[w] = D - 1
      BY <1>1, <1>3 DEF Left, Kept
    <2>3. \A v \in Workers : \A h \in 1 .. depth'[v] :
             /\ h \in 1 .. depth[v] /\ frames'[v][h] = frames[v][h] /\ (v # w \/ h # D)
      BY <1>1, <1>3, <2>1, <2>2 DEF Left, Kept
    <2>4. \A v \in Workers : \A h \in 1 .. depth[v] :
             v # w \/ h # D => h \in 1 .. depth'[v]
      BY <1>1, <2>1, <2>2
    <2>5. QED
      BY <2>1, <2>2, <2>3, <2>4
  <1>5. /\ deques' = deques /\ loop' = loop /\ finished \subseteq finished'
        /\ granularity' = granularity /\ runs' = runs /\ NumIterations' = NumIterations
        /\ \A lo, hi : Job(lo, hi)' = Job(lo, hi)
        /\ 0 \in Workers
    BY <1>2, ZeroIsWorker DEF NumIterations, Job
  <1>6. TypeInv'
    <2>1. f.kind = "job" => JobOf(f) \in JobType
      BY <1>1 DEF JobOf, Job, JobType, TypeInv
    <2>2. QED
      BY <1>1, <1>2, <1>3, <2>1 DEF TypeInv
  <1>7. f.kind = "job" =>
          /\ InParfor /\ D > 1 /\ D - 1 \in 1 .. depth[w]
          /\ frames[w][D - 1].at = "check" /\ frames[w][D - 1].kind \in {"range", "worker"}
    <2>1. ASSUME f.kind = "job"
          PROVE  /\ InParfor /\ D > 1 /\ D - 1 \in 1 .. depth[w]
                 /\ frames[w][D - 1].at = "check"
                 /\ frames[w][D - 1].kind \in {"range", "worker"}
      <3>1. InParfor /\ D > 1
        BY <1>1, <2>1, InsideParfor
      <3>2. D - 1 \in 1 .. depth[w] /\ D - 1 # depth[w] /\ D - 1 + 1 = D
        BY <1>1, <3>1
      <3>3. Calling(frames[w][D - 1]) /\ Called(frames[w][D], frames[w][D - 1])
        BY <3>2 DEF IInv, StackInv
      <3>4. QED
        BY <1>1, <2>1, <3>1, <3>2, <3>3 DEF Called, Calling
    <2>2. QED
      BY <2>1
  <1>8. f.kind = "worker" => w # 0 /\ D = 1 /\ depth'[w] = 0
    <2>1. frames[w][D].kind = "worker" => w # 0 /\ D = 1
      BY <1>1 DEF IInv, StackInv
    <2>2. QED
      BY <1>1, <1>4, <2>1
  <1>9. /\ InParfor' <=> InParfor
        /\ depth[0] = 1 => depth'[0] = 1
        /\ depth'[0] <= 1 => depth'[0] = depth[0]
        /\ depth'[0] > 0 => frames'[0][1] = frames[0][1]
        /\ Quiet => Quiet'
    <2>1. w = 0 => f.kind = "job" /\ D > 2
      <3>1. w = 0 => f.kind = "job" /\ D > 1
        BY <1>1, <1>7, <1>8
      <3>2. w = 0 /\ D = 2 => frames[w][D - 1].kind = "main"
        BY <1>1, <1>5 DEF IInv, StackInv
      <3>3. QED
        BY <1>1, <1>7, <3>1, <3>2
    <2>2. \A v \in Workers : depth'[v] <= depth[v]
      BY <1>1, <1>4
    <2>3. Quiet => Quiet'
      BY <1>4, <1>5, <2>2, <1>1 DEF Quiet
    <2>4. /\ InParfor' <=> InParfor
          /\ depth[0] = 1 => depth'[0] = 1
          /\ depth'[0] <= 1 => depth'[0] = depth[0]
      BY <1>1, <1>4, <1>5, <2>1 DEF InParfor
    <2>5. depth'[0] > 0 => 1 \in 1 .. depth'[0]
      BY <1>4, <1>5, <2>1
    <2>6. QED
      BY <1>4, <1>5, <2>3, <2>4, <2>5
  <1>10. MainInv'
    <2>1. /\ MainAt("measure")' => MainAt("measure") /\ frames'[0][1] = frames[0][1]
          /\ MainAt("returned")' => MainAt("returned")
          /\ MainAt("call")' => MainAt("call")
          /\ MainAt("join")' => MainAt("join")
          /\ depth'[0] = 0 => depth[0] = 0
          /\ InParfor' => InParfor /\ frames'[0][1] = frames[0][1]
      <3>1. depth[0] \in Nat /\ depth'[0] \in Int
        BY <1>1, <1>4, <1>5
      <3>2. QED
        BY <1>9, <3>1 DEF MainAt, InParfor
    <2>2. QED
      BY <1>5, <1>9, <2>1 DEF MainInv, IInv, LoopRuns, Done, Todo
  <1>11. StackInv'
    <2>1. ASSUME NEW v \in Workers, NEW h \in 1 .. depth'[v]
          PROVE  /\ IF h = depth'[v] THEN Innermost(frames'[v][h])
                    ELSE Calling(frames'[v][h]) /\ Called(frames[v][h + 1], frames[v][h])'
                 /\ frames'[v][h].kind = "main" <=> v = 0 /\ h = 1
                 /\ frames'[v][h].kind = "worker" <=> v # 0 /\ h = 1
      <3>1. /\ h \in 1 .. depth[v] /\ frames'[v][h] = frames[v][h]
            /\ IF h = depth[v] THEN Innermost(frames[v][h])
                  ELSE Calling(frames[v][h]) /\ Called(frames[v][h + 1], frames[v][h])
            /\ frames[v][h].kind = "main" <=> v = 0 /\ h = 1
            /\ frames[v][h].kind = "worker" <=> v # 0 /\ h = 1
        BY <1>4 DEF StackInv, IInv
      <3>2. ASSUME h = depth'[v] PROVE Innermost(frames[v][h])
        <4>1. CASE v = w
          BY <1>1, <1>4, <1>7, <1>8, <3>2, <4>1 DEF Innermost
        <4>2. CASE v # w
          BY <1>4, <3>1, <3>2, <4>2
        <4>3. QED
          BY <4>1, <4>2
      <3>3. ASSUME h # depth'[v]
            PROVE  Calling(frames[v][h]) /\ Called(frames[v][h + 1], frames[v][h])'
        <4>1. h + 1 \in 1 .. depth'[v] /\ h # depth[v] /\ depth[v] \in Nat /\ depth'[v] \in Int
          BY <1>1, <1>4, <3>1, <3>3
        <4>2. frames'[v][h + 1] = frames[v][h + 1]
          BY <1>4, <4>1
        <4>3. QED
          BY <1>5, <3>1, <4>1, <4>2 DEF Called, CalledLo, CalledHi, Done, Mid
      <3>4. QED
        BY <3>1, <3>2, <3>3
    <2>2. QED
      BY <2>1 DEF StackInv, Innermost, Calling
  <1>12. FrameInv'
    <2>1. ASSUME NEW v \in Workers, NEW h \in 1 .. depth'[v]
          PROVE  FrameOK(frames[v][h])'
      <3>1. FrameOK(frames[v][h]) /\ frames'[v][h] = frames[v][h]
        BY <1>4 DEF FrameInv, IInv
      <3>2. QED
        BY <1>5, <3>1 DEF FrameOK, Done, Mid
    <2>2. QED
      BY <2>1 DEF FrameInv
  <1>13. \A v \in Workers : /\ HasPiece(v)' <=> HasPiece(v)
                            /\ HasPiece(v) => Inner(v)' = Inner(v)
    <2>1. ~HasPiece(w)
      BY <1>1 DEF HasPiece, IsPiece
    <2>2. ~HasPiece(w)'
      <3>1. CASE f.kind = "job"
        <4>1. D - 1 \in 1 .. depth'[w]
          BY <1>1, <1>4, <1>7, <3>1
        <4>2. Inner(w)' = frames[w][D - 1]
          BY <1>4, <4>1 DEF Inner
        <4>3. QED
          BY <1>7, <3>1, <4>2 DEF HasPiece, IsPiece
      <3>2. CASE f.kind = "worker"
        BY <1>8, <3>2 DEF HasPiece
      <3>3. QED
        BY <1>1, <3>1, <3>2
    <2>3. ASSUME NEW v \in Workers, v # w
          PROVE  (HasPiece(v)' <=> HasPiece(v)) /\ (HasPiece(v) => Inner(v)' = Inner(v))
      <3>1. depth[v] > 0 => depth[v] \in 1 .. depth'[v]
        BY <1>4, <2>3
      <3>2. depth[v] > 0 => Inner(v)' = Inner(v)
        BY <1>4, <2>3, <3>1 DEF Inner
      <3>3. QED
        BY <1>4, <2>3, <3>2 DEF HasPiece, IsPiece
    <2>4. QED
      BY <2>1, <2>2, <2>3
  <1>14. PieceInv' /\ SlotInv'
    BY <1>5, <1>13 DEF PieceInv, SlotInv, IInv, Apart, Todo
  <1>15. \A v \in Workers : \A h \in 1 .. depth'[v] :
           IsJob(v, h)' =>
             /\ h \in 1 .. depth[v] /\ IsJob(v, h)
             /\ JobOf(frames[v][h])' = JobOf(frames[v][h])
             /\ JobOf(frames[v][h]) \notin finished'
    <2>1. ASSUME NEW v \in Workers, NEW h \in 1 .. depth'[v], IsJob(v, h)'
          PROVE  /\ h \in 1 .. depth[v] /\ IsJob(v, h) /\ (v # w \/ h # D)
                 /\ JobOf(frames[v][h])' = JobOf(frames[v][h])
      BY <1>4, <1>5, <2>1 DEF IsJob, JobOf
    <2>2. ASSUME NEW v \in Workers, NEW h \in 1 .. depth[v], IsJob(v, h), v # w \/ h # D
          PROVE  JobOf(frames[v][h]) \notin finished'
      <3>1. JobOf(frames[v][h]) \notin finished
        BY <2>2 DEF JobInv, IInv
      <3>2. f.kind = "job" => JobOf(frames[v][h]) # JobOf(f)
        <4>1. f.kind = "job" => IsJob(w, D) /\ D \in 1 .. depth[w]
          BY <1>1 DEF IsJob
        <4>2. QED
          BY <1>1, <2>2, <4>1 DEF JobInv, IInv
      <3>3. QED
        BY <1>2, <3>1, <3>2
    <2>3. QED
      BY <2>1, <2>2
  <1>16. JobInv'
    <2>1. ASSUME NEW v \in Workers, NEW h \in 1 .. depth'[v], IsJob(v, h)'
          PROVE  /\ JobOf(frames[v][h])' \notin finished'
                 /\ frames'[v][h].at = "running" =>
                      \/ Done(frames[v][h].lo, frames[v][h].lo + 1)'
                      \/ /\ HasPiece(v)' /\ Inner(v)'.lo = frames'[v][h].lo
                         /\ Inner(v)'.lo < Inner(v)'.hi
      <3>1. /\ frames'[v][h] = frames[v][h]
            /\ frames[v][h].at = "running" =>
                    \/ Done(frames[v][h].lo, frames[v][h].lo + 1)
                    \/ /\ HasPiece(v) /\ Inner(v).lo = frames[v][h].lo
                       /\ Inner(v).lo < Inner(v).hi
        BY <1>4, <1>15, <2>1 DEF JobInv, IInv
      <3>2. QED
        BY <1>5, <1>13, <1>15, <2>1, <3>1 DEF Done
    <2>2. ASSUME NEW u \in Workers, NEW v \in Workers,
                 NEW h \in 1 .. depth'[u], NEW e \in 1 .. depth'[v],
                 IsJob(u, h)', IsJob(v, e)', JobOf(frames[u][h])' = JobOf(frames[v][e])'
          PROVE  u = v /\ h = e
      BY <1>15, <2>2 DEF JobInv, IInv
    <2>3. QED
      BY <2>1, <2>2 DEF JobInv
  <1>17. FinishedInv'
    <2>1. f.kind = "job" => /\ InParfor /\ Done(f.lo, f.hi)
                            /\ JobOf(f).loop = loop /\ JobOf(f).lo = f.lo /\ JobOf(f).hi = f.hi
      BY <1>1, <1>7 DEF FrameOK, JobOf, Job
    <2>2. ASSUME NEW i \in finished'
          PROVE  /\ i.loop <= loop
                 /\ i.loop = loop =>
                      /\ InParfor' \/ MainAt("returned")'
                      /\ Done(i.lo, i.hi)
      <3>1. CASE i \in finished
        <4>1. MainAt("returned") => MainAt("returned")'
          BY <1>9 DEF MainAt
        <4>2. QED
          BY <1>9, <3>1, <4>1 DEF FinishedInv, IInv
      <3>2. CASE f.kind = "job" /\ i = JobOf(f)
        <4>1. loop \in Nat
          BY <1>1, LoopsAssumption DEF TypeInv
        <4>2. QED
          BY <1>9, <2>1, <3>2, <4>1
      <3>3. QED
        BY <1>2, <2>2, <3>1, <3>2
    <2>3. QED
      BY <1>5, <2>2 DEF FinishedInv, Done
  <1>18. Undisturbed
    <2>1. ~Owns(w, D)
      BY <1>1 DEF Owns, OwnsJob
    <2>2. \A v \in Workers : \A h \in 1 .. depth[v] : Owns(v, h) =>
             /\ h \in 1 .. depth'[v] /\ Owns(v, h)'
             /\ RightJob(frames[v][h])' = RightJob(frames[v][h])
             /\ AtFork(frames[v][h]) => AtFork(frames'[v][h])
      BY <1>4, <1>5, <2>1 DEF Owns, OwnsJob, RightJob
    <2>3. \A v \in Workers : \A h \in 1 .. depth'[v] :
             /\ Owns(v, h)' =>
                  /\ h \in 1 .. depth[v] /\ Owns(v, h)
                  /\ RightJob(frames[v][h])' = RightJob(frames[v][h])
                  /\ AtFork(frames'[v][h]) => AtFork(frames[v][h])
             /\ Waiting(frames'[v][h]) => h \in 1 .. depth[v] /\ Waiting(frames[v][h])
      BY <1>4, <1>5 DEF Owns, OwnsJob, RightJob, Waiting
    <2>4. ASSUME NEW i, Started(i)
          PROVE  Started(i)' \/ i \in finished'
      <3>1. PICK v \in Workers : \E h \in 1 .. depth[v] : IsJob(v, h) /\ JobOf(frames[v][h]) = i
        BY <2>4 DEF Started
      <3>2. PICK h \in 1 .. depth[v] : IsJob(v, h) /\ JobOf(frames[v][h]) = i
        BY <3>1
      <3>3. CASE v = w /\ h = D
        BY <1>1, <1>2, <3>2, <3>3 DEF IsJob
      <3>4. CASE v # w \/ h # D
        <4>1. h \in 1 .. depth'[v] /\ IsJob(v, h)' /\ JobOf(frames[v][h])' = i
          BY <1>4, <1>5, <3>2, <3>4 DEF IsJob, JobOf
        <4>2. QED
          BY <4>1 DEF Started
      <3>5. QED
        BY <3>3, <3>4
    <2>5. QED
      BY <1>15, <2>2, <2>3, <2>4 DEF Undisturbed
  <1>19. OwnerInv' /\ AliveInv' /\ OwnedInv' /\ DequeInv'
    BY <1>5, <1>18, JobsUndisturbed
  <1>20. NestInv'
    <2>1. ASSUME NEW v \in Workers, NEW h \in 1 .. depth'[v], frames'[v][h].kind = "range"
          PROVE  \E e \in 1 .. h - 1 :
                   \/ frames'[v][e].kind = "main"
                   \/ /\ IsJob(v, e)'
                      /\ frames'[v][e].lo <= frames'[v][h].lo
                      /\ frames'[v][h].hi <= frames'[v][e].hi
      <3>1. h \in 1 .. depth[v] /\ frames'[v][h] = frames[v][h]
        BY <1>4
      <3>2. PICK e \in 1 .. h - 1 :
                   \/ frames[v][e].kind = "main"
                   \/ /\ IsJob(v, e)
                      /\ frames[v][e].lo <= frames[v][h].lo
                      /\ frames[v][h].hi <= frames[v][e].hi
        BY <2>1, <3>1 DEF NestInv, IInv
      <3>3. e \in 1 .. depth'[v]
        <4>1. depth'[v] \in Int
          BY <1>1, <1>4
        <4>2. QED
          BY <4>1
      <3>4. frames'[v][e] = frames[v][e]
        BY <1>4, <3>3
      <3>5. QED
        BY <3>1, <3>2, <3>4 DEF IsJob
    <2>2. QED
      BY <2>1 DEF NestInv
  <1>21. QED
    BY <1>6, <1>10, <1>11, <1>12, <1>14, <1>16, <1>17, <1>19, <1>20 DEF IInv

--------------------------------------------------------------------------------
(* An iteration.                                                               *)

\* Iteration i is executed.
LEMMA Executed ==
  ASSUME TypeInv, NEW i \in DOMAIN runs, runs[i] = 0, runs' = [runs EXCEPT ![i] = @ + 1]
  PROVE  /\ DOMAIN runs' = DOMAIN runs /\ runs'[i] = 1
         /\ \A k \in DOMAIN runs : k # i => runs'[k] = runs[k]
         /\ runs' \in [DOMAIN runs' -> {0, 1}]
  <1>1. runs \in [DOMAIN runs -> {0, 1}]
    BY DEF TypeInv
  <1>2. /\ DOMAIN runs' = DOMAIN runs /\ runs'[i] = 1
        /\ \A k \in DOMAIN runs : k # i => runs'[k] = runs[k]
    BY <1>1
  <1>3. \A k \in DOMAIN runs : runs'[k] \in {0, 1}
    BY <1>1, <1>2
  <1>4. runs' \in [DOMAIN runs -> {0, 1}]
    BY <1>1, <1>3
  <1>5. QED
    BY <1>2, <1>4

\* The body runs for the next iteration of a range.
LEMMA BodyStep ==
  ASSUME IInv, NEW w \in Workers, Body(w)
  PROVE  IInv'
  <1>0. PICK D \in Nat, f \in FrameType : D = depth[w] /\ f = Inner(w)
    BY InnerFrame DEF Body, AtRange, At
  <1> DEFINE g == [f EXCEPT !.lo = @ + 1]
  <1>1. /\ Running(w) /\ Top(w) = f /\ f \in FrameType /\ f.lo \in Nat /\ f.hi \in Nat
        /\ f.kind = "range" /\ f.at = "body" /\ f.lo < f.hi /\ f.hi <= NumIterations
        /\ D \in Nat /\ D \in 1 .. D /\ f = frames[w][D] /\ FrameOK(f) /\ TypeInv
        /\ D = depth[w] /\ f = Inner(w)
    <2>1. Running(w) /\ Top(w).kind = "range" /\ Top(w).at = "body" /\ Top(w).lo < Top(w).hi
      BY DEF Body, AtRange, At
    <2>2. QED
      BY <1>0, <2>1, InnerFrame DEF IInv, FrameOK
  <1>2. /\ InParfor /\ D > 1 /\ HasPiece(w) /\ Todo(f.lo, f.hi)
        /\ f.lo \in DOMAIN runs /\ runs[f.lo] = 0
    <2>1. InParfor /\ D > 1 /\ HasPiece(w)
      BY <1>1, InsideParfor DEF HasPiece, IsPiece
    <2>2. Todo(f.lo, f.hi)
      BY <1>1, <2>1 DEF IInv, PieceInv
    <2>3. QED
      BY <1>1, <2>1, <2>2 DEF Todo
  <1>3. /\ g \in FrameType /\ g.kind = "range" /\ g.at = "body" /\ g.lo = f.lo + 1 /\ g.hi = f.hi
    BY <1>1 DEF FrameType
  <1>4. /\ Become(w, <<g>>) /\ runs' = [runs EXCEPT ![f.lo] = @ + 1]
        /\ UNCHANGED <<deques, finished, finishedFlag, loop, granularity>>
    BY <1>1 DEF Body
  <1> HIDE DEF g
  <1>5. stack' \in [Workers -> Seq(FrameType)] /\ Rewritten(w, g)
    BY <1>1, <1>3, <1>4, Rewriting
  <1>6. /\ DOMAIN runs' = DOMAIN runs /\ runs'[f.lo] = 1
        /\ \A k \in DOMAIN runs : k # f.lo => runs'[k] = runs[k]
        /\ runs' \in [DOMAIN runs' -> {0, 1}]
    BY <1>1, <1>2, <1>4, Executed
  <1>7. TypeInv'
    BY <1>1, <1>4, <1>5, <1>6 DEF TypeInv
  <1>8. /\ \A v \in Workers : depth[v] \in Nat /\ depth'[v] = depth[v]
        /\ \A v \in Workers : \A h \in 1 .. depth[v] :
             IF v = w /\ h = D THEN frames'[v][h] = g ELSE frames'[v][h] = frames[v][h]
        /\ \A v \in Workers : \A h \in 1 .. depth[v] :
             /\ frames[v][h].lo \in Nat /\ frames[v][h].hi \in Nat
             /\ Mid(frames[v][h].lo, frames[v][h].hi) \in Int
    <2>1. \A v \in Workers : depth[v] \in Nat /\ depth'[v] = depth[v]
      BY <1>5, Views DEF IInv, Rewritten, Kept
    <2>2. \A v \in Workers : \A h \in 1 .. depth[v] :
             IF v = w /\ h = D THEN frames'[v][h] = g ELSE frames'[v][h] = frames[v][h]
      BY <1>1, <1>5, <2>1 DEF Rewritten, Kept
    <2>3. \A v \in Workers : \A h \in 1 .. depth[v] :
             frames[v][h].lo \in Nat /\ frames[v][h].hi \in Nat
      BY Views DEF IInv, FrameType
    <2>4. QED
      BY <2>1, <2>2, <2>3 DEF Mid
  <1>9. \A v \in Workers : depth[v] > 0 =>
          Inner(v)' = IF v = w THEN g ELSE Inner(v)
    <2>1. \A v \in Workers : depth[v] > 0 => depth[v] \in 1 .. depth[v]
      BY <1>8
    <2>2. QED
      BY <1>1, <1>8, <2>1 DEF Inner
  <1>10. /\ deques' = deques /\ finished' = finished /\ loop' = loop
         /\ granularity' = granularity /\ NumIterations' = NumIterations
         /\ \A lo, hi : Job(lo, hi)' = Job(lo, hi)
         /\ 0 \in Workers
    BY <1>4, ZeroIsWorker DEF NumIterations, Job
  <1>11. /\ \A lo, hi : Done(lo, hi) => Done(lo, hi)'
         /\ \A lo \in Nat, hi \in Nat : Todo(lo, hi) /\ (hi <= f.lo \/ f.lo < lo) => Todo(lo, hi)'
         /\ Done(f.lo, f.lo + 1)'
    BY <1>1, <1>2, <1>6 DEF Done, Todo
  <1>12. /\ \A v \in Workers : HasPiece(v)' <=> HasPiece(v)
         /\ \A v \in Workers : HasPiece(v) =>
              /\ Inner(v)' = IF v = w THEN g ELSE Inner(v)
              /\ Inner(v).lo \in Nat /\ Inner(v).hi \in Nat
    <2>1. ASSUME NEW v \in Workers
          PROVE  HasPiece(v)' <=> HasPiece(v)
      BY <1>1, <1>2, <1>3, <1>8, <1>9 DEF HasPiece, IsPiece
    <2>2. \A v \in Workers : HasPiece(v) =>
              /\ Inner(v)' = IF v = w THEN g ELSE Inner(v)
              /\ Inner(v).lo \in Nat /\ Inner(v).hi \in Nat
      BY <1>9, InnerFrame, Views DEF HasPiece, IInv
    <2>3. QED
      BY <2>1, <2>2
  <1>13. \A v \in Workers : \A h \in 1 .. depth[v] :
          /\ IsJob(v, h)' <=> IsJob(v, h)
          /\ IsJob(v, h) => frames'[v][h] = frames[v][h]
          /\ Owns(v, h)' <=> Owns(v, h)
          /\ Owns(v, h) => frames'[v][h] = frames[v][h]
          /\ Waiting(frames'[v][h]) => Waiting(frames[v][h])
    BY <1>1, <1>3, <1>8 DEF IsJob, Owns, OwnsJob, Waiting
  <1>14. MainInv'
    <2>1. /\ InParfor' /\ frames'[0][1] = frames[0][1] /\ depth'[0] > 1
      <3>1. 1 \in 1 .. depth[0] /\ depth[0] > 1
        BY <1>2, <1>8, <1>10 DEF InParfor
      <3>2. QED
        BY <1>2, <1>8, <1>10, <3>1 DEF InParfor
    <2>2. ~MainAt("measure")' /\ ~MainAt("returned")' /\ ~MainAt("call")' /\ ~MainAt("join")'
      BY <2>1 DEF MainAt
    <2>3. depth'[0] # 0
      BY <2>1
    <2>4. /\ LoopRuns /\ granularity >= 1
          /\ frames[0][1].lo <= NumIterations /\ Done(0, frames[0][1].lo)
      BY <1>2 DEF IInv, MainInv
    <2>5. /\ LoopRuns' /\ granularity' >= 1
          /\ frames'[0][1].lo <= NumIterations' /\ Done(0, frames[0][1].lo)'
      BY <1>6, <1>10, <1>11, <2>1, <2>4 DEF LoopRuns, Done
    <2>6. QED
      BY <2>1, <2>2, <2>3, <2>5 DEF MainInv
  <1>15. StackInv'
    <2>1. ASSUME NEW v \in Workers, NEW h \in 1 .. depth[v]
          PROVE  /\ IF h = depth[v] THEN Innermost(frames'[v][h])
                    ELSE Calling(frames'[v][h]) /\ Called(frames[v][h + 1], frames[v][h])'
                 /\ frames'[v][h].kind = "main" <=> v = 0 /\ h = 1
                 /\ frames'[v][h].kind = "worker" <=> v # 0 /\ h = 1
      <3>1. /\ IF h = depth[v] THEN Innermost(frames[v][h])
               ELSE Calling(frames[v][h]) /\ Called(frames[v][h + 1], frames[v][h])
            /\ frames[v][h].kind = "main" <=> v = 0 /\ h = 1
            /\ frames[v][h].kind = "worker" <=> v # 0 /\ h = 1
        BY DEF StackInv, IInv
      <3>2. CASE v = w /\ h = D
        BY <1>1, <1>3, <1>8, <3>1, <3>2 DEF Innermost
      <3>3. CASE ~(v = w /\ h = D)
        <4>1. frames'[v][h] = frames[v][h]
          BY <1>8, <3>3
        <4>2. ASSUME h # depth[v]
              PROVE  Called(frames[v][h + 1], frames[v][h])'
          <5>1. h + 1 \in 1 .. depth[v] /\ Called(frames[v][h + 1], frames[v][h])
            BY <1>8, <3>1, <4>2
          <5>2. CASE v = w /\ h + 1 = D
            <6>1. frames'[v][h + 1] = g /\ frames[v][h + 1] = f
              BY <1>1, <1>8, <5>1, <5>2
            <6>2. CASE frames[v][h].at = "check"
              BY <1>1, <3>1, <5>1, <6>1, <6>2 DEF Called
            <6>3. CASE frames[v][h].at # "check"
              <7>1. /\ f.hi = CalledHi(frames[v][h])
                    /\ CalledLo(frames[v][h]) <= f.lo /\ Done(CalledLo(frames[v][h]), f.lo)
                BY <5>1, <6>1, <6>3 DEF Called
              <7>2. CalledLo(frames[v][h]) \in Int
                BY <1>8 DEF CalledLo
              <7>3. Done(CalledLo(frames[v][h]), g.lo)'
                BY <1>1, <1>2, <1>3, <1>6, <4>1, <7>1, <7>2 DEF Done, CalledLo, Mid
              <7>4. /\ CalledLo(frames[v][h])' = CalledLo(frames[v][h])
                    /\ CalledHi(frames[v][h])' = CalledHi(frames[v][h])
                BY <1>10, <4>1 DEF CalledLo, CalledHi, Mid
              <7>5. QED
                BY <1>1, <1>3, <4>1, <6>1, <6>3, <7>1, <7>2, <7>3, <7>4 DEF Called, Done
            <6>4. QED
              BY <6>2, <6>3
          <5>3. CASE ~(v = w /\ h + 1 = D)
            <6>1. frames'[v][h + 1] = frames[v][h + 1]
              BY <1>8, <5>1, <5>3
            <6>2. QED
              BY <1>6, <1>10, <1>11, <4>1, <5>1, <6>1 DEF Called, CalledLo, CalledHi, Done, Mid
          <5>4. QED
            BY <5>2, <5>3
        <4>3. QED
          BY <3>1, <4>1, <4>2
      <3>4. QED
        BY <3>2, <3>3
    <2>2. QED
      BY <1>8, <2>1 DEF StackInv, Innermost, Calling
  <1>16. FrameInv'
    <2>1. ASSUME NEW v \in Workers, NEW h \in 1 .. depth[v]
          PROVE  FrameOK(frames[v][h])'
      <3>1. FrameOK(frames[v][h])
        BY DEF FrameInv, IInv
      <3>2. CASE v = w /\ h = D
        <4>1. frames'[v][h] = g
          BY <1>8, <3>2
        <4>2. QED
          BY <1>1, <1>3, <1>10, <4>1 DEF FrameOK
      <3>3. CASE ~(v = w /\ h = D)
        <4>1. frames'[v][h] = frames[v][h]
          BY <1>8, <3>3
        <4>2. QED
          BY <1>10, <1>11, <3>1, <4>1 DEF FrameOK, Done, Mid
      <3>4. QED
        BY <3>2, <3>3
    <2>2. QED
      BY <1>8, <2>1 DEF FrameInv
  <1>17. \A v \in Workers : v # w /\ HasPiece(v) => Apart(Inner(v), f) /\ Apart(f, Inner(v))
    BY <1>1, <1>2 DEF PieceInv, IInv
  <1>18. PieceInv'
    <2>1. ASSUME NEW v \in Workers, HasPiece(v)'
          PROVE  /\ Todo(Inner(v).lo, Inner(v).hi)'
                 /\ \A u \in Workers : u # v /\ HasPiece(u)' => Apart(Inner(v), Inner(u))'
      <3>1. HasPiece(v) /\ Todo(Inner(v).lo, Inner(v).hi)
        BY <1>12, <2>1 DEF PieceInv, IInv
      <3>2. Todo(Inner(v).lo, Inner(v).hi)'
        <4>1. CASE v = w
          BY <1>1, <1>2, <1>3, <1>6, <1>12, <3>1, <4>1 DEF Todo
        <4>2. CASE v # w
          <5>1. Inner(v).hi <= f.lo \/ f.lo < Inner(v).lo
            BY <1>1, <1>12, <1>17, <3>1, <4>2 DEF Apart
          <5>2. Inner(v)' = Inner(v)
            BY <1>12, <3>1, <4>2
          <5>3. QED
            BY <1>1, <1>6, <1>12, <3>1, <5>1, <5>2 DEF Todo
        <4>3. QED
          BY <4>1, <4>2
      <3>3. ASSUME NEW u \in Workers, u # v, HasPiece(u)'
            PROVE  Apart(Inner(v), Inner(u))'
        <4>1. HasPiece(u) /\ Apart(Inner(v), Inner(u))
          BY <1>12, <3>1, <3>3 DEF PieceInv, IInv
        <4>2. QED
          BY <1>1, <1>3, <1>12, <3>1, <3>3, <4>1 DEF Apart
      <3>4. QED
        BY <3>2, <3>3
    <2>2. QED
      BY <2>1 DEF PieceInv
  <1>19. SlotInv'
    <2>1. ASSUME NEW d \in Deques, NEW k \in 1 .. Len(deques[d])
          PROVE  /\ Todo(deques[d][k].lo, deques[d][k].hi)'
                 /\ \A v \in Workers : HasPiece(v)' => Apart(Inner(v), deques[d][k])'
      <3>1. /\ deques[d][k].lo \in Nat /\ deques[d][k].hi \in Nat
            /\ Todo(deques[d][k].lo, deques[d][k].hi)
            /\ \A v \in Workers : HasPiece(v) => Apart(Inner(v), deques[d][k])
        BY SlotNotStarted
      <3>2. deques[d][k].hi <= f.lo \/ f.lo < deques[d][k].lo
        BY <1>1, <1>2, <3>1 DEF Apart
      <3>3. Todo(deques[d][k].lo, deques[d][k].hi)'
        BY <1>1, <1>6, <1>10, <3>1, <3>2 DEF Todo
      <3>4. ASSUME NEW v \in Workers, HasPiece(v)'
            PROVE  Apart(Inner(v), deques[d][k])'
        <4>1. HasPiece(v) /\ Apart(Inner(v), deques[d][k])
          BY <1>12, <3>1, <3>4
        <4>2. QED
          BY <1>1, <1>3, <1>10, <1>12, <3>1, <4>1 DEF Apart
      <3>5. QED
        BY <3>3, <3>4
    <2>2. QED
      BY <1>10, <2>1 DEF SlotInv, IInv, Apart
  <1>20. JobInv'
    <2>1. ASSUME NEW v \in Workers, NEW h \in 1 .. depth[v], IsJob(v, h)'
          PROVE  /\ JobOf(frames[v][h])' \notin finished'
                 /\ frames'[v][h].at = "running" =>
                      \/ Done(frames[v][h].lo, frames[v][h].lo + 1)'
                      \/ /\ HasPiece(v)' /\ Inner(v)'.lo = frames'[v][h].lo
                         /\ Inner(v)'.lo < Inner(v)'.hi
      <3>1. /\ JobOf(frames[v][h]) \notin finished /\ frames'[v][h] = frames[v][h]
            /\ frames[v][h].at = "running" =>
                    \/ Done(frames[v][h].lo, frames[v][h].lo + 1)
                    \/ /\ HasPiece(v) /\ Inner(v).lo = frames[v][h].lo
                       /\ Inner(v).lo < Inner(v).hi
        BY <1>13, <2>1 DEF JobInv, IInv
      <3>2. ASSUME HasPiece(v), Inner(v).lo = frames[v][h].lo, Inner(v).lo < Inner(v).hi
            PROVE  \/ Done(frames[v][h].lo, frames[v][h].lo + 1)'
                   \/ /\ HasPiece(v)' /\ Inner(v)'.lo = frames'[v][h].lo
                      /\ Inner(v)'.lo < Inner(v)'.hi
        <4>1. CASE v = w
          BY <1>1, <1>6, <1>2, <3>1, <3>2, <4>1 DEF Done
        <4>2. CASE v # w
          BY <1>12, <3>1, <3>2, <4>2
        <4>3. QED
          BY <4>1, <4>2
      <3>3. QED
        BY <1>10, <1>11, <3>1, <3>2 DEF JobOf, Done
    <2>2. \A v \in Workers : \A h \in 1 .. depth[v] :
            IsJob(v, h) => JobOf(frames[v][h])' = JobOf(frames[v][h])
      BY <1>10, <1>13 DEF JobOf
    <2>3. ASSUME NEW u \in Workers, NEW v \in Workers,
                 NEW h \in 1 .. depth[u], NEW e \in 1 .. depth[v],
                 IsJob(u, h)', IsJob(v, e)', JobOf(frames[u][h])' = JobOf(frames[v][e])'
          PROVE  u = v /\ h = e
      BY <1>13, <2>2, <2>3 DEF JobInv, IInv
    <2>4. QED
      BY <1>8, <2>1, <2>3 DEF JobInv
  <1>21. FinishedInv'
    <2>1. MainAt("returned") => FALSE
      BY <1>2, <1>8, <1>10 DEF MainAt, InParfor
    <2>2. InParfor'
      BY <1>2, <1>8, <1>10 DEF InParfor
    <2>3. QED
      BY <1>10, <1>11, <2>1, <2>2 DEF FinishedInv, IInv, Done
  <1>22. Undisturbed
    <2>1. \A v \in Workers : \A h \in 1 .. depth[v] : Owns(v, h) =>
             RightJob(frames[v][h])' = RightJob(frames[v][h])
      BY <1>10, <1>13 DEF RightJob
    <2>2. \A v \in Workers : \A h \in 1 .. depth[v] : IsJob(v, h) =>
             JobOf(frames[v][h])' = JobOf(frames[v][h])
      BY <1>10, <1>13 DEF JobOf
    <2>3. \A i : Started(i) => Started(i)'
      BY <1>8, <1>13, <2>2 DEF Started
    <2>4. QED
      BY <1>8, <1>13, <2>1, <2>2, <2>3 DEF Undisturbed
  <1>23. OwnerInv' /\ AliveInv' /\ OwnedInv' /\ DequeInv'
    BY <1>10, <1>22, JobsUndisturbed
  <1>24. NestInv'
    <2>1. ASSUME NEW v \in Workers, NEW h \in 1 .. depth[v], frames'[v][h].kind = "range"
          PROVE  \E e \in 1 .. h - 1 :
                   \/ frames'[v][e].kind = "main"
                   \/ /\ IsJob(v, e)'
                      /\ frames'[v][e].lo <= frames'[v][h].lo
                      /\ frames'[v][h].hi <= frames'[v][e].hi
      <3>1. /\ frames[v][h].kind = "range" /\ frames'[v][h].hi = frames[v][h].hi
            /\ frames[v][h].lo <= frames'[v][h].lo /\ frames'[v][h].lo \in Nat
        BY <1>1, <1>3, <1>8, <2>1
      <3>2. PICK e \in 1 .. h - 1 :
                   \/ frames[v][e].kind = "main"
                   \/ /\ IsJob(v, e)
                      /\ frames[v][e].lo <= frames[v][h].lo
                      /\ frames[v][h].hi <= frames[v][e].hi
        BY <3>1 DEF NestInv, IInv
      <3>3. e \in 1 .. depth[v] /\ frames[v][e].lo \in Nat /\ frames[v][h].lo \in Nat
        BY <1>8
      <3>4. IsJob(v, e) => frames'[v][e] = frames[v][e] /\ IsJob(v, e)'
        BY <1>13, <3>3
      <3>5. frames'[v][e].kind = frames[v][e].kind
        BY <1>1, <1>3, <1>8, <3>3
      <3>6. QED
        BY <3>1, <3>2, <3>3, <3>4, <3>5
    <2>2. QED
      BY <1>8, <2>1 DEF NestInv
  <1>25. QED
    BY <1>7, <1>14, <1>15, <1>16, <1>18, <1>19, <1>20, <1>21, <1>23, <1>24 DEF IInv

--------------------------------------------------------------------------------
(* A range returns.                                                            *)

\* What the caller of a range that returns has got, and how the stacks change.
LEMMA RangeDone ==
  ASSUME IInv, NEW w \in Workers, RangeReturns(w)
  PROVE  LET g == frames[w][depth[w] - 1]
         IN  /\ depth[w] \in Nat /\ depth[w] > 1 /\ InParfor /\ Running(w)
             /\ Inner(w).kind = "range" /\ Inner(w).at \in {"return", "body"}
             /\ HasPiece(w) => ~(Inner(w).lo < Inner(w).hi)
             /\ g \in FrameType /\ Calling(g) /\ g.at # "check" /\ g.kind # "worker"
             /\ Done(CalledLo(g), CalledHi(g))
             /\ stack' \in [Workers -> Seq(FrameType)]
             /\ Returned(w, [g EXCEPT !.at = After(g)])
             /\ UNCHANGED <<deques, finished, finishedFlag, loop, granularity, runs>>
  <1>0. PICK D, f, g :
               /\ D \in Nat /\ f \in FrameType
               /\ D = depth[w] /\ f = Inner(w) /\ g = frames[w][D - 1]
    BY InnerFrame DEF RangeReturns, AtRange, At
  <1>1. /\ Running(w) /\ Top(w) = f /\ f.lo \in Nat /\ f.hi \in Nat
        /\ f.kind = "range"
        /\ f.at = "return" \/ (f.at = "body" /\ f.lo = f.hi)
        /\ D \in 1 .. D /\ f = frames[w][D] /\ FrameOK(f) /\ TypeInv
    <2>1. /\ Running(w) /\ Top(w).kind = "range"
          /\ Top(w).at = "return" \/ (Top(w).at = "body" /\ Top(w).lo = Top(w).hi)
      BY DEF RangeReturns, AtRange, At
    <2>2. QED
      BY <1>0, <2>1, InnerFrame DEF IInv
  <1>2. InParfor /\ D > 1
    BY <1>0, <1>1, InsideParfor
  <1>3. D - 1 \in 1 .. depth[w] /\ D - 1 # depth[w] /\ D - 1 + 1 = D
    BY <1>0, <1>2
  <1>4. /\ g \in FrameType /\ g = stack[w][2]
    <2>1. /\ g = stack[w][depth[w] + 1 - (D - 1)] /\ g \in FrameType
      BY <1>0, <1>1, <1>3, Views
    <2>2. depth[w] + 1 - (D - 1) = 2
      BY <1>0
    <2>3. QED
      BY <2>1, <2>2
  <1>5. Calling(g) /\ Called(f, g) /\ g.kind # "worker"
    <2>1. Calling(g) /\ Called(f, g)
      BY <1>0, <1>1, <1>3 DEF IInv, StackInv
    <2>2. g.kind = "worker" => g.at = "check"
      BY <2>1 DEF Calling
    <2>3. QED
      BY <1>1, <2>1, <2>2 DEF Called
  <1>6. g.at # "check" /\ Done(CalledLo(g), CalledHi(g))
    <2>1. /\ g.at # "check" /\ f.hi = CalledHi(g) /\ Done(CalledLo(g), f.lo)
          /\ f.at # "body" => f.lo = CalledLo(g)
      BY <1>1, <1>5 DEF Called
    <2>2. f.at = "return" => Done(f.lo, f.hi)
      BY <1>1 DEF FrameOK
    <2>3. QED
      BY <1>1, <2>1, <2>2
  <1> DEFINE k == [g EXCEPT !.at = After(g)]
  <1>7. k \in FrameType
    BY <1>4, <1>5, <1>6 DEF FrameType, After, Calling
  <1>8. stack' = [stack EXCEPT ![w] = <<k>> \o Tail(Tail(@))]
    BY <1>4 DEF RangeReturns
  <1> HIDE DEF k
  <1>9. stack' \in [Workers -> Seq(FrameType)] /\ Returned(w, k)
    BY <1>0, <1>1, <1>2, <1>7, <1>8, Returning
  <1>10. HasPiece(w) => ~(f.lo < f.hi)
    BY <1>0, <1>1 DEF HasPiece, IsPiece
  <1>11. UNCHANGED <<deques, finished, finishedFlag, loop, granularity, runs>>
    BY DEF RangeReturns
  <1>12. QED
    BY <1>0, <1>1, <1>2, <1>4, <1>5, <1>6, <1>9, <1>10, <1>11 DEF k

\* A range returns to a range or to a job.
LEMMA InnerReturnStep ==
  ASSUME IInv, NEW w \in Workers, RangeReturns(w), frames[w][depth[w] - 1].kind # "main"
  PROVE  IInv'
  <1>0. PICK D \in Nat, f \in FrameType, g \in FrameType, k \in FrameType :
               /\ D = depth[w] /\ f = Inner(w) /\ g = frames[w][D - 1]
               /\ k = [g EXCEPT !.at = After(g)]
    <2>1. frames[w][depth[w] - 1] \in FrameType /\ Running(w) /\ depth[w] \in Nat
      BY RangeDone
    <2>2. Inner(w) \in FrameType
      BY <2>1, InnerFrame
    <2>3. LET g == frames[w][depth[w] - 1]
          IN  Calling(g) /\ g.at # "check" /\ g.kind # "worker"
      BY RangeDone
    <2>4. LET g == frames[w][depth[w] - 1] IN [g EXCEPT !.at = After(g)] \in FrameType
      BY <2>1, <2>3 DEF FrameType, After, Calling
    <2>5. QED
      BY <2>1, <2>2, <2>4
  <1>1. /\ D > 1 /\ InParfor /\ Running(w)
        /\ f.kind = "range" /\ f.at \in {"return", "body"}
        /\ HasPiece(w) => ~(f.lo < f.hi)
        /\ Calling(g) /\ g.at # "check" /\ g.kind \in {"range", "job"}
        /\ Done(CalledLo(g), CalledHi(g))
        /\ stack' \in [Workers -> Seq(FrameType)]
        /\ Returned(w, k)
    <2>1. /\ D > 1 /\ InParfor /\ Running(w)
          /\ f.kind = "range" /\ f.at \in {"return", "body"}
          /\ HasPiece(w) => ~(f.lo < f.hi)
          /\ Calling(g) /\ g.at # "check" /\ g.kind # "worker"
          /\ Done(CalledLo(g), CalledHi(g))
          /\ stack' \in [Workers -> Seq(FrameType)]
          /\ Returned(w, k)
      BY <1>0, RangeDone
    <2>2. g.kind # "main"
      BY <1>0
    <2>3. QED
      BY <2>1, <2>2 DEF Calling
  <1>2. /\ deques' = deques /\ finished' = finished /\ finishedFlag' = finishedFlag
        /\ loop' = loop /\ granularity' = granularity /\ runs' = runs
        /\ NumIterations' = NumIterations
        /\ \A lo, hi : Job(lo, hi)' = Job(lo, hi)
        /\ 0 \in Workers
    BY RangeDone, ZeroIsWorker DEF NumIterations, Job
  <1>3. /\ k.kind = g.kind /\ k.lo = g.lo /\ k.hi = g.hi /\ g.lo \in Nat /\ g.hi \in Nat
        /\ \/ g.kind = "range" /\ g.at = "left" /\ k.at = "pop"
           \/ g.kind = "range" /\ g.at = "right" /\ k.at = "return"
           \/ g.kind = "job" /\ g.at = "running" /\ k.at = "finish"
    <2>1. k.kind = g.kind /\ k.lo = g.lo /\ k.hi = g.hi /\ g.lo \in Nat /\ g.hi \in Nat
      BY <1>0 DEF FrameType
    <2>2. k.at = After(g)
      BY <1>0 DEF FrameType
    <2>3. \/ g.kind = "range" /\ g.at = "left"
          \/ g.kind = "range" /\ g.at = "right"
          \/ g.kind = "job" /\ g.at = "running"
      BY <1>1 DEF Calling
    <2>4. QED
      BY <2>1, <2>2, <2>3 DEF After
  <1>4. /\ \A v \in Workers : v # w => depth'[v] = depth[v]
        /\ \A v \in Workers : depth[v] \in Nat
        /\ depth'[w] = D - 1 /\ D = depth[w]
        /\ D - 1 \in 1 .. depth[w] /\ frames[w][D - 1] = g /\ frames'[w][D - 1] = k
        /\ D \in 1 .. depth[w] /\ frames[w][D] = f
        /\ \A v \in Workers : \A h \in 1 .. depth'[v] :
             /\ h \in 1 .. depth[v] /\ (v # w \/ h # D)
             /\ v # w \/ h # D - 1 => frames'[v][h] = frames[v][h]
        /\ \A v \in Workers : \A h \in 1 .. depth[v] :
             v # w \/ h # D => h \in 1 .. depth'[v]
    <2>1. \A v \in Workers : depth[v] \in Nat
      BY Views DEF IInv
    <2>2. /\ \A v \in Workers : v # w => depth'[v] = depth[v]
          /\ depth'[w] = D - 1 /\ D = depth[w]
      BY <1>0, <1>1 DEF Returned, Kept
    <2>3. /\ D - 1 \in 1 .. depth[w] /\ frames[w][D - 1] = g /\ frames'[w][D - 1] = k
          /\ D \in 1 .. depth[w] /\ frames[w][D] = f
      BY <1>0, <1>1 DEF Returned, Inner
    <2>4. \A v \in Workers : \A h \in 1 .. depth'[v] :
             /\ h \in 1 .. depth[v] /\ (v # w \/ h # D)
             /\ v # w \/ h # D - 1 => frames'[v][h] = frames[v][h]
      BY <1>0, <1>1, <2>1, <2>2 DEF Returned, Kept
    <2>5. \A v \in Workers : \A h \in 1 .. depth[v] :
             v # w \/ h # D => h \in 1 .. depth'[v]
      BY <1>0, <1>1, <2>1, <2>2
    <2>6. QED
      BY <2>1, <2>2, <2>3, <2>4, <2>5
  <1>5. \A v \in Workers : \A h \in 1 .. depth'[v] :
          /\ frames'[v][h].kind = frames[v][h].kind
          /\ frames'[v][h].lo = frames[v][h].lo /\ frames'[v][h].hi = frames[v][h].hi
          /\ frames'[v][h].at = IF v = w /\ h = D - 1 THEN k.at ELSE frames[v][h].at
    BY <1>3, <1>4
  <1>6. TypeInv'
    BY <1>1, <1>2 DEF TypeInv, IInv
  <1>7. InParfor' /\ depth'[0] \in Nat /\ depth'[0] > 1 /\ frames'[0][1] = frames[0][1]
    <2>1. w = 0 => D - 1 # 1
      BY <1>1, <1>4 DEF IInv, StackInv
    <2>2. /\ depth[0] \in Nat /\ depth[0] > 1
          /\ depth'[0] = IF w = 0 THEN depth[0] - 1 ELSE depth[0]
      BY <1>1, <1>2, <1>4 DEF InParfor
    <2>3. depth'[0] \in Nat /\ depth'[0] > 1
      BY <1>1, <1>4, <2>1, <2>2
    <2>4. 1 \in 1 .. depth'[0]
      BY <2>3
    <2>5. QED
      BY <1>2, <1>4, <2>1, <2>3, <2>4 DEF InParfor
  <1>8. MainInv'
    <2>1. ~MainAt("measure")' /\ ~MainAt("returned")' /\ ~MainAt("call")' /\ ~MainAt("join")'
      BY <1>7 DEF MainAt
    <2>2. /\ LoopRuns /\ granularity >= 1
          /\ frames[0][1].lo <= NumIterations /\ Done(0, frames[0][1].lo)
      BY <1>1 DEF IInv, MainInv
    <2>3. QED
      BY <1>2, <1>7, <2>1, <2>2 DEF MainInv, LoopRuns, Done
  <1>9. StackInv'
    <2>1. ASSUME NEW v \in Workers, NEW h \in 1 .. depth'[v]
          PROVE  /\ IF h = depth'[v] THEN Innermost(frames'[v][h])
                    ELSE Calling(frames'[v][h]) /\ Called(frames[v][h + 1], frames[v][h])'
                 /\ frames'[v][h].kind = "main" <=> v = 0 /\ h = 1
                 /\ frames'[v][h].kind = "worker" <=> v # 0 /\ h = 1
      <3>1. /\ h \in 1 .. depth[v] /\ frames'[v][h].kind = frames[v][h].kind
            /\ IF h = depth[v] THEN Innermost(frames[v][h])
                  ELSE Calling(frames[v][h]) /\ Called(frames[v][h + 1], frames[v][h])
            /\ frames[v][h].kind = "main" <=> v = 0 /\ h = 1
            /\ frames[v][h].kind = "worker" <=> v # 0 /\ h = 1
        BY <1>4, <1>5 DEF StackInv, IInv
      <3>2. ASSUME h = depth'[v] PROVE Innermost(frames'[v][h])
        <4>1. CASE v = w
          BY <1>3, <1>4, <3>2, <4>1 DEF Innermost
        <4>2. CASE v # w
          BY <1>4, <3>1, <3>2, <4>2
        <4>3. QED
          BY <4>1, <4>2
      <3>3. ASSUME h # depth'[v]
            PROVE  Calling(frames'[v][h]) /\ Called(frames[v][h + 1], frames[v][h])'
        <4>1. /\ h + 1 \in 1 .. depth'[v] /\ h # depth[v] /\ depth[v] \in Nat
              /\ v # w \/ h # D - 1
          BY <1>0, <1>1, <1>4, <3>1, <3>3
        <4>2. /\ frames'[v][h] = frames[v][h]
              /\ frames'[v][h + 1].kind = frames[v][h + 1].kind
              /\ frames'[v][h + 1].lo = frames[v][h + 1].lo
              /\ frames'[v][h + 1].hi = frames[v][h + 1].hi
              /\ frames'[v][h + 1].at # "body" => frames[v][h + 1].at # "body"
          BY <1>3, <1>4, <1>5, <4>1
        <4>3. Calling(frames[v][h]) /\ Called(frames[v][h + 1], frames[v][h])
          BY <3>1, <4>1
        <4>4. QED
          BY <1>2, <4>2, <4>3 DEF Called, CalledLo, CalledHi, Done, Mid
      <3>4. QED
        BY <3>1, <3>2, <3>3
    <2>2. QED
      BY <2>1 DEF StackInv, Innermost, Calling
  <1>10. FrameInv'
    <2>1. FrameOK(k)'
      <3>1. FrameOK(g)
        BY <1>4 DEF FrameInv, IInv
      <3>2. CASE g.at = "left"
        BY <1>1, <1>2, <1>3, <3>1, <3>2 DEF FrameOK, CalledLo, CalledHi, Done
      <3>3. CASE g.at = "right"
        <4>1. /\ g.kind = "range" /\ g.hi - g.lo > granularity
              /\ Done(g.lo, Mid(g.lo, g.hi)) /\ Done(Mid(g.lo, g.hi), g.hi)
          BY <1>1, <1>3, <3>1, <3>3 DEF FrameOK, CalledLo, CalledHi
        <4>2. Mid(g.lo, g.hi) \in Nat
          BY <1>4, <4>1, RangeMid
        <4>3. Done(g.lo, g.hi)
          BY <1>3, <4>1, <4>2, RangesJoin
        <4>4. QED
          BY <1>2, <1>3, <3>1, <3>3, <4>1, <4>3 DEF FrameOK, Done
      <3>4. CASE g.kind = "job"
        BY <1>1, <1>2, <1>3, <3>1, <3>4 DEF FrameOK, CalledLo, CalledHi, Done
      <3>5. QED
        BY <1>3, <3>2, <3>3, <3>4
    <2>2. ASSUME NEW v \in Workers, NEW h \in 1 .. depth'[v]
          PROVE  FrameOK(frames[v][h])'
      <3>1. CASE v = w /\ h = D - 1
        <4>1. frames'[v][h] = k
          BY <1>4, <3>1
        <4>2. QED
          BY <2>1, <4>1 DEF FrameOK
      <3>2. CASE v # w \/ h # D - 1
        <4>1. FrameOK(frames[v][h]) /\ frames'[v][h] = frames[v][h]
          BY <1>4, <3>2 DEF FrameInv, IInv
        <4>2. QED
          BY <1>2, <4>1 DEF FrameOK, Done, Mid
      <3>3. QED
        BY <3>1, <3>2
    <2>3. QED
      BY <2>2 DEF FrameInv
  <1>11. \A v \in Workers : HasPiece(v)' => v # w /\ HasPiece(v) /\ Inner(v)' = Inner(v)
    <2>1. ~HasPiece(w)'
      BY <1>3, <1>4 DEF HasPiece, IsPiece, Inner
    <2>2. ASSUME NEW v \in Workers, v # w, HasPiece(v)'
          PROVE  HasPiece(v) /\ Inner(v)' = Inner(v)
      <3>1. depth[v] \in 1 .. depth'[v] /\ depth'[v] = depth[v]
        BY <1>4, <2>2 DEF HasPiece
      <3>2. Inner(v)' = Inner(v)
        BY <1>4, <2>2, <3>1 DEF Inner
      <3>3. QED
        BY <1>4, <2>2, <3>2 DEF HasPiece, IsPiece
    <2>3. QED
      BY <2>1, <2>2
  <1>12. \A v \in Workers :
           HasPiece(v) /\ Inner(v).lo < Inner(v).hi => HasPiece(v)' /\ Inner(v)' = Inner(v)
    <2>1. ASSUME NEW v \in Workers, HasPiece(v), Inner(v).lo < Inner(v).hi
          PROVE  HasPiece(v)' /\ Inner(v)' = Inner(v)
      <3>1. v # w
        BY <1>0, <1>1, <2>1
      <3>2. depth[v] \in 1 .. depth'[v] /\ depth'[v] = depth[v]
        BY <1>4, <2>1, <3>1 DEF HasPiece
      <3>3. Inner(v)' = Inner(v)
        BY <1>4, <3>1, <3>2 DEF Inner
      <3>4. QED
        BY <1>4, <2>1, <3>2, <3>3 DEF HasPiece, IsPiece
    <2>2. QED
      BY <2>1
  <1>13. PieceInv' /\ SlotInv'
    <2>1. PieceInv'
      BY <1>2, <1>11 DEF PieceInv, IInv, Apart, Todo
    <2>2. SlotInv'
      BY <1>2, <1>11 DEF SlotInv, IInv, Apart, Todo
    <2>3. QED
      BY <2>1, <2>2
  <1>14. \A v \in Workers : \A h \in 1 .. depth'[v] :
           IsJob(v, h)' =>
             h \in 1 .. depth[v] /\ IsJob(v, h) /\ JobOf(frames[v][h])' = JobOf(frames[v][h])
    BY <1>2, <1>4, <1>5 DEF IsJob, JobOf
  <1>15. JobInv'
    <2>1. ASSUME NEW v \in Workers, NEW h \in 1 .. depth'[v], IsJob(v, h)'
          PROVE  /\ JobOf(frames[v][h])' \notin finished'
                 /\ frames'[v][h].at = "running" =>
                      \/ Done(frames[v][h].lo, frames[v][h].lo + 1)'
                      \/ /\ HasPiece(v)' /\ Inner(v)'.lo = frames'[v][h].lo
                         /\ Inner(v)'.lo < Inner(v)'.hi
      <3>1. /\ JobOf(frames[v][h]) \notin finished
            /\ frames[v][h].at = "running" =>
                    \/ Done(frames[v][h].lo, frames[v][h].lo + 1)
                    \/ /\ HasPiece(v) /\ Inner(v).lo = frames[v][h].lo
                       /\ Inner(v).lo < Inner(v).hi
        BY <1>14, <2>1 DEF JobInv, IInv
      <3>2. frames'[v][h].at = "running" => frames[v][h].at = "running"
        BY <1>3, <1>5
      <3>3. frames'[v][h].lo = frames[v][h].lo
        BY <1>5
      <3>4. JobOf(frames[v][h])' \notin finished'
        BY <1>2, <1>14, <2>1, <3>1
      <3>5. QED
        BY <1>2, <1>12, <3>1, <3>2, <3>3, <3>4 DEF Done
    <2>2. ASSUME NEW u \in Workers, NEW v \in Workers,
                 NEW h \in 1 .. depth'[u], NEW e \in 1 .. depth'[v],
                 IsJob(u, h)', IsJob(v, e)', JobOf(frames[u][h])' = JobOf(frames[v][e])'
          PROVE  u = v /\ h = e
      BY <1>14, <2>2 DEF JobInv, IInv
    <2>3. QED
      BY <2>1, <2>2 DEF JobInv
  <1>16. FinishedInv'
    <2>1. MainAt("returned") => FALSE
      BY <1>1, <1>2, <1>4 DEF MainAt, InParfor
    <2>2. QED
      BY <1>2, <1>7, <2>1 DEF FinishedInv, IInv, Done
  <1>17. Undisturbed
    <2>1. \A v \in Workers : \A h \in 1 .. depth'[v] :
            /\ Owns(v, h)' <=> Owns(v, h)
            /\ RightJob(frames[v][h])' = RightJob(frames[v][h])
            /\ AtFork(frames'[v][h]) <=> AtFork(frames[v][h])
            /\ Waiting(frames'[v][h]) => Waiting(frames[v][h])
            /\ IsJob(v, h)' <=> IsJob(v, h)
            /\ JobOf(frames[v][h])' = JobOf(frames[v][h])
      <3>1. ASSUME NEW v \in Workers, NEW h \in 1 .. depth'[v]
            PROVE  /\ Owns(v, h)' <=> Owns(v, h)
                   /\ AtFork(frames'[v][h]) <=> AtFork(frames[v][h])
                   /\ Waiting(frames'[v][h]) => Waiting(frames[v][h])
                   /\ IsJob(v, h)' <=> IsJob(v, h)
        BY <1>3, <1>4 DEF Owns, OwnsJob, AtFork, Waiting, IsJob
      <3>2. ASSUME NEW v \in Workers, NEW h \in 1 .. depth'[v]
            PROVE  /\ RightJob(frames[v][h])' = RightJob(frames[v][h])
                   /\ JobOf(frames[v][h])' = JobOf(frames[v][h])
        BY <1>2, <1>5 DEF RightJob, JobOf, Mid
      <3>3. QED
        BY <3>1, <3>2
    <2>2. ~Owns(w, D) /\ ~IsJob(w, D)
      BY <1>1, <1>4 DEF Owns, OwnsJob, IsJob
    <2>3. ASSUME NEW i, Started(i)
          PROVE  Started(i)'
      <3>1. PICK v \in Workers : \E h \in 1 .. depth[v] : IsJob(v, h) /\ JobOf(frames[v][h]) = i
        BY <2>3 DEF Started
      <3>2. PICK h \in 1 .. depth[v] : IsJob(v, h) /\ JobOf(frames[v][h]) = i
        BY <3>1
      <3>3. h \in 1 .. depth'[v]
        BY <1>4, <2>2, <3>2
      <3>4. IsJob(v, h)' /\ JobOf(frames[v][h])' = i
        BY <2>1, <3>2, <3>3
      <3>5. QED
        BY <3>3, <3>4 DEF Started
    <2>4. QED
      BY <1>4, <2>1, <2>2, <2>3 DEF Undisturbed
  <1>18. OwnerInv' /\ AliveInv' /\ OwnedInv' /\ DequeInv'
    BY <1>2, <1>17, JobsUndisturbed
  <1>19. NestInv'
    <2>1. ASSUME NEW v \in Workers, NEW h \in 1 .. depth'[v], frames'[v][h].kind = "range"
          PROVE  \E e \in 1 .. h - 1 :
                   \/ frames'[v][e].kind = "main"
                   \/ /\ IsJob(v, e)'
                      /\ frames'[v][e].lo <= frames'[v][h].lo
                      /\ frames'[v][h].hi <= frames'[v][e].hi
      <3>1. h \in 1 .. depth[v] /\ frames[v][h].kind = "range"
        BY <1>4, <1>5, <2>1
      <3>2. PICK e \in 1 .. h - 1 :
                   \/ frames[v][e].kind = "main"
                   \/ /\ IsJob(v, e)
                      /\ frames[v][e].lo <= frames[v][h].lo
                      /\ frames[v][h].hi <= frames[v][e].hi
        BY <3>1 DEF NestInv, IInv
      <3>3. e \in 1 .. depth'[v]
        <4>1. depth'[v] \in Int
          BY <1>4
        <4>2. QED
          BY <4>1
      <3>4. QED
        BY <1>5, <3>2, <3>3 DEF IsJob
    <2>2. QED
      BY <2>1 DEF NestInv
  <1>20. QED
    BY <1>6, <1>8, <1>9, <1>10, <1>13, <1>15, <1>16, <1>18, <1>19 DEF IInv

--------------------------------------------------------------------------------
(* The loop is over.                                                           *)

\* Every nonempty set of naturals has a least element.
LEMMA LeastNatural ==
  ASSUME NEW S \in SUBSET Nat, S # {}
  PROVE  \E n \in S : \A m \in S : n <= m
  <1> DEFINE R == OpToRel(<, Nat)
  <1>1. IsWellFoundedOn(R, Nat)
    BY NatLessThanWellFounded
  <1> HIDE DEF R
  <1>2. PICK n \in S : \A m \in S : ~(<<m, n>> \in R)
    BY <1>1, WFMin
  <1>3. \A m \in S : m < n => <<m, n>> \in R
    BY DEF R, OpToRel
  <1>4. \A m \in S : m \in Nat /\ ~(m < n)
    BY <1>2, <1>3
  <1>5. QED
    BY <1>4

\* When the main thread is at the bottom of its range, and owns nothing, no job
\* is left: the largest one would have an owner in a job that is larger.
LEMMA NoJobLeft ==
  ASSUME IInv, InParfor, depth[0] = 2, ~Owns(0, 2), ~IsJob(0, 2),
         NEW v \in Workers, NEW h \in 1 .. depth[v], IsJob(v, h)
  PROVE  FALSE
  <1>1. /\ NumIterations \in Nat /\ granularity >= 1 /\ granularity \in Nat
        /\ \A u \in Workers : depth[u] \in Nat
        /\ \A u \in Workers : \A e \in 1 .. depth[u] :
             frames[u][e].lo \in Nat /\ frames[u][e].hi \in Nat
    BY IterationsAreNat, Views DEF IInv, MainInv, TypeInv, FrameType
  <1> DEFINE Left0(u, e) == NumIterations - (frames[u][e].hi - frames[u][e].lo)
             S == {n \in Nat : \E u \in Workers : \E e \in 1 .. depth[u] :
                                  IsJob(u, e) /\ n = Left0(u, e)}
  <1>2. \A u \in Workers : \A e \in 1 .. depth[u] :
          IsJob(u, e) => /\ frames[u][e].lo < frames[u][e].hi
                         /\ frames[u][e].hi <= NumIterations
                         /\ Left0(u, e) \in Nat
    <2>1. \A u \in Workers : \A e \in 1 .. depth[u] :
            IsJob(u, e) => /\ frames[u][e].lo < frames[u][e].hi
                           /\ frames[u][e].hi <= NumIterations
      BY DEF IInv, FrameInv, FrameOK, IsJob
    <2>2. QED
      BY <1>1, <2>1
  <1>3. S \in SUBSET Nat /\ S # {}
    BY <1>2
  <1>4. PICK m \in S : \A n \in S : m <= n
    BY <1>3, LeastNatural
  <1>5. PICK x \in Workers : \E i \in 1 .. depth[x] : IsJob(x, i) /\ m = Left0(x, i)
    BY <1>4
  <1>6. PICK i \in 1 .. depth[x] : IsJob(x, i) /\ m = Left0(x, i)
    BY <1>5
  <1>7. \A u \in Workers : \A e \in 1 .. depth[u] : IsJob(u, e) => Left0(x, i) <= Left0(u, e)
    BY <1>2, <1>4, <1>6
  <1>8. PICK u \in Workers : \E e \in 1 .. depth[u] :
               Owns(u, e) /\ RightJob(frames[u][e]) = JobOf(frames[x][i])
    BY <1>6 DEF IInv, AliveInv, Alive
  <1>9. PICK e \in 1 .. depth[u] :
               Owns(u, e) /\ RightJob(frames[u][e]) = JobOf(frames[x][i])
    BY <1>8
  <1>10. /\ frames[u][e].kind = "range"
         /\ frames[u][e].hi - frames[u][e].lo > granularity
         /\ Mid(frames[u][e].lo, frames[u][e].hi) = frames[x][i].lo
         /\ frames[u][e].hi = frames[x][i].hi
    BY <1>9 DEF IInv, FrameInv, FrameOK, Owns, OwnsJob, RightJob, JobOf, Job
  <1>11. frames[u][e].lo < frames[x][i].lo
    BY <1>10, RangeMid
  <1>12. u # 0
    <2>1. u = 0 => e \in {1, 2}
      BY <1>1
    <2>2. u = 0 /\ e = 1 => frames[u][e].kind = "main"
      BY DEF IInv, StackInv
    <2>3. QED
      BY <1>9, <1>10, <2>1, <2>2
  <1>13. PICK g \in 1 .. e - 1 :
           \/ frames[u][g].kind = "main"
           \/ /\ IsJob(u, g)
              /\ frames[u][g].lo <= frames[u][e].lo /\ frames[u][e].hi <= frames[u][g].hi
    BY <1>10 DEF IInv, NestInv
  <1>14. g \in 1 .. depth[u]
    BY <1>1
  <1>15. frames[u][g].kind # "main"
    BY <1>12, <1>14 DEF IInv, StackInv
  <1>16. Left0(x, i) <= Left0(u, g)
    BY <1>7, <1>13, <1>14, <1>15
  <1>17. QED
    BY <1>1, <1>10, <1>11, <1>13, <1>14, <1>15, <1>16

\* When every iteration has been executed and the main thread is about to
\* leave its range, nobody else has anything to do.
LEMMA LoopIsOver ==
  ASSUME IInv, InParfor, depth[0] = 2, ~Owns(0, 2), ~IsJob(0, 2), Done(0, NumIterations)
  PROVE  /\ \A v \in Workers : v # 0 => depth[v] <= 1
         /\ \A d \in Deques : deques[d] = <<>>
  <1>1. ASSUME NEW v \in Workers, v # 0
        PROVE  depth[v] <= 1
    <2>1. SUFFICES ASSUME depth[v] > 1
                   PROVE  FALSE
      BY Views DEF IInv
    <2>2. 2 \in 1 .. depth[v] /\ 1 \in 1 .. depth[v]
      BY <2>1, Views DEF IInv
    <2>3. frames[v][2].kind \in {"range", "job"}
      <3>1. frames[v][2].kind # "main" /\ frames[v][2].kind # "worker"
        BY <1>1, <2>2 DEF IInv, StackInv
      <3>2. frames[v][2] \in FrameType
        BY <2>2, Views DEF IInv
      <3>3. QED
        BY <3>1, <3>2 DEF FrameType
    <2>4. ~IsJob(v, 2) /\ ~IsJob(v, 1)
      BY <2>2, NoJobLeft
    <2>5. PICK g \in 1 .. 2 - 1 : frames[v][g].kind = "main" \/ IsJob(v, g)
      BY <2>2, <2>3, <2>4 DEF IInv, NestInv, IsJob
    <2>6. g = 1
      OBVIOUS
    <2>7. frames[v][1].kind # "main"
      BY <1>1, <2>2 DEF IInv, StackInv
    <2>8. QED
      BY <2>4, <2>5, <2>6, <2>7
  <1>2. ASSUME NEW d \in Deques
        PROVE  deques[d] = <<>>
    <2>1. SUFFICES ASSUME deques[d] # <<>>
                   PROVE  FALSE
      OBVIOUS
    <2>2. deques[d] \in Seq(JobType)
      BY DEF IInv, TypeInv
    <2>3. 1 \in 1 .. Len(deques[d])
      BY <2>1, <2>2, EmptySeq, LenProperties
    <2>4. LET j == deques[d][1]
          IN  /\ j.lo \in Nat /\ j.hi \in Nat /\ j.lo < j.hi
              /\ j.hi <= NumIterations /\ Todo(j.lo, j.hi)
      BY <2>3, SlotNotStarted
    <2>5. NumIterations \in Nat
      BY IterationsAreNat
    <2>6. QED
      BY <2>4, <2>5 DEF Done, Todo
  <1>3. QED
    BY <1>1, <1>2

\* The parts of the invariant that say nothing while nobody has anything to do.
QuietInv ==
  /\ FrameInv /\ PieceInv /\ SlotInv /\ JobInv
  /\ AliveInv /\ OwnerInv /\ OwnedInv /\ DequeInv /\ NestInv

\* They hold when the stacks have at most the frame they start with.
LEMMA QuietState ==
  TypeInv /\ StackInv /\ Quiet => QuietInv
  <1> SUFFICES ASSUME TypeInv, StackInv, Quiet
               PROVE  QuietInv
    OBVIOUS
  <1>1. /\ \A w \in Workers : depth[w] \in Nat /\ \A h \in 1 .. depth[w] : h = 1
        /\ \A w \in Workers : \A h \in 1 .. depth[w] : frames[w][h].kind \in {"main", "worker"}
        /\ \A d \in Deques : deques[d] = <<>> /\ \A k \in 1 .. Len(deques[d]) : FALSE
    <2>1. ASSUME NEW w \in Workers
          PROVE  depth[w] \in Nat /\ \A h \in 1 .. depth[w] : h = 1
      BY Views DEF Quiet
    <2>2. ASSUME NEW w \in Workers, NEW h \in 1 .. depth[w]
          PROVE  frames[w][h].kind \in {"main", "worker"}
      BY <2>1 DEF StackInv
    <2>3. ASSUME NEW d \in Deques
          PROVE  deques[d] = <<>> /\ \A k \in 1 .. Len(deques[d]) : FALSE
      <3>1. Len(<<>>) = 0
        BY EmptySeq
      <3>2. QED
        BY <3>1 DEF Quiet
    <2>4. QED
      BY <2>1, <2>2, <2>3
  <1>2. \A w \in Workers : ~HasPiece(w)
    <2>1. \A w \in Workers : depth[w] > 0 => depth[w] \in 1 .. depth[w]
      BY <1>1
    <2>2. QED
      BY <1>1, <2>1 DEF HasPiece, IsPiece, Inner
  <1>3. \A w \in Workers : \A h \in 1 .. depth[w] :
          /\ ~IsJob(w, h) /\ ~Owns(w, h) /\ frames[w][h].kind \notin {"range", "job"}
    BY <1>1 DEF IsJob, Owns, OwnsJob
  <1>4. FrameInv
    BY <1>3 DEF FrameInv, FrameOK
  <1>5. PieceInv
    BY <1>2 DEF PieceInv
  <1>6. SlotInv
    BY <1>1 DEF SlotInv
  <1>7. JobInv
    BY <1>3 DEF JobInv
  <1>8. AliveInv
    BY <1>1, <1>3 DEF AliveInv
  <1>9. OwnerInv
    BY <1>3 DEF OwnerInv
  <1>10. OwnedInv
    BY <1>3 DEF OwnedInv
  <1>11. DequeInv
    <2>1. \A d \in Deques \ Workers : deques[d] = <<>>
      BY <1>1
    <2>2. Workers \subseteq Deques
      BY NumThreadsAssumption DEF Workers, Deques
    <2>3. QED
      BY <1>1, <2>1, <2>2 DEF DequeInv
  <1>12. NestInv
    BY <1>3 DEF NestInv
  <1>13. QED
    BY <1>4, <1>5, <1>6, <1>7, <1>8, <1>9, <1>10, <1>11, <1>12 DEF QuietInv

\* The same of the state after a step.
LEMMA QuietAfter == TypeInv' /\ StackInv' /\ Quiet' => QuietInv'
  BY QuietState, PTL

--------------------------------------------------------------------------------
(* The main thread between the calls of parfor_.                               *)

\* The last range returns to the main thread.
LEMMA OuterReturnStep ==
  ASSUME IInv, NEW w \in Workers, RangeReturns(w), frames[w][depth[w] - 1].kind = "main"
  PROVE  IInv'
  <1>0. PICK g \in FrameType, k \in FrameType :
               g = frames[w][depth[w] - 1] /\ k = [g EXCEPT !.at = After(g)]
    <2>1. frames[w][depth[w] - 1] \in FrameType
      BY RangeDone
    <2>2. LET g == frames[w][depth[w] - 1] IN [g EXCEPT !.at = After(g)] \in FrameType
      BY <2>1 DEF FrameType, After
    <2>3. QED
      BY <2>1, <2>2
  <1>1. /\ depth[w] \in Nat /\ depth[w] > 1 /\ InParfor /\ Running(w)
        /\ Inner(w).kind = "range" /\ Inner(w).at \in {"return", "body"}
        /\ Calling(g) /\ Done(CalledLo(g), CalledHi(g))
        /\ stack' \in [Workers -> Seq(FrameType)] /\ Returned(w, k)
        /\ UNCHANGED <<deques, finished, finishedFlag, loop, granularity, runs>>
    BY <1>0, RangeDone
  <1>2. w = 0 /\ depth[0] = 2
    <2>1. depth[w] - 1 \in 1 .. depth[w]
      BY <1>1
    <2>2. w = 0 /\ depth[w] - 1 = 1
      BY <2>1 DEF IInv, StackInv
    <2>3. QED
      BY <1>1, <2>2
  <1>3. g.at = "parfor" /\ g.kind = "main" /\ k.kind = "main" /\ k.at = "returned"
    <2>1. g.kind = "main" /\ g.at = "parfor"
      BY <1>0, <1>1 DEF Calling
    <2>2. QED
      BY <1>0, <2>1 DEF FrameType, After
  <1>4. Done(0, NumIterations) /\ LoopRuns
    <2>1. g = frames[0][1]
      BY <1>0, <1>2
    <2>2. LoopRuns /\ Done(0, g.lo) /\ g.lo <= NumIterations
      BY <1>1, <2>1 DEF IInv, MainInv
    <2>3. Done(g.lo, NumIterations)
      BY <1>1, <1>3 DEF CalledLo, CalledHi
    <2>4. g.lo \in Nat /\ NumIterations \in Nat
      BY <1>1, IterationsAreNat DEF FrameType
    <2>5. QED
      BY <2>2, <2>3, <2>4, RangesJoin
  <1>5. ~Owns(0, 2) /\ ~IsJob(0, 2)
    BY <1>1, <1>2 DEF Owns, OwnsJob, IsJob, Inner
  <1>6. /\ \A v \in Workers : v # 0 => depth[v] <= 1
        /\ \A d \in Deques : deques[d] = <<>>
    BY <1>1, <1>2, <1>4, <1>5, LoopIsOver
  <1>7. /\ depth'[0] = 1 /\ frames'[0][1] = k
        /\ \A v \in Workers : v # 0 =>
             depth'[v] = depth[v] /\ \A h \in 1 .. depth[v] : frames'[v][h] = frames[v][h]
    BY <1>1, <1>2 DEF Returned, Kept
  <1>8. Quiet' /\ ~InParfor'
    BY <1>1, <1>6, <1>7 DEF Quiet, InParfor
  <1>9. TypeInv'
    BY <1>1 DEF TypeInv, IInv
  <1>10. StackInv'
    <2>1. ASSUME NEW v \in Workers, NEW h \in 1 .. depth'[v]
          PROVE  /\ IF h = depth'[v] THEN Innermost(frames'[v][h])
                    ELSE Calling(frames'[v][h]) /\ Called(frames[v][h + 1], frames[v][h])'
                 /\ frames'[v][h].kind = "main" <=> v = 0 /\ h = 1
                 /\ frames'[v][h].kind = "worker" <=> v # 0 /\ h = 1
      <3>1. CASE v = 0
        BY <1>3, <1>7, <3>1 DEF Innermost
      <3>2. CASE v # 0
        <4>1. h \in 1 .. depth[v] /\ frames'[v][h] = frames[v][h] /\ depth'[v] = depth[v]
          BY <1>7, <3>2
        <4>2. depth[v] \in Nat
          BY Views DEF IInv
        <4>3. h = depth[v]
          BY <1>6, <3>2, <4>1, <4>2
        <4>4. QED
          BY <3>2, <4>1, <4>3 DEF IInv, StackInv
      <3>3. QED
        BY <3>1, <3>2
    <2>2. QED
      BY <2>1 DEF StackInv, Innermost, Calling
  <1>11. MainInv'
    <2>1. MainAt("returned")' /\ ~MainAt("measure")' /\ ~MainAt("call")' /\ ~MainAt("join")'
      BY <1>3, <1>7 DEF MainAt
    <2>2. LoopRuns' /\ Done(0, NumIterations)'
      BY <1>1, <1>4 DEF LoopRuns, Done, NumIterations
    <2>3. QED
      BY <1>7, <1>8, <2>1, <2>2 DEF MainInv
  <1>12. FinishedInv'
    <2>1. MainAt("returned")'
      BY <1>3, <1>7 DEF MainAt
    <2>2. QED
      BY <1>1, <2>1 DEF IInv, FinishedInv, Done
  <1>13. QED
    BY <1>8, <1>9, <1>10, <1>11, <1>12, QuietAfter DEF IInv, QuietInv

\* While the main thread is at its own code it is alone.
LEMMA MainAlone ==
  ASSUME IInv, NEW at, At(0, "main", at)
  PROVE  /\ depth[0] = 1 /\ MainAt(at) /\ Running(0) /\ ~InParfor /\ Quiet
         /\ Top(0) = frames[0][1] /\ Top(0) \in FrameType
         /\ Top(0).kind = "main" /\ Top(0).at = at
         /\ TypeInv /\ MainInv /\ StackInv /\ FinishedInv
  <1>1. /\ 0 \in Workers /\ Running(0) /\ Top(0).kind = "main" /\ Top(0).at = at
    BY ZeroIsWorker DEF At
  <1>2. /\ depth[0] \in 1 .. depth[0] /\ Top(0) = frames[0][depth[0]] /\ Top(0) \in FrameType
    BY <1>1, InnerFrame
  <1>3. depth[0] = 1
    BY <1>1, <1>2 DEF IInv, StackInv
  <1>4. ~InParfor /\ Quiet
    BY <1>3 DEF InParfor, IInv, MainInv
  <1>5. QED
    BY <1>1, <1>2, <1>3, <1>4 DEF MainAt, IInv

\* No job of the current loop is finished before its parfor_.
LEMMA NoneFinished ==
  ASSUME IInv, NEW at, At(0, "main", at), at # "returned"
  PROVE  \A j \in finished : j.loop <= loop /\ j.loop # loop
  <1>1. ~InParfor /\ depth[0] = 1 /\ frames[0][1].at = at /\ FinishedInv
    BY MainAlone DEF MainAt
  <1>2. QED
    BY <1>1 DEF FinishedInv, MainAt

\* The main thread goes on at g, and is still alone.
LEMMA MainMoves ==
  ASSUME IInv, NEW at, At(0, "main", at), NEW g \in FrameType, g.kind = "main", Innermost(g),
         Become(0, <<g>>), deques' = deques
  PROVE  /\ stack' \in [Workers -> Seq(FrameType)]
         /\ depth'[0] = 1 /\ frames'[0][1] = g
         /\ StackInv' /\ Quiet' /\ ~InParfor'
  <1>1. /\ 0 \in Workers /\ depth[0] = 1 /\ Running(0) /\ Quiet /\ StackInv /\ TypeInv
    BY MainAlone, ZeroIsWorker
  <1>2. stack' \in [Workers -> Seq(FrameType)] /\ Rewritten(0, g)
    BY <1>1, Rewriting
  <1>3. /\ depth'[0] = 1 /\ frames'[0][1] = g
        /\ \A v \in Workers : v # 0 =>
             depth'[v] = depth[v] /\ \A h \in 1 .. depth[v] : frames'[v][h] = frames[v][h]
    BY <1>1, <1>2 DEF Rewritten, Kept
  <1>4. Quiet' /\ ~InParfor'
    BY <1>1, <1>3 DEF Quiet, InParfor
  <1>5. StackInv'
    <2>1. ASSUME NEW v \in Workers, NEW h \in 1 .. depth'[v]
          PROVE  /\ IF h = depth'[v] THEN Innermost(frames'[v][h])
                    ELSE Calling(frames'[v][h]) /\ Called(frames[v][h + 1], frames[v][h])'
                 /\ frames'[v][h].kind = "main" <=> v = 0 /\ h = 1
                 /\ frames'[v][h].kind = "worker" <=> v # 0 /\ h = 1
      <3>1. CASE v = 0
        BY <1>3, <3>1 DEF Innermost
      <3>2. CASE v # 0
        <4>1. h \in 1 .. depth[v] /\ frames'[v][h] = frames[v][h] /\ depth'[v] = depth[v]
          BY <1>3, <3>2
        <4>2. depth[v] \in Nat /\ depth[v] <= 1
          BY <1>1, Views DEF Quiet
        <4>3. h = depth[v]
          BY <4>1, <4>2
        <4>4. QED
          BY <1>1, <3>2, <4>1, <4>3 DEF StackInv
      <3>3. QED
        BY <3>1, <3>2
    <2>2. QED
      BY <2>1 DEF StackInv, Innermost, Calling
  <1>6. QED
    BY <1>2, <1>3, <1>4, <1>5

\* parallel_for is called: nothing is executed yet.
LEMMA CallParforStep ==
  ASSUME IInv, CallParfor
  PROVE  IInv'
  <1>1. At(0, "main", "call") /\ loop <= Len(Loops)
    BY DEF CallParfor
  <1>2. TypeInv /\ Top(0) \in FrameType /\ Top(0).kind = "main"
    BY <1>1, MainAlone
  <1>3. loop \in 1 .. Len(Loops) /\ NumIterations \in Nat
    BY <1>1, <1>2, LoopsAssumption, ElementOfSeq DEF TypeInv, NumIterations
  <1>4. PICK g \in FrameType :
          /\ Become(0, <<g>>) /\ g.kind = "main"
          /\ g.at = IF NumIterations = 0 THEN "returned" ELSE "measure"
          /\ NumIterations # 0 => g.lo = 0 /\ g.hi = 1
    <2>1. CASE NumIterations = 0
      <3>1. Goto(0, "returned") \in FrameType /\ Goto(0, "returned").kind = "main"
            /\ Goto(0, "returned").at = "returned"
        BY <1>2 DEF Goto, FrameType
      <3>2. Become(0, <<Goto(0, "returned")>>)
        BY <2>1 DEF CallParfor
      <3>3. QED
        BY <2>1, <3>1, <3>2
    <2>2. CASE NumIterations # 0
      <3>1. Become(0, <<Frame("main", "measure", 0, 1)>>)
        BY <2>2 DEF CallParfor
      <3>2. Frame("main", "measure", 0, 1) \in FrameType
        BY DEF Frame, FrameType
      <3>3. QED
        BY <2>2, <3>1, <3>2 DEF Frame
    <2>3. QED
      BY <2>1, <2>2
  <1>5. /\ stack' \in [Workers -> Seq(FrameType)]
        /\ depth'[0] = 1 /\ frames'[0][1] = g
        /\ StackInv' /\ Quiet' /\ ~InParfor'
    <2>1. Innermost(g) /\ deques' = deques
      BY <1>4 DEF Innermost, CallParfor
    <2>2. QED
      BY <1>1, <1>4, <2>1, MainMoves
  <1>6. /\ UNCHANGED <<deques, finished, finishedFlag, loop, granularity>>
        /\ NumIterations' = NumIterations
        /\ DOMAIN runs' = 0 .. NumIterations - 1
        /\ \A i \in 0 .. NumIterations - 1 : runs'[i] = 0
        /\ runs' \in [DOMAIN runs' -> {0, 1}]
    BY DEF CallParfor, NumIterations, NoRuns
  <1>7. TypeInv'
    BY <1>2, <1>5, <1>6 DEF TypeInv
  <1>8. MainInv'
    <2>1. LoopRuns'
      BY <1>3, <1>6 DEF LoopRuns
    <2>2. ~MainAt("call")' /\ ~MainAt("join")'
      BY <1>4, <1>5 DEF MainAt
    <2>3. ASSUME MainAt("measure")'
          PROVE  /\ frames'[0][1].lo <= frames'[0][1].hi
                 /\ 1 <= frames'[0][1].hi /\ frames'[0][1].hi <= NumIterations'
                 /\ Done(0, frames[0][1].lo)' /\ Todo(frames[0][1].lo, NumIterations)'
      <3>1. NumIterations # 0 /\ g.lo = 0 /\ g.hi = 1
        BY <1>4, <1>5, <2>3 DEF MainAt
      <3>2. QED
        BY <1>3, <1>5, <1>6, <3>1 DEF Done, Todo
    <2>4. ASSUME MainAt("returned")'
          PROVE  Done(0, NumIterations)'
      <3>1. NumIterations = 0
        BY <1>4, <1>5, <2>4 DEF MainAt
      <3>2. QED
        BY <1>6, <3>1 DEF Done
    <2>5. QED
      BY <1>5, <2>1, <2>2, <2>3, <2>4 DEF MainInv
  <1>9. FinishedInv'
    BY <1>1, <1>6, NoneFinished DEF FinishedInv
  <1>10. QED
    BY <1>5, <1>7, <1>8, <1>9, QuietAfter DEF IInv, QuietInv

\* An iteration of get_granularity.
LEMMA MeasureStep ==
  ASSUME IInv, Measure
  PROVE  IInv'
  <1>1. At(0, "main", "measure") /\ Top(0).lo < Top(0).hi
    BY DEF Measure
  <1>2. /\ TypeInv /\ MainInv /\ MainAt("measure")
        /\ Top(0) \in FrameType /\ Top(0).kind = "main" /\ Top(0).at = "measure"
        /\ Top(0) = frames[0][1] /\ Top(0).lo \in Nat /\ Top(0).hi \in Nat
    BY <1>1, MainAlone DEF FrameType
  <1>3. /\ LoopRuns /\ 1 <= Top(0).hi /\ Top(0).hi <= NumIterations
        /\ Done(0, Top(0).lo) /\ Todo(Top(0).lo, NumIterations)
    BY <1>2 DEF MainInv
  <1>4. NumIterations \in Nat
    BY <1>2, <1>3, LoopsAssumption, ElementOfSeq DEF TypeInv, NumIterations, LoopRuns
  <1> DEFINE g == [Top(0) EXCEPT !.lo = @ + 1]
  <1>5. /\ g \in FrameType /\ g.kind = "main" /\ g.at = "measure"
        /\ g.lo = Top(0).lo + 1 /\ g.hi = Top(0).hi
    BY <1>2 DEF FrameType
  <1>6. Become(0, <<g>>) /\ UNCHANGED <<deques, finished, finishedFlag, loop, granularity>>
    BY DEF Measure
  <1> HIDE DEF g
  <1>7. /\ stack' \in [Workers -> Seq(FrameType)]
        /\ depth'[0] = 1 /\ frames'[0][1] = g
        /\ StackInv' /\ Quiet' /\ ~InParfor'
    <2>1. Innermost(g)
      BY <1>5 DEF Innermost
    <2>2. QED
      BY <1>1, <1>5, <1>6, <2>1, MainMoves
  <1>8. PICK i \in Nat : i = Top(0).lo
    BY <1>2
  <1>9. i \in DOMAIN runs /\ runs[i] = 0
    BY <1>1, <1>2, <1>3, <1>4, <1>8 DEF Todo
  <1>10. /\ DOMAIN runs' = DOMAIN runs /\ runs'[i] = 1
         /\ \A k \in DOMAIN runs : k # i => runs'[k] = runs[k]
         /\ runs' \in [DOMAIN runs' -> {0, 1}]
    <2>1. runs' = [runs EXCEPT ![i] = @ + 1]
      BY <1>8 DEF Measure
    <2>2. QED
      BY <1>2, <1>9, <2>1, Executed
  <1>11. TypeInv'
    BY <1>2, <1>6, <1>7, <1>10 DEF TypeInv
  <1>12. MainInv'
    <2>1. LoopRuns' /\ NumIterations' = NumIterations
      BY <1>3, <1>6, <1>10 DEF LoopRuns, NumIterations
    <2>2. ~MainAt("call")' /\ ~MainAt("join")' /\ ~MainAt("returned")'
      BY <1>5, <1>7 DEF MainAt
    <2>3. /\ frames'[0][1].lo <= frames'[0][1].hi
          /\ 1 <= frames'[0][1].hi /\ frames'[0][1].hi <= NumIterations'
      BY <1>1, <1>2, <1>3, <1>5, <1>7, <2>1
    <2>4. Done(0, frames[0][1].lo)'
      BY <1>3, <1>5, <1>7, <1>8, <1>9, <1>10 DEF Done
    <2>5. Todo(frames[0][1].lo, NumIterations)'
      BY <1>3, <1>4, <1>5, <1>7, <1>8, <1>10, <2>1 DEF Todo
    <2>6. QED
      BY <1>7, <2>1, <2>2, <2>3, <2>4, <2>5 DEF MainInv
  <1>13. FinishedInv'
    BY <1>1, <1>6, NoneFinished DEF FinishedInv
  <1>14. QED
    BY <1>7, <1>11, <1>12, <1>13, QuietAfter DEF IInv, QuietInv

\* The next batch of get_granularity is within the loop.
LEMMA NextBatchStep ==
  ASSUME IInv, NextBatch
  PROVE  IInv'
  <1>1. At(0, "main", "measure") /\ Top(0).lo = Top(0).hi /\ Top(0).lo < NumIterations
    BY DEF NextBatch
  <1>2. /\ TypeInv /\ MainInv /\ MainAt("measure")
        /\ Top(0) \in FrameType /\ Top(0).kind = "main" /\ Top(0).at = "measure"
        /\ Top(0) = frames[0][1] /\ Top(0).lo \in Nat
    BY <1>1, MainAlone DEF FrameType
  <1>3. LoopRuns /\ Done(0, Top(0).lo) /\ Todo(Top(0).lo, NumIterations)
    BY <1>2 DEF MainInv
  <1>4. NumIterations \in Nat
    BY <1>2, <1>3, LoopsAssumption, ElementOfSeq DEF TypeInv, NumIterations, LoopRuns
  <1> DEFINE g == [Top(0) EXCEPT !.hi = Min2(2 * Top(0).lo + 1, NumIterations)]
  <1>5. /\ g \in FrameType /\ g.kind = "main" /\ g.at = "measure" /\ g.lo = Top(0).lo
        /\ g.lo <= g.hi /\ 1 <= g.hi /\ g.hi <= NumIterations
    <2>1. LET n == Min2(2 * Top(0).lo + 1, NumIterations)
          IN  n \in Nat /\ Top(0).lo <= n /\ 1 <= n /\ n <= NumIterations
      BY <1>1, <1>2, <1>4 DEF Min2
    <2>2. QED
      BY <1>2, <2>1 DEF FrameType
  <1>6. /\ Become(0, <<g>>)
        /\ UNCHANGED <<deques, finished, finishedFlag, loop, granularity, runs>>
    BY DEF NextBatch
  <1> HIDE DEF g
  <1>7. /\ stack' \in [Workers -> Seq(FrameType)]
        /\ depth'[0] = 1 /\ frames'[0][1] = g
        /\ StackInv' /\ Quiet' /\ ~InParfor'
    <2>1. Innermost(g)
      BY <1>5 DEF Innermost
    <2>2. QED
      BY <1>1, <1>5, <1>6, <2>1, MainMoves
  <1>8. TypeInv'
    BY <1>2, <1>6, <1>7 DEF TypeInv
  <1>9. MainInv'
    <2>1. LoopRuns' /\ NumIterations' = NumIterations
      BY <1>3, <1>6 DEF LoopRuns, NumIterations
    <2>2. ~MainAt("call")' /\ ~MainAt("join")' /\ ~MainAt("returned")'
      BY <1>5, <1>7 DEF MainAt
    <2>3. Done(0, frames[0][1].lo)' /\ Todo(frames[0][1].lo, NumIterations)'
      BY <1>3, <1>5, <1>6, <1>7, <2>1 DEF Done, Todo
    <2>4. QED
      BY <1>5, <1>7, <2>1, <2>2, <2>3 DEF MainInv
  <1>10. FinishedInv'
    BY <1>1, <1>6, NoneFinished DEF FinishedInv
  <1>11. QED
    BY <1>7, <1>8, <1>9, <1>10, QuietAfter DEF IInv, QuietInv

\* parallel_for returns: the jobs that are finished are those of earlier loops.
LEMMA ParforReturnsStep ==
  ASSUME IInv, ParforReturns
  PROVE  IInv'
  <1>1. At(0, "main", "returned")
    BY DEF ParforReturns
  <1>2. /\ TypeInv /\ MainInv /\ MainAt("returned") /\ FinishedInv
        /\ Top(0) \in FrameType /\ Top(0).kind = "main"
    BY <1>1, MainAlone
  <1>3. loop \in 1 .. Len(Loops) /\ Len(Loops) \in Nat
    BY <1>2, LoopsAssumption, LenProperties DEF MainInv, LoopRuns, TypeInv
  <1> DEFINE g == Goto(0, "call")
  <1>4. g \in FrameType /\ g.kind = "main" /\ g.at = "call"
    BY <1>2 DEF Goto, FrameType
  <1>5. /\ Become(0, <<g>>) /\ loop' = loop + 1 /\ DOMAIN runs' = {}
        /\ runs' \in [DOMAIN runs' -> {0, 1}]
        /\ UNCHANGED <<deques, finished, finishedFlag, granularity>>
    BY DEF ParforReturns
  <1> HIDE DEF g
  <1>6. /\ stack' \in [Workers -> Seq(FrameType)]
        /\ depth'[0] = 1 /\ frames'[0][1] = g
        /\ StackInv' /\ Quiet' /\ ~InParfor'
    <2>1. Innermost(g)
      BY <1>4 DEF Innermost
    <2>2. QED
      BY <1>1, <1>4, <1>5, <2>1, MainMoves
  <1>7. TypeInv'
    BY <1>2, <1>3, <1>5, <1>6 DEF TypeInv
  <1>8. MainInv'
    <2>1. ~MainAt("measure")' /\ ~MainAt("returned")'
      BY <1>4, <1>6 DEF MainAt
    <2>2. QED
      BY <1>5, <1>6, <2>1 DEF MainInv
  <1>9. FinishedInv'
    <2>1. \A j \in finished : j.loop \in Nat /\ j.loop <= loop
      BY <1>2 DEF FinishedInv, TypeInv, JobType
    <2>2. \A j \in finished : j.loop <= loop + 1 /\ j.loop # loop + 1
      BY <1>3, <2>1
    <2>3. QED
      BY <1>5, <2>2 DEF FinishedInv
  <1>10. QED
    BY <1>6, <1>7, <1>8, <1>9, QuietAfter DEF IInv, QuietInv

\* The destructor of the scheduler sets finished_flag.
LEMMA ShutdownStep ==
  ASSUME IInv, Shutdown
  PROVE  IInv'
  <1>1. At(0, "main", "call")
    BY DEF Shutdown
  <1>2. /\ TypeInv /\ MainInv /\ MainAt("call") /\ depth[0] = 1
        /\ Top(0) \in FrameType /\ Top(0).kind = "main"
    BY <1>1, MainAlone
  <1> DEFINE g == Goto(0, "join")
  <1>3. g \in FrameType /\ g.kind = "main" /\ g.at = "join"
    BY <1>2 DEF Goto, FrameType
  <1>4. /\ Become(0, <<g>>) /\ finishedFlag' \in BOOLEAN
        /\ UNCHANGED <<deques, finished, loop, granularity, runs>>
    BY DEF Shutdown
  <1> HIDE DEF g
  <1>5. /\ stack' \in [Workers -> Seq(FrameType)]
        /\ depth'[0] = 1 /\ frames'[0][1] = g
        /\ StackInv' /\ Quiet' /\ ~InParfor'
    <2>1. Innermost(g)
      BY <1>3 DEF Innermost
    <2>2. QED
      BY <1>1, <1>3, <1>4, <2>1, MainMoves
  <1>6. TypeInv'
    BY <1>2, <1>4, <1>5 DEF TypeInv
  <1>7. MainInv'
    <2>1. ~MainAt("measure")' /\ ~MainAt("returned")'
      BY <1>3, <1>5 DEF MainAt
    <2>2. DOMAIN runs = {}
      BY <1>2 DEF MainInv
    <2>3. QED
      BY <1>4, <1>5, <2>1, <2>2 DEF MainInv
  <1>8. FinishedInv'
    BY <1>1, <1>4, NoneFinished DEF FinishedInv
  <1>9. QED
    BY <1>5, <1>6, <1>7, <1>8, QuietAfter DEF IInv, QuietInv

\* The main thread ends after the others.
LEMMA JoinAllStep ==
  ASSUME IInv, JoinAll
  PROVE  IInv'
  <1>1. At(0, "main", "join") /\ Become(0, <<>>)
        /\ UNCHANGED <<deques, finished, finishedFlag, loop, granularity, runs>>
    BY DEF JoinAll
  <1>2. /\ TypeInv /\ MainInv /\ MainAt("join") /\ depth[0] = 1 /\ Quiet /\ StackInv
        /\ Running(0) /\ 0 \in Workers
    BY <1>1, MainAlone, ZeroIsWorker
  <1>3. stack' \in [Workers -> Seq(FrameType)] /\ Left(0)
    BY <1>1, <1>2, Leaving
  <1>4. /\ depth'[0] = 0
        /\ \A v \in Workers : v # 0 =>
             depth'[v] = depth[v] /\ \A h \in 1 .. depth[v] : frames'[v][h] = frames[v][h]
    BY <1>2, <1>3 DEF Left, Kept
  <1>5. Quiet' /\ ~InParfor'
    BY <1>1, <1>2, <1>4 DEF Quiet, InParfor
  <1>6. TypeInv'
    BY <1>1, <1>2, <1>3 DEF TypeInv
  <1>7. StackInv'
    <2>1. ASSUME NEW v \in Workers, NEW h \in 1 .. depth'[v]
          PROVE  /\ IF h = depth'[v] THEN Innermost(frames'[v][h])
                    ELSE Calling(frames'[v][h]) /\ Called(frames[v][h + 1], frames[v][h])'
                 /\ frames'[v][h].kind = "main" <=> v = 0 /\ h = 1
                 /\ frames'[v][h].kind = "worker" <=> v # 0 /\ h = 1
      <3>1. v # 0
        BY <1>4
      <3>2. h \in 1 .. depth[v] /\ frames'[v][h] = frames[v][h] /\ depth'[v] = depth[v]
        BY <1>4, <3>1
      <3>3. depth[v] \in Nat /\ depth[v] <= 1
        BY <1>2, Views DEF Quiet
      <3>4. h = depth[v]
        BY <3>2, <3>3
      <3>5. QED
        BY <1>2, <3>1, <3>2, <3>4 DEF StackInv
    <2>2. QED
      BY <2>1 DEF StackInv, Innermost, Calling
  <1>8. MainInv'
    <2>1. ~MainAt("measure")' /\ ~MainAt("returned")'
      BY <1>4 DEF MainAt
    <2>2. DOMAIN runs = {}
      BY <1>2 DEF MainInv
    <2>3. QED
      BY <1>1, <1>5, <2>1, <2>2 DEF MainInv
  <1>9. FinishedInv'
    BY <1>1, NoneFinished DEF FinishedInv
  <1>10. QED
    BY <1>5, <1>6, <1>7, <1>8, <1>9, QuietAfter DEF IInv, QuietInv

\* The main thread hands the rest of its iterations to parfor_.
LEMMA StartParforStep ==
  ASSUME IInv, StartParfor
  PROVE  IInv'
  <1>0. PICK at \in {"measure"} : At(0, "main", at)
    BY DEF StartParfor
  <1>1. /\ TypeInv /\ MainInv /\ MainAt("measure") /\ Quiet /\ StackInv /\ depth[0] = 1
        /\ Top(0) \in FrameType /\ Top(0).kind = "main" /\ Top(0) = frames[0][1]
        /\ Top(0).lo \in Nat /\ Top(0).hi \in Nat /\ Running(0) /\ 0 \in Workers
        /\ Top(0).lo = Top(0).hi
    BY <1>0, MainAlone, ZeroIsWorker DEF FrameType, StartParfor
  <1>2. /\ LoopRuns /\ 1 <= Top(0).lo /\ Top(0).lo <= NumIterations
        /\ Done(0, Top(0).lo) /\ Todo(Top(0).lo, NumIterations)
    BY <1>1 DEF MainInv
  <1>3. NumIterations \in Nat
    BY <1>1, <1>2, LoopsAssumption, ElementOfSeq DEF TypeInv, NumIterations, LoopRuns
  <1>4. PICK c \in FrameType, g \in FrameType, lo \in Nat :
          /\ c.kind = "range" /\ c.at = "enter" /\ c.lo = lo /\ c.hi = NumIterations
          /\ g.kind = "main" /\ g.at = "parfor" /\ g.lo = lo
          /\ lo = Top(0).lo
          /\ Become(0, <<c, g>>)
    <2> DEFINE c == CallRange(Top(0).lo, NumIterations)
               g == Goto(0, "parfor")
    <2>1. /\ c \in FrameType /\ c.kind = "range" /\ c.at = "enter"
          /\ c.lo = Top(0).lo /\ c.hi = NumIterations
          /\ g \in FrameType /\ g.kind = "main" /\ g.at = "parfor" /\ g.lo = Top(0).lo
      BY <1>1, <1>3 DEF CallRange, Frame, Goto, FrameType
    <2>2. Become(0, <<c, g>>)
      BY DEF StartParfor
    <2>3. QED
      BY <1>1, <2>1, <2>2
  <1>5. /\ granularity' = Max2(Top(0).lo, NumIterations \div (128 * NumThreads))
        /\ UNCHANGED <<deques, finished, finishedFlag, loop, runs>>
    BY DEF StartParfor
  <1>6. /\ granularity' \in Nat /\ granularity' >= 1
    BY <1>1, <1>2, <1>3, <1>5, BatchesAreNat DEF Max2
  <1>7. stack' \in [Workers -> Seq(FrameType)] /\ Entered(0, c, g)
    BY <1>1, <1>4, Entering
  <1>8. /\ depth'[0] = 2 /\ frames'[0][1] = g /\ frames'[0][2] = c
        /\ \A v \in Workers : v # 0 =>
             /\ depth'[v] = depth[v] /\ depth[v] \in Nat /\ depth[v] <= 1
             /\ \A h \in 1 .. depth[v] :
                  frames'[v][h] = frames[v][h] /\ frames[v][h].kind = "worker" /\ h = 1
    <2>1. /\ depth'[0] = 2 /\ frames'[0][1] = g /\ frames'[0][2] = c
          /\ \A v \in Workers : v # 0 =>
               depth'[v] = depth[v] /\ \A h \in 1 .. depth[v] : frames'[v][h] = frames[v][h]
      BY <1>1, <1>7 DEF Entered, Kept
    <2>2. \A v \in Workers : depth[v] \in Nat /\ depth[v] <= 1
      BY <1>1, Views DEF Quiet
    <2>3. ASSUME NEW v \in Workers, v # 0, NEW h \in 1 .. depth[v]
          PROVE  frames[v][h].kind = "worker" /\ h = 1
      <3>1. h = 1
        BY <2>2
      <3>2. QED
        BY <1>1, <2>3, <3>1 DEF StackInv
    <2>4. QED
      BY <2>1, <2>2, <2>3
  <1>9. NumIterations' = NumIterations /\ LoopRuns' /\ InParfor'
    BY <1>2, <1>5, <1>8 DEF NumIterations, LoopRuns, InParfor
  <1>10. TypeInv'
    BY <1>1, <1>5, <1>6, <1>7 DEF TypeInv
  <1>11. MainInv'
    <2>1. ~MainAt("measure")' /\ ~MainAt("returned")' /\ ~MainAt("call")' /\ ~MainAt("join")'
      BY <1>8 DEF MainAt
    <2>2. Done(0, frames[0][1].lo)'
      BY <1>2, <1>4, <1>5, <1>8 DEF Done
    <2>3. QED
      BY <1>2, <1>4, <1>6, <1>8, <1>9, <2>1, <2>2 DEF MainInv
  <1>12. ASSUME NEW v \in Workers, NEW h \in 1 .. depth'[v]
         PROVE  \/ v = 0 /\ h = 1 /\ frames'[v][h] = g
                \/ v = 0 /\ h = 2 /\ frames'[v][h] = c
                \/ /\ v # 0 /\ h = 1 /\ frames'[v][h] = frames[v][h]
                   /\ depth'[v] = 1 /\ depth[v] = 1
                   /\ frames[v][h].kind = "worker"
    <2>1. v = 0 => h \in {1, 2}
      BY <1>8
    <2>2. v # 0 => h = 1 /\ depth'[v] = 1 /\ depth[v] = 1
      BY <1>8
    <2>3. QED
      BY <1>8, <2>1, <2>2
  <1>13. StackInv'
    <2>1. Called(frames[0][2], frames[0][1])'
      <3>1. frames'[0][1].at = "parfor" /\ frames'[0][2].at = "enter"
        BY <1>4, <1>8
      <3>2. CalledHi(frames[0][1])' = NumIterations /\ CalledLo(frames[0][1])' = lo
        BY <1>4, <1>8, <1>9, <3>1 DEF CalledHi, CalledLo
      <3>3. Done(CalledLo(frames[0][1]), frames[0][2].lo)'
        BY <1>4, <1>8, <3>2 DEF Done
      <3>4. QED
        BY <1>4, <1>8, <1>9, <3>1, <3>2, <3>3 DEF Called
    <2>2. ASSUME NEW v \in Workers, NEW h \in 1 .. depth'[v]
          PROVE  /\ IF h = depth'[v] THEN Innermost(frames'[v][h])
                    ELSE Calling(frames'[v][h]) /\ Called(frames[v][h + 1], frames[v][h])'
                 /\ frames'[v][h].kind = "main" <=> v = 0 /\ h = 1
                 /\ frames'[v][h].kind = "worker" <=> v # 0 /\ h = 1
      <3>1. CASE v = 0 /\ h = 1
        BY <1>4, <1>8, <2>1, <3>1 DEF Calling
      <3>2. CASE v = 0 /\ h = 2
        BY <1>4, <1>8, <3>2 DEF Innermost
      <3>3. CASE v # 0
        <4>1. h \in 1 .. depth[v] /\ h = depth[v] /\ h = depth'[v] /\ frames'[v][h] = frames[v][h]
          BY <1>12, <3>3
        <4>2. StackInv
          BY <1>1
        <4>3. /\ Innermost(frames[v][h])
              /\ frames[v][h].kind = "main" <=> v = 0 /\ h = 1
              /\ frames[v][h].kind = "worker" <=> v # 0 /\ h = 1
          BY <4>1, <4>2 DEF StackInv
        <4>4. QED
          BY <4>1, <4>3
      <3>4. QED
        BY <1>12, <3>1, <3>2, <3>3
    <2>3. QED
      BY <2>2 DEF StackInv, Innermost, Calling
  <1>14. ASSUME NEW v \in Workers, NEW h \in 1 .. depth'[v]
         PROVE  /\ ~IsJob(v, h)' /\ ~Owns(v, h)'
                /\ frames'[v][h].kind = "range" => v = 0 /\ h = 2 /\ frames'[v][h] = c
    BY <1>4, <1>12 DEF IsJob, Owns, OwnsJob
  <1>15. FrameInv'
    <2>1. ASSUME NEW v \in Workers, NEW h \in 1 .. depth'[v]
          PROVE  FrameOK(frames[v][h])'
      <3>1. frames'[v][h].kind # "job"
        BY <1>14 DEF IsJob
      <3>2. CASE frames'[v][h].kind = "range"
        <4>1. frames'[v][h] = c /\ c.lo <= c.hi /\ c.hi = NumIterations'
          BY <1>2, <1>4, <1>9, <1>14, <3>2
        <4>2. QED
          BY <1>3, <1>4, <3>1, <4>1 DEF FrameOK
      <3>3. QED
        BY <3>1, <3>2 DEF FrameOK
    <2>2. QED
      BY <2>1 DEF FrameInv
  <1>16. \A v \in Workers : HasPiece(v)' => v = 0 /\ Inner(v)' = c
    <2>1. ASSUME NEW v \in Workers, HasPiece(v)'
          PROVE  v = 0 /\ Inner(v)' = c
      <3>1. depth'[v] \in 1 .. depth'[v]
        BY <1>8, <2>1 DEF HasPiece
      <3>2. frames'[v][depth'[v]].kind \in {"range", "job"}
        BY <2>1 DEF HasPiece, IsPiece, Inner
      <3>3. QED
        BY <1>14, <3>1, <3>2 DEF Inner, IsJob
    <2>2. QED
      BY <2>1
  <1>17. \A d \in Deques : deques'[d] = <<>> /\ \A k \in 1 .. Len(deques'[d]) : FALSE
    <2>1. Len(<<>>) = 0
      BY EmptySeq
    <2>2. QED
      BY <1>1, <1>5, <2>1 DEF Quiet
  <1>18. PieceInv'
    <2>1. Todo(c.lo, c.hi)'
      BY <1>2, <1>4, <1>5 DEF Todo
    <2>2. QED
      BY <1>16, <2>1 DEF PieceInv, Todo
  <1>19. SlotInv'
    BY <1>17 DEF SlotInv
  <1>20. JobInv'
    BY <1>14 DEF JobInv
  <1>21. FinishedInv'
    BY <1>0, <1>5, NoneFinished DEF FinishedInv
  <1>22. AliveInv'
    BY <1>14, <1>17 DEF AliveInv
  <1>23. OwnerInv'
    BY <1>14 DEF OwnerInv
  <1>24. OwnedInv'
    BY <1>14 DEF OwnedInv
  <1>25. DequeInv'
    <2>1. Workers \subseteq Deques
      BY NumThreadsAssumption DEF Workers, Deques
    <2>2. QED
      BY <1>17, <2>1 DEF DequeInv
  <1>26. NestInv'
    <2>1. ASSUME NEW v \in Workers, NEW h \in 1 .. depth'[v], frames'[v][h].kind = "range"
          PROVE  1 \in 1 .. h - 1 /\ frames'[v][1].kind = "main"
      BY <1>4, <1>8, <1>14, <2>1
    <2>2. QED
      BY <2>1 DEF NestInv
  <1>27. QED
    BY <1>10, <1>11, <1>13, <1>15, <1>18, <1>19, <1>20, <1>21, <1>22, <1>23, <1>24, <1>25, <1>26
       DEF IInv

--------------------------------------------------------------------------------
(* The invariant.                                                              *)

\* The invariant holds when the threads have been spawned.
LEMMA Initially ==
  ASSUME Init
  PROVE  IInv
  <1>1. /\ 0 \in Workers /\ Workers \subseteq Deques
        /\ Len(Loops) \in Nat /\ 1 \in 1 .. Len(Loops) + 1
    BY NumThreadsAssumption, LoopsAssumption, LenProperties, ZeroIsWorker DEF Workers, Deques
  <1> DEFINE first(w) == IF w = 0 THEN Frame("main", "call", 0, 0)
                                  ELSE Frame("worker", "check", 0, 0)
  <1>2. \A w \in Workers : stack[w] = <<first(w)>> /\ first(w) \in FrameType
    BY DEF Init, Frame, FrameType
  <1>3. /\ \A w \in Workers : depth[w] = 1 /\ frames[w][1] = first(w)
        /\ \A w \in Workers : \A h \in 1 .. depth[w] : h = 1
    <2>1. \A w \in Workers : depth[w] = 1
      BY <1>2 DEF depth
    <2>2. ASSUME NEW w \in Workers
          PROVE  frames[w][1] = first(w)
      <3>1. frames[w][1] = stack[w][depth[w] + 1 - 1]
        BY <2>1 DEF frames
      <3>2. QED
        BY <1>2, <2>1, <3>1
    <2>3. QED
      BY <2>1, <2>2
  <1>4. TypeInv
    <2>1. stack \in [Workers -> Seq(FrameType)]
      <3>1. ASSUME NEW w \in Workers
            PROVE  stack[w] \in Seq(FrameType)
        <4>1. PICK f \in FrameType : stack[w] = <<f>>
          BY <1>2
        <4>2. QED
          BY <4>1
      <3>2. QED
        BY <3>1 DEF Init
    <2>2. deques \in [Deques -> Seq(JobType)]
      BY EmptySeq DEF Init
    <2>3. runs \in [DOMAIN runs -> {0, 1}]
      BY DEF Init
    <2>4. QED
      BY <1>1, <2>1, <2>2, <2>3 DEF Init, TypeInv
  <1>5. Quiet
    BY <1>3 DEF Quiet, Init
  <1>6. StackInv
    BY <1>3 DEF StackInv, Innermost, Frame
  <1>7. MainInv
    <2>1. ~InParfor /\ DOMAIN runs = {} /\ ~MainAt("measure") /\ ~MainAt("returned")
      BY <1>1, <1>3 DEF InParfor, MainAt, Init, Frame
    <2>2. QED
      BY <1>5, <2>1 DEF MainInv
  <1>8. FinishedInv
    BY DEF FinishedInv, Init
  <1>9. QED
    BY <1>4, <1>5, <1>6, <1>7, <1>8, QuietState DEF IInv, QuietInv

\* The steps of the main thread keep the invariant, ...
LEMMA MainSteps ==
  ASSUME IInv, Main
  PROVE  IInv'
  BY CallParforStep, MeasureStep, NextBatchStep, StartParforStep, ParforReturnsStep,
     ShutdownStep, JoinAllStep DEF Main

\* ... those of the workers, ...
LEMMA WorkSteps ==
  ASSUME IInv, NEW w \in Workers, Work(w)
  PROVE  IInv'
  <1>1. CASE Fork(w)
    BY <1>1, ForkStep
  <1>2. CASE RunHere(w) \/ LoopGoesOn(w) \/ TakeOwn(w)
    BY <1>2, MovingSteps
  <1>3. CASE Body(w)
    BY <1>3, BodyStep
  <1>4. CASE RangeReturns(w)
    BY <1>4, InnerReturnStep, OuterReturnStep
  <1>5. CASE PopBottom(w)
    BY <1>5, PopStep, MovingSteps
  <1>6. CASE LoopEnds(w)
    <2>1. Top(w).kind \in {"range", "worker"}
      BY <1>6 DEF LoopEnds, InLoop, At
    <2>2. QED
      BY <1>6, <2>1, EndStep, MovingSteps
  <1>7. CASE StartJob(w)
    BY <1>7, StartJobStep
  <1>8. CASE FinishJob(w)
    BY <1>8, EndStep
  <1>9. QED
    BY <1>1, <1>2, <1>3, <1>4, <1>5, <1>6, <1>7, <1>8 DEF Work

\* ... and a step that changes nothing.
LEMMA Unchanged ==
  ASSUME IInv, UNCHANGED vars
  PROVE  IInv'
  <1>1. /\ stack' = stack /\ deques' = deques /\ finished' = finished /\ loop' = loop
        /\ finishedFlag' = finishedFlag /\ granularity' = granularity /\ runs' = runs
    BY DEF vars
  <1>2. depth' = depth /\ frames' = frames
    BY <1>1 DEF depth, frames
  <1>3. /\ InParfor' = InParfor /\ Quiet' = Quiet /\ LoopRuns' = LoopRuns
        /\ NumIterations' = NumIterations
        /\ \A at : MainAt(at)' = MainAt(at)
        /\ \A lo, hi : Done(lo, hi)' = Done(lo, hi) /\ Todo(lo, hi)' = Todo(lo, hi)
        /\ \A w \in Workers : HasPiece(w)' = HasPiece(w) /\ Inner(w)' = Inner(w)
    BY <1>1, <1>2 DEF InParfor, Quiet, LoopRuns, NumIterations, MainAt, Done, Todo, HasPiece, Inner
  <1>4. TypeInv' /\ MainInv'
    BY <1>1, <1>2, <1>3 DEF IInv, TypeInv, MainInv, Done, Todo
  <1>5. StackInv' /\ FrameInv'
    BY <1>1, <1>2, <1>3 DEF IInv, StackInv, FrameInv, Called, CalledLo, CalledHi, FrameOK, Done
  <1>6. PieceInv' /\ SlotInv'
    BY <1>1, <1>2, <1>3 DEF IInv, PieceInv, SlotInv, Todo
  <1>7. JobInv' /\ FinishedInv'
    BY <1>1, <1>2, <1>3 DEF IInv, JobInv, FinishedInv, IsJob, JobOf, Job, Done
  <1>8. Undisturbed
    BY <1>1, <1>2 DEF Undisturbed, Owns, RightJob, IsJob, JobOf, Job, Started
  <1>9. OwnerInv' /\ AliveInv' /\ OwnedInv' /\ DequeInv'
    BY <1>1, <1>8, JobsUndisturbed
  <1>10. NestInv'
    BY <1>2 DEF IInv, NestInv, IsJob
  <1>11. QED
    BY <1>4, <1>5, <1>6, <1>7, <1>9, <1>10 DEF IInv

\* The invariant holds in every state of the scheduler, whatever the number of
\* threads and the loops.
THEOREM Invariance == Spec => []IInv
  <1>1. ASSUME IInv, [Next]_vars
        PROVE  IInv'
    <2>1. CASE Main
      BY <1>1, <2>1, MainSteps
    <2>2. CASE \E w \in Workers : Work(w) \/ \E d \in Deques : Steal(w, d)
      BY <1>1, <2>2, WorkSteps, StealStep
    <2>3. CASE UNCHANGED vars
      BY <1>1, <2>3, Unchanged
    <2>4. QED
      BY <1>1, <2>1, <2>2, <2>3 DEF Next, Exited
  <1>2. QED
    BY <1>1, Initially, PTL DEF Spec

--------------------------------------------------------------------------------
(* Every iteration, once.                                                      *)

\* The body runs at most once for each iteration, however the deques are
\* popped and robbed: two workers never parse into the same object.
THEOREM ExecutedOnce == Spec => []EachOnce
  <1>1. IInv => EachOnce
    <2>1. TypeInv => \A i \in DOMAIN runs : runs[i] \in {0, 1}
      BY DEF TypeInv
    <2>2. QED
      BY <2>1 DEF IInv, EachOnce
  <1>2. QED
    BY <1>1, Invariance, PTL

--------------------------------------------------------------------------------
(* The deques.                                                                 *)

\* What pop_bottom gives a pardo is its own right part, so that running right()
\* without a look at the job is right.
THEOREM OwnPartPopped == Spec => []PopsItsOwn
  <1>1. ASSUME IInv PROVE PopsItsOwn
    <2>1. ASSUME NEW w \in Workers, AtRange(w, "pop"), deques[w] # <<>>
          PROVE  Last(deques[w]) = RightJob(Top(w))
      <3>1. Running(w) /\ Top(w).kind = "range" /\ Top(w).at = "pop"
        BY <2>1 DEF AtRange, At
      <3>2. Top(w) = Inner(w) /\ AtFork(Inner(w))
        BY <1>1, <3>1, InnerFrame DEF AtFork
      <3>3. QED
        BY <1>1, <2>1, <3>1, <3>2, LastIsOwn DEF Last
    <2>2. QED
      BY <2>1 DEF PopsItsOwn
  <1>2. QED
    BY <1>1, Invariance, PTL

\* A worker that waits, or a spawned thread, has nothing in its own deque: the
\* jobs it could be waiting for are with others, and nobody waits for it.
THEOREM IdleIsEmpty == Spec => []IdleDequeIsEmpty
  <1>1. ASSUME IInv PROVE IdleDequeIsEmpty
    <2>1. ASSUME NEW w \in Workers, InLoop(w, "check") \/ InLoop(w, "take") \/ InLoop(w, "steal")
          PROVE  deques[w] = <<>>
      <3>1. Running(w) /\ Waiting(Top(w))
        BY <2>1 DEF InLoop, At, Waiting
      <3>2. Top(w) = Inner(w)
        BY <1>1, <3>1, InnerFrame
      <3>3. QED
        BY <1>1, <3>1, <3>2, WaitingDequeIsEmpty
    <2>2. QED
      BY <2>1 DEF IdleDequeIsEmpty
  <1>2. QED
    BY <1>1, Invariance, PTL

--------------------------------------------------------------------------------
(* The jobs.                                                                   *)

\* The frames of a stack, counted from either end.
LEMMA FramesAre ==
  ASSUME TypeInv, NEW w \in Workers
  PROVE  /\ \A k \in DOMAIN stack[w] :
              /\ depth[w] + 1 - k \in 1 .. depth[w]
              /\ stack[w][k] = frames[w][depth[w] + 1 - k]
              /\ stack[w][k] \in FrameType
         /\ \A h \in 1 .. depth[w] :
              depth[w] + 1 - h \in DOMAIN stack[w] /\ frames[w][h] \in Frames(w)
  <1>1. /\ depth[w] \in Nat /\ DOMAIN stack[w] = 1 .. depth[w]
        /\ \A h \in 1 .. depth[w] :
             frames[w][h] = stack[w][depth[w] + 1 - h] /\ frames[w][h] \in FrameType
    BY Views, LenProperties DEF TypeInv
  <1>2. \A k \in 1 .. depth[w] :
          depth[w] + 1 - k \in 1 .. depth[w] /\ depth[w] + 1 - (depth[w] + 1 - k) = k
    BY <1>1
  <1>3. \A h \in 1 .. depth[w] : frames[w][h] \in Frames(w)
    BY <1>1, <1>2 DEF Frames
  <1>4. QED
    BY <1>1, <1>2, <1>3

\* While a right part is in a deque or is run, the pardo whose stack frame
\* holds it has not returned.
THEOREM JobsAreAlive == Spec => []JobIsAlive
  <1>1. ASSUME IInv PROVE JobIsAlive
    <2> DEFINE alive ==
                 UNION {{RightJob(f) : f \in {g \in Frames(w) : OwnsJob(g)}} : w \in Workers}
    <2>1. ASSUME NEW j, Alive(j)
          PROVE  j \in alive
      <3>1. PICK w \in Workers :
              \E h \in 1 .. depth[w] : Owns(w, h) /\ RightJob(frames[w][h]) = j
        BY <2>1 DEF Alive
      <3>2. PICK h \in 1 .. depth[w] : Owns(w, h) /\ RightJob(frames[w][h]) = j
        BY <3>1
      <3>3. frames[w][h] \in {g \in Frames(w) : OwnsJob(g)}
        BY <1>1, <3>2, FramesAre DEF IInv, Owns
      <3>4. QED
        BY <3>2, <3>3
    <2> HIDE DEF alive
    <2>2. ASSUME NEW d \in Deques, NEW k \in DOMAIN deques[d]
          PROVE  deques[d][k] \in alive
      <3>1. k \in 1 .. Len(deques[d])
        BY <1>1, LenProperties DEF IInv, TypeInv
      <3>2. QED
        BY <1>1, <2>1, <3>1 DEF IInv, AliveInv
    <2>3. ASSUME NEW w \in Workers, NEW f \in Frames(w), f.kind = "job"
          PROVE  Job(f.lo, f.hi) \in alive
      <3>1. PICK k \in DOMAIN stack[w] : f = stack[w][k]
        BY DEF Frames
      <3>2. PICK h \in 1 .. depth[w] : f = frames[w][h]
        BY <1>1, <3>1, FramesAre DEF IInv
      <3>3. Alive(JobOf(frames[w][h]))
        BY <1>1, <2>3, <3>2 DEF IInv, AliveInv, IsJob
      <3>4. QED
        BY <2>1, <3>2, <3>3 DEF JobOf
    <2>4. QED
      BY <2>2, <2>3 DEF JobIsAlive, alive
  <1>2. QED
    BY <1>1, Invariance, PTL

\* The assertion of work_stealing_job.h, assert(done.load() == false), and more:
\* a job that is started is nowhere else.
THEOREM FreshJobsStart == Spec => []StartsFreshJob
  <1>1. ASSUME IInv PROVE StartsFreshJob
    <2> SUFFICES ASSUME NEW w \in Workers, At(w, "job", "run")
                 PROVE  LET job == Job(Top(w).lo, Top(w).hi)
                        IN  /\ job \notin finished
                            /\ \A d \in Deques : \A k \in DOMAIN deques[d] : deques[d][k] # job
                            /\ \A v \in Workers : \A k \in DOMAIN stack[v] :
                                 /\ stack[v][k].kind = "job"
                                 /\ Job(stack[v][k].lo, stack[v][k].hi) = job
                                 => v = w /\ k = 1
      BY DEF StartsFreshJob
    <2>1. PICK D, j :
            /\ D \in Nat /\ D = depth[w] /\ D \in 1 .. depth[w] /\ IsJob(w, D)
            /\ j = Job(Top(w).lo, Top(w).hi) /\ j = JobOf(frames[w][D])
      <3>1. Running(w) /\ Top(w).kind = "job"
        BY DEF At
      <3>2. QED
        BY <1>1, <3>1, InnerFrame DEF IsJob, JobOf
    <2>2. j \notin finished
      BY <1>1, <2>1 DEF IInv, JobInv
    <2>3. ASSUME NEW d \in Deques, NEW k \in DOMAIN deques[d]
          PROVE  deques[d][k] # j
      <3>1. k \in 1 .. Len(deques[d])
        BY <1>1, LenProperties DEF IInv, TypeInv
      <3>2. ~Started(deques[d][k])
        BY <1>1, <3>1, SlotNotStarted
      <3>3. Started(j)
        BY <2>1 DEF Started
      <3>4. QED
        BY <3>2, <3>3
    <2>4. ASSUME NEW v \in Workers, NEW k \in DOMAIN stack[v],
                 stack[v][k].kind = "job", Job(stack[v][k].lo, stack[v][k].hi) = j
          PROVE  v = w /\ k = 1
      <3>1. PICK h \in 1 .. depth[v] : h = depth[v] + 1 - k /\ stack[v][k] = frames[v][h]
        BY <1>1, FramesAre DEF IInv
      <3>2. IsJob(v, h) /\ JobOf(frames[v][h]) = j
        BY <2>4, <3>1 DEF IsJob, JobOf
      <3>3. v = w /\ h = D
        BY <1>1, <2>1, <3>2 DEF IInv, JobInv
      <3>4. k \in Int
        BY <1>1, LenProperties DEF IInv, TypeInv
      <3>5. QED
        BY <2>1, <3>1, <3>3, <3>4
    <2>5. QED
      BY <2>1, <2>2, <2>3, <2>4
  <1>2. QED
    BY <1>1, Invariance, PTL

--------------------------------------------------------------------------------
(* parallel_for returns when every iteration has been executed, not before.    *)

executed == {i \in DOMAIN runs : runs[i] > 0}

\* An iteration of the main thread or of a worker is an iteration of ParallelFor.
LEMMA Executes ==
  ASSUME IInv, LoopRuns, NEW i \in DOMAIN runs, runs[i] = 0,
         runs' = [runs EXCEPT ![i] = @ + 1], loop' = loop
  PROVE  Abstract!Next
  <1>1. /\ DOMAIN runs' = DOMAIN runs /\ runs'[i] = 1
        /\ \A k \in DOMAIN runs : k # i => runs'[k] = runs[k]
    BY Executed DEF IInv
  <1>2. executed' = executed \union {i} /\ i \notin executed
    BY <1>1 DEF executed
  <1>3. i \in Abstract!Iterations
    BY DEF LoopRuns, NumIterations, Abstract!Iterations
  <1>4. Abstract!Execute(i)
    BY <1>2 DEF Abstract!Execute, executed
  <1>5. QED
    BY <1>2, <1>3, <1>4 DEF Abstract!Next, executed

\* The scheduler does what parallel_for promises: an iteration is executed once,
\* and parallel_for returns only when all have been.
THEOREM Refinement == Spec => ImplementsParallelFor
  <1>1. Init => Abstract!Init
    BY DEF Init, Abstract!Init
  <1>2. ASSUME IInv, [Next]_vars
        PROVE  [Abstract!Next]_(Abstract!vars)
    <2>1. CASE CallParfor
      <3>1. DOMAIN runs = {}
        <4>1. At(0, "main", "call")
          BY <2>1 DEF CallParfor
        <4>2. MainAt("call") /\ MainInv
          BY <1>2, <4>1, MainAlone
        <4>3. QED
          BY <4>2 DEF MainInv
      <3>2. executed' = {} /\ executed = {} /\ loop' = loop
        BY <2>1, <3>1 DEF CallParfor, NoRuns, executed
      <3>3. QED
        BY <3>2 DEF Abstract!vars, executed
    <2>2. CASE Measure
      <3>1. At(0, "main", "measure") /\ Top(0).lo < Top(0).hi
        BY <2>2 DEF Measure
      <3>2. /\ MainInv /\ MainAt("measure") /\ Top(0) = frames[0][1]
            /\ Top(0).lo \in Nat /\ Top(0).hi \in Nat /\ TypeInv
        BY <1>2, <3>1, MainAlone DEF FrameType
      <3>3. LoopRuns /\ Top(0).hi <= NumIterations /\ Todo(Top(0).lo, NumIterations)
        BY <3>2 DEF MainInv
      <3>4. NumIterations \in Nat
        BY <3>2, <3>3, LoopsAssumption, ElementOfSeq DEF TypeInv, NumIterations, LoopRuns
      <3>5. PICK i \in DOMAIN runs : i = Top(0).lo /\ runs[i] = 0
        BY <3>1, <3>2, <3>3, <3>4 DEF Todo
      <3>6. runs' = [runs EXCEPT ![i] = @ + 1] /\ loop' = loop
        BY <2>2, <3>5 DEF Measure
      <3>7. QED
        BY <1>2, <3>3, <3>5, <3>6, Executes
    <2>3. CASE ParforReturns
      <3>1. At(0, "main", "returned")
        BY <2>3 DEF ParforReturns
      <3>2. LoopRuns /\ Done(0, NumIterations)
        BY <1>2, <3>1, MainAlone DEF MainInv
      <3>3. executed = Abstract!Iterations
        BY <3>2 DEF executed, Abstract!Iterations, LoopRuns, NumIterations, Done
      <3>4. loop' = loop + 1 /\ executed' = {}
        BY <2>3 DEF ParforReturns, executed
      <3>5. Abstract!Return
        BY <3>2, <3>3, <3>4 DEF Abstract!Return, LoopRuns, executed
      <3>6. QED
        BY <3>5 DEF Abstract!Next
    <2>4. ASSUME NEW w \in Workers, Body(w)
          PROVE  Abstract!Next
      <3>1. /\ Running(w) /\ Top(w).kind = "range" /\ Top(w).at = "body"
            /\ Top(w).lo < Top(w).hi
        BY <2>4 DEF Body, AtRange, At
      <3>2. /\ Top(w) = Inner(w) /\ depth[w] \in 1 .. depth[w] /\ Inner(w) = frames[w][depth[w]]
            /\ Top(w).lo \in Nat /\ Top(w).hi \in Nat
        BY <1>2, <3>1, InnerFrame
      <3>3. HasPiece(w) /\ InParfor
        BY <1>2, <3>1, <3>2, InsideParfor DEF HasPiece, IsPiece
      <3>4. LoopRuns /\ Todo(Top(w).lo, Top(w).hi)
        BY <1>2, <3>2, <3>3 DEF IInv, MainInv, PieceInv
      <3>5. PICK i \in DOMAIN runs : i = Top(w).lo /\ runs[i] = 0
        BY <3>1, <3>2, <3>4 DEF Todo
      <3>6. runs' = [runs EXCEPT ![i] = @ + 1] /\ loop' = loop
        BY <2>4, <3>5 DEF Body
      <3>7. QED
        BY <1>2, <3>4, <3>5, <3>6, Executes
    <2>5. ASSUME UNCHANGED <<runs, loop>>
          PROVE  UNCHANGED Abstract!vars
      BY <2>5 DEF Abstract!vars
    <2>6. CASE Main
      BY <2>1, <2>2, <2>3, <2>5, <2>6
         DEF Main, NextBatch, StartParfor, Shutdown, JoinAll
    <2>7. ASSUME NEW w \in Workers, Work(w) \/ \E d \in Deques : Steal(w, d)
          PROVE  [Abstract!Next]_(Abstract!vars)
      <3>1. CASE Body(w)
        BY <2>4, <3>1
      <3>2. CASE ~Body(w)
        <4>1. UNCHANGED <<runs, loop>>
          BY <2>7, <3>2
             DEF Work, Fork, RunHere, RangeReturns, PopBottom, LoopEnds, LoopGoesOn, TakeOwn,
                 StartJob, FinishJob, Steal
        <4>2. QED
          BY <2>5, <4>1
      <3>3. QED
        BY <3>1, <3>2
    <2>8. CASE UNCHANGED vars
      BY <2>5, <2>8 DEF vars
    <2>9. QED
      BY <1>2, <2>6, <2>7, <2>8 DEF Next, Exited
  <1>3. QED
    BY <1>1, <1>2, Invariance, PTL DEF Spec, ImplementsParallelFor, Abstract!Spec

--------------------------------------------------------------------------------
(* Types.                                                                      *)

\* The frame that a thread starts with is a range of iterations as well.
BottomInv == \A w \in Workers : depth[w] > 0 => frames[w][1].lo <= frames[w][1].hi

\* A step of worker w that keeps the bounds of the frames it keeps.
LEMMA BottomKept ==
  ASSUME IInv, BottomInv, NEW w \in Workers, Running(w),
         \/ \E f \in FrameType : /\ f.lo = Top(w).lo /\ f.hi = Top(w).hi
                                 /\ \/ Become(w, <<f>>)
                                    \/ \E c \in FrameType : Become(w, <<c, f>>)
         \/ Become(w, <<>>)
         \/ RangeReturns(w)
  PROVE  BottomInv'
  <1>1. /\ TypeInv /\ depth[w] \in Nat /\ depth[w] >= 1 /\ Top(w) = frames[w][depth[w]]
        /\ \A v \in Workers : depth[v] > 0 => frames[v][1].lo <= frames[v][1].hi
    BY InnerFrame DEF IInv, BottomInv
  <1>2. ASSUME /\ \A v \in Workers : v # w =>
                    depth'[v] = depth[v] /\ \A h \in 1 .. depth[v] : frames'[v][h] = frames[v][h]
               /\ depth'[w] > 0 => /\ frames'[w][1].lo = frames[w][1].lo
                                   /\ frames'[w][1].hi = frames[w][1].hi
        PROVE  BottomInv'
    <2>1. \A v \in Workers : v # w /\ depth[v] > 0 => 1 \in 1 .. depth[v]
      BY Views DEF IInv
    <2>2. QED
      BY <1>1, <1>2, <2>1 DEF BottomInv
  <1>3. ASSUME NEW f \in FrameType, f.lo = Top(w).lo, f.hi = Top(w).hi, Become(w, <<f>>)
        PROVE  BottomInv'
    <2>1. Rewritten(w, f)
      BY <1>1, <1>3, Rewriting
    <2>2. QED
      BY <1>1, <1>2, <1>3, <2>1 DEF Rewritten, Kept
  <1>4. ASSUME NEW f \in FrameType, NEW c \in FrameType,
               f.lo = Top(w).lo, f.hi = Top(w).hi, Become(w, <<c, f>>)
        PROVE  BottomInv'
    <2>1. Entered(w, c, f)
      BY <1>1, <1>4, Entering
    <2>2. QED
      BY <1>1, <1>2, <1>4, <2>1 DEF Entered, Kept
  <1>5. CASE Become(w, <<>>)
    <2>1. Left(w)
      BY <1>1, <1>5, Leaving
    <2>2. QED
      BY <1>1, <1>2, <2>1 DEF Left, Kept
  <1>6. CASE RangeReturns(w)
    <2>1. PICK k \in FrameType :
            /\ Returned(w, k) /\ depth[w] > 1
            /\ k.lo = frames[w][depth[w] - 1].lo /\ k.hi = frames[w][depth[w] - 1].hi
      <3> DEFINE g == frames[w][depth[w] - 1]
      <3>1. g \in FrameType /\ depth[w] > 1 /\ Returned(w, [g EXCEPT !.at = After(g)])
            /\ Calling(g) /\ g.at # "check" /\ g.kind # "worker"
        BY <1>6, RangeDone
      <3>2. [g EXCEPT !.at = After(g)] \in FrameType
        BY <3>1 DEF FrameType, After, Calling
      <3>3. /\ [g EXCEPT !.at = After(g)].lo = g.lo /\ [g EXCEPT !.at = After(g)].hi = g.hi
        BY <3>1 DEF FrameType
      <3>4. QED
        BY <3>1, <3>2, <3>3
    <2>2. QED
      BY <1>1, <1>2, <2>1 DEF Returned, Kept
  <1>7. QED
    BY <1>3, <1>4, <1>5, <1>6

\* The main thread keeps its bounds in order.
LEMMA BottomOfMain ==
  ASSUME IInv, BottomInv, Main
  PROVE  BottomInv'
  <1>0. 0 \in Workers
    BY ZeroIsWorker
  <1>1. ASSUME NEW at, At(0, "main", at), NEW f \in FrameType, f.lo <= f.hi, Become(0, <<f>>)
        PROVE  BottomInv'
    <2>1. depth[0] = 1 /\ Running(0) /\ TypeInv
      BY <1>1, MainAlone
    <2>2. Rewritten(0, f)
      BY <1>0, <1>1, <2>1, Rewriting
    <2>3. /\ frames'[0][1] = f
          /\ \A v \in Workers : v # 0 =>
               depth'[v] = depth[v] /\ \A h \in 1 .. depth[v] : frames'[v][h] = frames[v][h]
      BY <1>0, <2>1, <2>2 DEF Rewritten, Kept
    <2>4. \A v \in Workers : depth[v] > 0 => 1 \in 1 .. depth[v]
      BY Views DEF IInv
    <2>5. QED
      BY <1>1, <2>3, <2>4 DEF BottomInv
  <1>2. ASSUME NEW at, At(0, "main", at)
        PROVE  /\ Running(0) /\ Top(0) \in FrameType
               /\ Top(0).lo \in Nat /\ Top(0).hi \in Nat /\ Top(0).lo <= Top(0).hi
    <2>1. /\ Running(0) /\ Top(0) \in FrameType /\ depth[0] = 1 /\ Top(0) = frames[0][1]
      BY <1>2, MainAlone
    <2>2. Top(0).lo <= Top(0).hi
      BY <1>0, <2>1 DEF BottomInv
    <2>3. QED
      BY <2>1, <2>2 DEF FrameType
  <1>3. CASE CallParfor
    <2>1. At(0, "main", "call")
      BY <1>3 DEF CallParfor
    <2>2. CASE NumIterations = 0
      <3>1. Goto(0, "returned") \in FrameType /\ Goto(0, "returned").lo <= Goto(0, "returned").hi
        BY <1>2, <2>1 DEF Goto, FrameType
      <3>2. Become(0, <<Goto(0, "returned")>>)
        BY <1>3, <2>2 DEF CallParfor
      <3>3. QED
        BY <1>1, <2>1, <3>1, <3>2
    <2>3. CASE NumIterations # 0
      <3>1. /\ Frame("main", "measure", 0, 1) \in FrameType
            /\ Frame("main", "measure", 0, 1).lo <= Frame("main", "measure", 0, 1).hi
        BY DEF Frame, FrameType
      <3>2. Become(0, <<Frame("main", "measure", 0, 1)>>)
        BY <1>3, <2>3 DEF CallParfor
      <3>3. QED
        BY <1>1, <2>1, <3>1, <3>2
    <2>4. QED
      BY <2>2, <2>3
  <1>4. CASE Measure
    <2>1. At(0, "main", "measure") /\ Top(0).lo < Top(0).hi
      BY <1>4 DEF Measure
    <2> DEFINE f == [Top(0) EXCEPT !.lo = @ + 1]
    <2>2. f \in FrameType /\ f.lo <= f.hi
      BY <1>2, <2>1 DEF FrameType
    <2>3. Become(0, <<f>>)
      BY <1>4 DEF Measure
    <2>4. QED
      BY <1>1, <2>1, <2>2, <2>3
  <1>5. CASE NextBatch
    <2>1. At(0, "main", "measure") /\ Top(0).lo < NumIterations
      BY <1>5 DEF NextBatch
    <2> DEFINE n == Min2(2 * Top(0).lo + 1, NumIterations)
               f == [Top(0) EXCEPT !.hi = n]
    <2>2. NumIterations \in Nat
      <3>1. MainAt("measure") /\ MainInv /\ TypeInv
        BY <2>1, MainAlone
      <3>2. QED
        BY <3>1, LoopsAssumption, ElementOfSeq DEF MainInv, LoopRuns, TypeInv, NumIterations
    <2>3. n \in Nat /\ Top(0).lo <= n
      BY <1>2, <2>1, <2>2 DEF Min2
    <2>4. f \in FrameType /\ f.lo <= f.hi
      <3> HIDE DEF n
      <3>1. QED
        BY <1>2, <2>1, <2>3 DEF FrameType
    <2>5. Become(0, <<f>>)
      BY <1>5 DEF NextBatch
    <2>6. QED
      BY <1>1, <2>1, <2>4, <2>5
  <1>6. CASE StartParfor
    <2>1. At(0, "main", "measure")
      BY <1>6 DEF StartParfor
    <2> DEFINE c == CallRange(Top(0).lo, NumIterations)
               f == Goto(0, "parfor")
    <2>2. NumIterations \in Nat
      <3>1. MainAt("measure") /\ MainInv /\ TypeInv
        BY <2>1, MainAlone
      <3>2. QED
        BY <3>1, LoopsAssumption, ElementOfSeq DEF MainInv, LoopRuns, TypeInv, NumIterations
    <2>3. /\ c \in FrameType /\ f \in FrameType /\ Running(0)
          /\ f.lo = Top(0).lo /\ f.hi = Top(0).hi
      BY <1>2, <2>1, <2>2 DEF CallRange, Frame, Goto, FrameType
    <2>4. Become(0, <<c, f>>)
      BY <1>6 DEF StartParfor
    <2>5. QED
      BY <1>0, <2>3, <2>4, BottomKept
  <1>7. CASE ParforReturns \/ Shutdown
    <2>1. PICK at \in {"call", "join"} :
            Become(0, <<Goto(0, at)>>) /\ \E old : At(0, "main", old)
      BY <1>7 DEF ParforReturns, Shutdown
    <2>2. Goto(0, at) \in FrameType /\ Goto(0, at).lo <= Goto(0, at).hi
      BY <1>2, <2>1 DEF Goto, FrameType
    <2>3. QED
      BY <1>1, <2>1, <2>2
  <1>8. CASE JoinAll
    <2>1. Running(0) /\ Become(0, <<>>)
      BY <1>8 DEF JoinAll, At
    <2>2. QED
      BY <1>0, <2>1, BottomKept
  <1>9. QED
    BY <1>3, <1>4, <1>5, <1>6, <1>7, <1>8 DEF Main

\* What a worker runs keeps the bounds of the frame that runs it.
LEMMA BottomOfWork ==
  ASSUME IInv, BottomInv, NEW w \in Workers, Work(w) \/ \E d \in Deques : Steal(w, d)
  PROVE  BottomInv'
  <1>1. Running(w)
    BY DEF Work, Fork, RunHere, Body, RangeReturns, PopBottom, LoopEnds, LoopGoesOn, TakeOwn,
           StartJob, FinishJob, Steal, AtRange, InLoop, At
  <1>2. /\ Top(w) \in FrameType /\ Top(w).lo \in Nat /\ Top(w).hi \in Nat
        /\ Top(w) = Inner(w) /\ Top(w) = frames[w][depth[w]] /\ depth[w] \in 1 .. depth[w]
        /\ FrameOK(Top(w))
    BY <1>1, InnerFrame
  <1>3. \A at \in {"left", "right", "body", "check", "take", "steal", "return", "running"} :
          Goto(w, at) \in FrameType /\ Goto(w, at).lo = Top(w).lo /\ Goto(w, at).hi = Top(w).hi
    BY <1>2 DEF FrameType, Goto
  <1>4. ASSUME NEW at \in {"left", "right", "body", "check", "take", "steal", "return", "running"},
               Become(w, <<Goto(w, at)>>)
        PROVE  BottomInv'
    BY <1>1, <1>3, <1>4, BottomKept
  <1>5. ASSUME NEW at \in {"left", "right", "body", "check", "take", "steal", "return", "running"},
               NEW c \in FrameType, Become(w, <<c, Goto(w, at)>>)
        PROVE  BottomInv'
    BY <1>1, <1>3, <1>5, BottomKept
  <1>6. ASSUME Top(w).kind = "range", Top(w).hi - Top(w).lo > granularity
        PROVE  Mid(Top(w).lo, Top(w).hi) \in Nat
    BY <1>2, <1>6, RangeMid
  <1>7. \A lo, hi \in Nat : CallRange(lo, hi) \in FrameType
    BY DEF CallRange, Frame, FrameType
  <1>8. \A j \in JobType : RunJob(j) \in FrameType
    BY DEF RunJob, Frame, FrameType, JobType
  <1>9. CASE Fork(w)
    <2>1. /\ Top(w).kind = "range" /\ Top(w).hi - Top(w).lo > granularity
          /\ Become(w, <<CallRange(Top(w).lo, Mid(Top(w).lo, Top(w).hi)), Goto(w, "left")>>)
      BY <1>9 DEF Fork, AtRange, At
    <2>2. CallRange(Top(w).lo, Mid(Top(w).lo, Top(w).hi)) \in FrameType
      BY <1>2, <1>6, <1>7, <2>1
    <2>3. QED
      BY <1>5, <2>1, <2>2
  <1>10. CASE Body(w)
    <2> DEFINE f == [Top(w) EXCEPT !.lo = @ + 1]
    <2>1. /\ Become(w, <<f>>) /\ Top(w).kind = "range"
      BY <1>10 DEF Body, AtRange, At
    <2>2. f \in FrameType
      BY <1>2 DEF FrameType
    <2> HIDE DEF f
    <2>3. Rewritten(w, f)
      BY <1>1, <2>1, <2>2, Rewriting DEF IInv
    <2>4. depth[w] > 1
      BY <1>1, <1>2, <2>1, InsideParfor
    <2>5. \A v \in Workers : depth[v] \in Nat
      BY Views DEF IInv
    <2>6. \A v \in Workers : depth'[v] = depth[v] /\ (depth[v] > 0 => frames'[v][1] = frames[v][1])
      <3>1. ASSUME NEW v \in Workers, v # w
            PROVE  depth'[v] = depth[v] /\ (depth[v] > 0 => frames'[v][1] = frames[v][1])
        <4>1. depth[v] > 0 => 1 \in 1 .. depth[v]
          BY <2>5
        <4>2. QED
          BY <2>3, <3>1, <4>1 DEF Rewritten, Kept
      <3>2. 1 \in 1 .. depth[w] - 1
        BY <2>4, <2>5
      <3>3. depth'[w] = depth[w] /\ frames'[w][1] = frames[w][1]
        BY <2>3, <3>2 DEF Rewritten, Kept
      <3>4. QED
        BY <3>1, <3>3
    <2>7. QED
      BY <2>6 DEF BottomInv
  <1>11. CASE RangeReturns(w)
    BY <1>1, <1>11, BottomKept
  <1>12. CASE PopBottom(w)
    <2>1. CASE deques[w] # <<>>
      <3>1. /\ Top(w).kind = "range" /\ Top(w).at = "pop"
            /\ Become(w, <<CallRange(Mid(Top(w).lo, Top(w).hi), Top(w).hi), Goto(w, "right")>>)
        BY <1>12, <2>1 DEF PopBottom, AtRange, At
      <3>2. CallRange(Mid(Top(w).lo, Top(w).hi), Top(w).hi) \in FrameType
        BY <1>2, <1>6, <1>7, <3>1 DEF FrameOK
      <3>3. QED
        BY <1>5, <3>1, <3>2
    <2>2. CASE deques[w] = <<>>
      BY <1>4, <1>12, <2>2 DEF PopBottom
    <2>3. QED
      BY <2>1, <2>2
  <1>13. CASE RunHere(w) \/ LoopGoesOn(w)
    BY <1>4, <1>13 DEF RunHere, LoopGoesOn
  <1>14. CASE TakeOwn(w)
    <2>1. CASE deques[w] # <<>>
      <3>1. Become(w, <<RunJob(Last(deques[w])), Goto(w, "check")>>)
        BY <1>14, <2>1 DEF TakeOwn
      <3>2. Last(deques[w]) \in JobType
        <4>1. w \in Deques /\ deques[w] \in Seq(JobType)
          BY NumThreadsAssumption DEF IInv, TypeInv, Workers, Deques
        <4>2. QED
          BY <2>1, <4>1, EmptySeq, LenProperties, ElementOfSeq DEF Last
      <3>3. QED
        BY <1>5, <1>8, <3>1, <3>2
    <2>2. CASE deques[w] = <<>>
      BY <1>4, <1>14, <2>2 DEF TakeOwn
    <2>3. QED
      BY <2>1, <2>2
  <1>15. CASE LoopEnds(w)
    <2>1. Become(w, <<>>) \/ Become(w, <<Goto(w, "return")>>)
      BY <1>15 DEF LoopEnds, LeaveLoop
    <2>2. QED
      BY <1>1, <1>4, <2>1, BottomKept
  <1>16. CASE StartJob(w)
    <2>1. Become(w, <<CallRange(Top(w).lo, Top(w).hi), Goto(w, "running")>>)
      BY <1>16 DEF StartJob
    <2>2. CallRange(Top(w).lo, Top(w).hi) \in FrameType
      BY <1>2, <1>7
    <2>3. QED
      BY <1>5, <2>1, <2>2
  <1>17. CASE FinishJob(w)
    <2>1. Become(w, <<>>)
      BY <1>17 DEF FinishJob
    <2>2. QED
      BY <1>1, <2>1, BottomKept
  <1>18. CASE \E d \in Deques : Steal(w, d)
    <2>1. PICK d \in Deques :
            deques[d] # <<>> /\ Become(w, <<RunJob(Head(deques[d])), Goto(w, "check")>>)
      BY <1>18 DEF Steal
    <2>2. Head(deques[d]) \in JobType
      BY <2>1, HeadTailProperties DEF IInv, TypeInv
    <2>3. QED
      BY <1>5, <1>8, <2>1, <2>2
  <1>19. QED
    BY <1>9, <1>10, <1>11, <1>12, <1>13, <1>14, <1>15, <1>16, <1>17, <1>18 DEF Work

\* Every frame is a range of iterations, and every job in a deque is one of the
\* loop that is running.
THEOREM Typing == Spec => []TypeOK
  <1>1. ASSUME Init PROVE BottomInv
    <2>1. ASSUME NEW w \in Workers, depth[w] > 0
          PROVE  frames[w][1].lo <= frames[w][1].hi
      <3>1. Len(stack[w]) = 1 /\ stack[w][1].lo = 0 /\ stack[w][1].hi = 0
        BY <1>1 DEF Init, Frame
      <3>2. frames[w][1] = stack[w][1]
        BY <3>1 DEF frames, depth
      <3>3. QED
        BY <3>1, <3>2
    <2>2. QED
      BY <2>1 DEF BottomInv
  <1>2. ASSUME IInv, BottomInv, [Next]_vars PROVE BottomInv'
    <2>1. CASE Main
      BY <1>2, <2>1, BottomOfMain
    <2>2. CASE \E w \in Workers : Work(w) \/ \E d \in Deques : Steal(w, d)
      BY <1>2, <2>2, BottomOfWork
    <2>3. CASE UNCHANGED vars
      BY <1>2, <2>3 DEF BottomInv, depth, frames, vars
    <2>4. QED
      BY <1>2, <2>1, <2>2, <2>3 DEF Next, Exited
  <1>3. ASSUME IInv, BottomInv PROVE TypeOK
    <2>1. ASSUME NEW w \in Workers, NEW f \in Frames(w)
          PROVE  /\ f.kind \in {"main", "range", "job", "worker"}
                 /\ f.lo \in Nat /\ f.hi \in Nat /\ f.lo <= f.hi
      <3>1. PICK k \in DOMAIN stack[w] : f = stack[w][k]
        BY DEF Frames
      <3>2. PICK h \in 1 .. depth[w] : f = frames[w][h] /\ f \in FrameType
        BY <1>3, <3>1, FramesAre DEF IInv
      <3>3. FrameOK(f) /\ (f.kind \in {"main", "worker"} => h = 1)
        BY <1>3, <3>2 DEF IInv, FrameInv, StackInv
      <3>4. f.kind \in {"main", "worker"} => f.lo <= f.hi
        BY <1>3, <3>2, <3>3, Views DEF BottomInv, IInv
      <3>5. QED
        BY <3>2, <3>3, <3>4 DEF FrameType, FrameOK
    <2>2. ASSUME NEW d \in Deques, NEW k \in DOMAIN deques[d]
          PROVE  deques[d][k] \in Jobs
      <3>1. k \in 1 .. Len(deques[d]) /\ deques[d] # <<>>
        <4>1. deques[d] \in Seq(JobType)
          BY <1>3 DEF IInv, TypeInv
        <4>2. k \in 1 .. Len(deques[d])
          BY <4>1, LenProperties
        <4>3. QED
          BY <4>1, <4>2, EmptySeq
      <3>2. LET j == deques[d][k]
            IN  /\ j = Job(j.lo, j.hi) /\ j.lo < j.hi /\ j.hi <= NumIterations
                /\ j.lo \in Nat /\ j.hi \in Nat
        BY <1>3, <3>1, SlotNotStarted
      <3>3. InParfor
        BY <1>3, <3>1 DEF IInv, MainInv, Quiet
      <3>4. loop <= Len(Loops) /\ NumIterations \in Nat
        BY <1>3, <3>3, IterationsAreNat DEF IInv, MainInv, LoopRuns
      <3>5. deques[d][k].lo \in 0 .. NumIterations /\ deques[d][k].hi \in 0 .. NumIterations
        BY <3>2, <3>4
      <3>6. QED
        BY <3>2, <3>4, <3>5 DEF Jobs
    <2>3. \A i \in DOMAIN runs : runs[i] \in Nat
      BY <1>3 DEF IInv, TypeInv
    <2>4. QED
      BY <1>3, <2>1, <2>2, <2>3 DEF IInv, TypeInv, TypeOK
  <1>4. QED
    BY <1>1, <1>2, <1>3, Invariance, PTL DEF Spec
================================================================================
