---------------------------- MODULE ForkJoinInvariant --------------------------
(* The inductive invariant of ForkJoin. ForkJoinSteps proves that every step   *)
(* keeps it, ForkJoinProofs what follows from it.                              *)
EXTENDS ForkJoin

--------------------------------------------------------------------------------
(* The stacks, counted from the bottom: what a frame calls does not move it.   *)

depth == [w \in Workers |-> Len(stack[w])]
frames == [w \in Workers |-> [h \in 1 .. depth[w] |-> stack[w][depth[w] + 1 - h]]]

\* The innermost frame of w.
Inner(w) == frames[w][depth[w]]

\* Where a frame may stand while it is the innermost, ...
Innermost(f) ==
  \/ f.kind = "main" /\ f.at \in {"call", "measure", "returned", "join"}
  \/ /\ f.kind = "range"
     /\ f.at \in {"enter", "body", "pop", "check", "take", "steal", "return"}
  \/ f.kind = "job" /\ f.at \in {"run", "finish"}
  \/ f.kind = "worker" /\ f.at \in {"check", "take", "steal"}

\* ... and while it has called.
Calling(f) ==
  \/ f.kind = "main" /\ f.at = "parfor"
  \/ f.kind = "range" /\ f.at \in {"left", "right", "check"}
  \/ f.kind = "job" /\ f.at = "running"
  \/ f.kind = "worker" /\ f.at = "check"

FrameType ==
  [kind : {"main", "range", "job", "worker"},
   at : {"call", "measure", "parfor", "returned", "join", "enter", "body", "left", "pop",
         "right", "check", "take", "steal", "return", "run", "running", "finish"},
   lo : Nat, hi : Nat]

JobType == [loop : Nat, lo : Nat, hi : Nat]

--------------------------------------------------------------------------------
(* The inductive invariant.                                                    *)

TypeInv ==
  /\ stack \in [Workers -> Seq(FrameType)]
  /\ deques \in [Deques -> Seq(JobType)]
  /\ finished \subseteq JobType /\ finishedFlag \in BOOLEAN
  /\ loop \in 1 .. Len(Loops) + 1 /\ granularity \in Nat
  /\ runs \in [DOMAIN runs -> {0, 1}]

Done(lo, hi) == \A i \in lo .. hi - 1 : i \in DOMAIN runs /\ runs[i] = 1
Todo(lo, hi) == \A i \in lo .. hi - 1 : i \in DOMAIN runs /\ runs[i] = 0

\* The main thread is in parfor_.
InParfor == depth[0] > 1

\* Nobody has anything to do.
Quiet ==
  /\ \A w \in Workers : depth[w] <= 1
  /\ \A d \in Deques : deques[d] = <<>>

LoopRuns == loop <= Len(Loops) /\ DOMAIN runs = 0 .. NumIterations - 1

\* The main thread is in no loop, or at its start or end.
MainAt(at) == depth[0] = 1 /\ frames[0][1].at = at

MainInv ==
  /\ InParfor =>
       /\ LoopRuns /\ granularity >= 1
       /\ frames[0][1].lo <= NumIterations /\ Done(0, frames[0][1].lo)
  /\ ~InParfor => Quiet
  /\ MainAt("measure") =>
       /\ LoopRuns
       /\ frames[0][1].lo <= frames[0][1].hi
       /\ 1 <= frames[0][1].hi /\ frames[0][1].hi <= NumIterations
       /\ Done(0, frames[0][1].lo) /\ Todo(frames[0][1].lo, NumIterations)
  /\ MainAt("returned") => LoopRuns /\ Done(0, NumIterations)
  /\ MainAt("call") \/ MainAt("join") \/ depth[0] = 0 => DOMAIN runs = {}

\* The range that a caller hands on.
CalledLo(f) == IF f.at = "right" THEN Mid(f.lo, f.hi) ELSE f.lo
CalledHi(f) == IF f.at = "parfor" THEN NumIterations
               ELSE IF f.at = "left" THEN Mid(f.lo, f.hi) ELSE f.hi

\* What a call has been given, and what it has done of it.
Called(f, caller) ==
  IF caller.at = "check" THEN f.kind = "job"
  ELSE /\ f.kind = "range" /\ f.hi = CalledHi(caller)
       /\ CalledLo(caller) <= f.lo
       /\ f.at # "body" => f.lo = CalledLo(caller)
       /\ Done(CalledLo(caller), f.lo)

StackInv ==
  \A w \in Workers : \A h \in 1 .. depth[w] :
    /\ IF h = depth[w] THEN Innermost(frames[w][h])
       ELSE Calling(frames[w][h]) /\ Called(frames[w][h + 1], frames[w][h])
    /\ frames[w][h].kind = "main" <=> w = 0 /\ h = 1
    /\ frames[w][h].kind = "worker" <=> w # 0 /\ h = 1

\* What is known of a frame by itself.
FrameOK(f) ==
  /\ f.kind = "range" =>
       /\ f.lo <= f.hi /\ f.hi <= NumIterations
       /\ f.at \notin {"enter", "body"} => f.hi - f.lo > granularity
       /\ f.at \notin {"enter", "body", "left"} => Done(f.lo, Mid(f.lo, f.hi))
       /\ f.at = "return" => Done(f.lo, f.hi)
  /\ f.kind = "job" =>
       /\ f.lo < f.hi /\ f.hi <= NumIterations
       /\ f.at = "finish" => Done(f.lo, f.hi)

FrameInv == \A w \in Workers : \A h \in 1 .. depth[w] : FrameOK(frames[w][h])

\* Iterations that nobody has begun are in the hands of one worker or in one
\* job of a deque.
Apart(f, g) == f.hi <= g.lo \/ g.hi <= f.lo
IsPiece(f) ==
  (f.kind = "range" /\ f.at \in {"enter", "body"}) \/ (f.kind = "job" /\ f.at = "run")
HasPiece(w) == depth[w] > 0 /\ IsPiece(Inner(w))

PieceInv ==
  /\ \A w \in Workers : HasPiece(w) => Todo(Inner(w).lo, Inner(w).hi)
  /\ \A w, v \in Workers :
       w # v /\ HasPiece(w) /\ HasPiece(v) => Apart(Inner(w), Inner(v))

SlotInv ==
  /\ \A d \in Deques : \A k \in 1 .. Len(deques[d]) :
       /\ deques[d][k].loop = loop /\ deques[d][k].lo < deques[d][k].hi
       /\ deques[d][k].hi <= NumIterations
       /\ Todo(deques[d][k].lo, deques[d][k].hi)
       /\ \A w \in Workers : HasPiece(w) => Apart(Inner(w), deques[d][k])
  /\ \A d, e \in Deques :
       \A k \in 1 .. Len(deques[d]), l \in 1 .. Len(deques[e]) :
         d # e \/ k # l => Apart(deques[d][k], deques[e][l])

IsJob(w, h) == frames[w][h].kind = "job"
JobOf(f) == Job(f.lo, f.hi)

\* The first iteration of a job that runs is the next one of its worker, or has
\* been executed; a job is run by one worker.
JobInv ==
  /\ \A w \in Workers : \A h \in 1 .. depth[w] :
       IsJob(w, h) =>
         /\ JobOf(frames[w][h]) \notin finished
         /\ frames[w][h].at = "running" =>
              \/ Done(frames[w][h].lo, frames[w][h].lo + 1)
              \/ /\ HasPiece(w) /\ Inner(w).lo = frames[w][h].lo
                 /\ Inner(w).lo < Inner(w).hi
  /\ \A w, v \in Workers : \A h \in 1 .. depth[w], g \in 1 .. depth[v] :
       IsJob(w, h) /\ IsJob(v, g) /\ JobOf(frames[w][h]) = JobOf(frames[v][g])
         => w = v /\ h = g

FinishedInv ==
  \A j \in finished :
    /\ j.loop <= loop
    /\ j.loop = loop =>
         /\ InParfor \/ MainAt("returned")
         /\ Done(j.lo, j.hi)

\* A job in a deque or in the hands of a worker has one owner that waits, ...
Owns(w, h) == OwnsJob(frames[w][h])
Alive(j) ==
  \E w \in Workers : \E h \in 1 .. depth[w] : Owns(w, h) /\ RightJob(frames[w][h]) = j

AliveInv ==
  /\ \A d \in Deques : \A k \in 1 .. Len(deques[d]) : Alive(deques[d][k])
  /\ \A w \in Workers : \A h \in 1 .. depth[w] :
       IsJob(w, h) => Alive(JobOf(frames[w][h]))

OwnerInv ==
  \A w, v \in Workers : \A h \in 1 .. depth[w], g \in 1 .. depth[v] :
    Owns(w, h) /\ Owns(v, g) /\ RightJob(frames[w][h]) = RightJob(frames[v][g])
      => w = v /\ h = g

\* ... and what an owner waits for is there.
Started(j) ==
  \E w \in Workers : \E h \in 1 .. depth[w] : IsJob(w, h) /\ JobOf(frames[w][h]) = j

OwnedInv ==
  \A w \in Workers : \A h \in 1 .. depth[w] : Owns(w, h) =>
    LET j == RightJob(frames[w][h])
    IN  \/ \E k \in 1 .. Len(deques[w]) : deques[w][k] = j
        \/ Started(j)
        \/ j \in finished

\* The deque of a worker has the right parts of its frames, the innermost last;
\* a thief takes the outermost first.
AtFork(f) == f.kind = "range" /\ f.at \in {"left", "pop"}
Waiting(f) == f.at \in {"check", "take", "steal"}

DequeInv ==
  /\ \A d \in Deques \ Workers : deques[d] = <<>>
  /\ \A w \in Workers : \A k \in 1 .. Len(deques[w]) :
       /\ \E h \in 1 .. depth[w] :
            AtFork(frames[w][h]) /\ RightJob(frames[w][h]) = deques[w][k]
       /\ \A g, h \in 1 .. depth[w] :
            AtFork(frames[w][g]) /\ RightJob(frames[w][g]) = deques[w][k] /\ g < h =>
              /\ ~Waiting(frames[w][h])
              /\ AtFork(frames[w][h]) =>
                   \E l \in k + 1 .. Len(deques[w]) :
                     deques[w][l] = RightJob(frames[w][h])

\* A range is worked on within the main thread's range or within a job.
NestInv ==
  \A w \in Workers : \A h \in 1 .. depth[w] :
    frames[w][h].kind = "range" =>
      \E g \in 1 .. h - 1 :
        \/ frames[w][g].kind = "main"
        \/ /\ IsJob(w, g)
           /\ frames[w][g].lo <= frames[w][h].lo /\ frames[w][h].hi <= frames[w][g].hi

IInv ==
  /\ TypeInv /\ MainInv /\ StackInv /\ FrameInv
  /\ PieceInv /\ SlotInv /\ JobInv /\ FinishedInv
  /\ AliveInv /\ OwnerInv /\ OwnedInv /\ DequeInv /\ NestInv

================================================================================
