------------------------------- MODULE ForkJoin --------------------------------
(* The fork-join scheduler of schedulers/scheduler.h: parallel_for splits its   *)
(* range into a left part, which the worker runs itself, and a right part,     *)
(* which it leaves in its deque for anyone; a worker with nothing to do, or    *)
(* one that waits for a right part somebody has stolen, runs what it finds in  *)
(* the deques. Every worker is a thread with a call stack of its own, and a    *)
(* waiting worker runs the stolen job on top of the frames that wait.          *)
(*                                                                             *)
(* The deques are atomic here: Deque is shown to implement AtomicDeque, whose  *)
(* calls each take effect in one step. A steal that comes back with nothing    *)
(* changes nothing but the next target, which is left open.                    *)
EXTENDS Integers, Sequences, SequencesExt

CONSTANTS
  NumThreads,     \* num_threads
  Loops           \* the iterations of each parallel_for of the main thread

ASSUME NumThreadsAssumption == NumThreads \in Nat \ {0}
ASSUME LoopsAssumption == Loops \in Seq(Nat)

Workers == 0 .. NumThreads - 1
Deques == 0 .. 2 * NumThreads - 1     \* the second half is never pushed to

VARIABLES
  stack,        \* the frames of each worker, the innermost first
  deques,
  finished,     \* the jobs whose `done` is set
  finishedFlag, \* finished_flag
  loop,         \* the loop the main thread is in
  granularity,
  runs          \* history: how often the loop's body has run for each i

vars == <<stack, deques, finished, finishedFlag, loop, granularity, runs>>

--------------------------------------------------------------------------------
(* A frame is one of                                                           *)
(*   "main"    the thread that calls parallel_for, in get_granularity the next *)
(*             iteration is lo and the current batch ends at hi                *)
(*   "range"   parfor_(lo, hi), with the pardo in it                           *)
(*   "job"     WorkStealingJob::operator() for the right part lo .. hi - 1     *)
(*   "worker"  start(finished) of a spawned thread                             *)

Frame(kind, at, lo, hi) == [kind |-> kind, at |-> at, lo |-> lo, hi |-> hi]
CallRange(lo, hi) == Frame("range", "enter", lo, hi)
RunJob(job) == Frame("job", "run", job.lo, job.hi)

\* The jobs of the different loops are different objects.
Job(lo, hi) == [loop |-> loop, lo |-> lo, hi |-> hi]

\* Nine eighths instead of nine sixteenths.
MidTooFar(lo, hi) == lo + (9 * (hi - lo + 1)) \div 8

Mid(lo, hi) == lo + (9 * (hi - lo + 1)) \div 16

RightJob(f) == Job(Mid(f.lo, f.hi), f.hi)

Running(w) == stack[w] # <<>>
Top(w) == Head(stack[w])
Goto(w, at) == [Top(w) EXCEPT !.at = at]

\* The innermost frame of w is replaced by the frames fs.
Become(w, fs) == stack' = [stack EXCEPT ![w] = fs \o Tail(@)]

Init ==
  /\ stack = [w \in Workers |->
       IF w = 0 THEN <<Frame("main", "call", 0, 0)>>
                ELSE <<Frame("worker", "check", 0, 0)>>]
  /\ deques = [d \in Deques |-> <<>>]
  /\ finished = {} /\ finishedFlag = FALSE
  /\ loop = 1 /\ granularity = 0
  /\ runs = [i \in {} |-> 0]

NumIterations == Loops[loop]
NoRuns(n) == [i \in 0 .. n - 1 |-> 0]

At(w, kind, at) == Running(w) /\ Top(w).kind = kind /\ Top(w).at = at

--------------------------------------------------------------------------------
(* The main thread: parfor, with granularity 0.                                *)

Min2(a, b) == IF a < b THEN a ELSE b
Max2(a, b) == IF a > b THEN a ELSE b

\* parallel_for returns at once when there is nothing to do.
CallParfor ==
  /\ At(0, "main", "call") /\ loop <= Len(Loops)
  /\ runs' = NoRuns(NumIterations)
  /\ Become(0, <<IF NumIterations = 0 THEN Goto(0, "returned")
                 ELSE Frame("main", "measure", 0, 1)>>)
  /\ UNCHANGED <<deques, finished, finishedFlag, loop, granularity>>

\* One iteration of a batch of get_granularity.
Measure ==
  /\ At(0, "main", "measure") /\ Top(0).lo < Top(0).hi
  /\ runs' = [runs EXCEPT ![Top(0).lo] = @ + 1]
  /\ Become(0, <<[Top(0) EXCEPT !.lo = @ + 1]>>)
  /\ UNCHANGED <<deques, finished, finishedFlag, loop, granularity>>

\* The batch took less than 1000 ticks: the next one is twice as large.
NextBatch ==
  /\ At(0, "main", "measure") /\ Top(0).lo = Top(0).hi
  /\ Top(0).lo < NumIterations
  /\ Become(0, <<[Top(0) EXCEPT !.hi = Min2(2 * Top(0).lo + 1, NumIterations)]>>)
  /\ UNCHANGED <<deques, finished, finishedFlag, loop, granularity, runs>>

\* It took longer, or nothing is left; the rest goes to parfor_.
StartParfor ==
  /\ At(0, "main", "measure") /\ Top(0).lo = Top(0).hi
  /\ granularity' = Max2(Top(0).lo, NumIterations \div (128 * NumThreads))
  /\ Become(0, <<CallRange(Top(0).lo, NumIterations), Goto(0, "parfor")>>)
  /\ UNCHANGED <<deques, finished, finishedFlag, loop, runs>>

ParforReturns ==
  /\ At(0, "main", "returned")
  /\ loop' = loop + 1
  /\ runs' = [i \in {} |-> 0]
  /\ Become(0, <<Goto(0, "call")>>)
  /\ UNCHANGED <<deques, finished, finishedFlag, granularity>>

\* ~scheduler, from the destructor of the static fork_join_scheduler
Shutdown ==
  /\ At(0, "main", "call") /\ loop = Len(Loops) + 1
  /\ finishedFlag' = TRUE
  /\ Become(0, <<Goto(0, "join")>>)
  /\ UNCHANGED <<deques, finished, loop, granularity, runs>>

JoinAll ==
  /\ At(0, "main", "join")
  /\ \A w \in Workers \ {0} : ~Running(w)
  /\ Become(0, <<>>)
  /\ UNCHANGED <<deques, finished, finishedFlag, loop, granularity, runs>>

--------------------------------------------------------------------------------
(* parfor_ and pardo.                                                          *)

AtRange(w, at) == At(w, "range", at)

\* `mid + 1` as the end of the left part.
ForkOverlapping(w) ==
  /\ AtRange(w, "enter") /\ Top(w).hi - Top(w).lo > granularity
  /\ deques' = [deques EXCEPT ![w] = Append(@, RightJob(Top(w)))]
  /\ Become(w, <<CallRange(Top(w).lo, Mid(Top(w).lo, Top(w).hi) + 1), Goto(w, "left")>>)
  /\ UNCHANGED <<finished, finishedFlag, loop, granularity, runs>>

\* spawn(&right_job), then left()
Fork(w) ==
  /\ AtRange(w, "enter") /\ Top(w).hi - Top(w).lo > granularity
  /\ deques' = [deques EXCEPT ![w] = Append(@, RightJob(Top(w)))]
  /\ Become(w, <<CallRange(Top(w).lo, Mid(Top(w).lo, Top(w).hi)), Goto(w, "left")>>)
  /\ UNCHANGED <<finished, finishedFlag, loop, granularity, runs>>

RunHere(w) ==
  /\ AtRange(w, "enter") /\ Top(w).hi - Top(w).lo <= granularity
  /\ Become(w, <<Goto(w, "body")>>)
  /\ UNCHANGED <<deques, finished, finishedFlag, loop, granularity, runs>>

Body(w) ==
  /\ AtRange(w, "body") /\ Top(w).lo < Top(w).hi
  /\ runs' = [runs EXCEPT ![Top(w).lo] = @ + 1]
  /\ Become(w, <<[Top(w) EXCEPT !.lo = @ + 1]>>)
  /\ UNCHANGED <<deques, finished, finishedFlag, loop, granularity>>

\* Where a caller goes on when the range it called returns.
After(f) ==
  CASE f.kind = "main" -> "returned"
    [] f.kind = "job" -> "finish"
    [] f.kind = "range" /\ f.at = "left" -> "pop"
    [] f.kind = "range" /\ f.at = "right" -> "return"

RangeReturns(w) ==
  /\ AtRange(w, "return") \/ (AtRange(w, "body") /\ Top(w).lo = Top(w).hi)
  /\ LET caller == stack[w][2]
     IN  stack' = [stack EXCEPT ![w] =
           <<[caller EXCEPT !.at = After(caller)]>> \o Tail(Tail(@))]
  /\ UNCHANGED <<deques, finished, finishedFlag, loop, granularity, runs>>

\* A worker whose right part was stolen does not wait for it.
PopBottomNoWait(w) ==
  /\ AtRange(w, "pop")
  /\ IF deques[w] # <<>>
       THEN /\ deques' = [deques EXCEPT ![w] = Front(@)]
            /\ Become(w, <<CallRange(Mid(Top(w).lo, Top(w).hi), Top(w).hi),
                           Goto(w, "right")>>)
       ELSE Become(w, <<Goto(w, "return")>>) /\ UNCHANGED deques
  /\ UNCHANGED <<finished, finishedFlag, loop, granularity, runs>>

\* The right part is left to the others, whether they have taken it or not.
PopBottomNever(w) ==
  /\ AtRange(w, "pop")
  /\ Become(w, <<Goto(w, "check")>>)
  /\ UNCHANGED <<deques, finished, finishedFlag, loop, granularity, runs>>

\* try_pop: with a job it runs right(), whichever job it got; without, it waits.
PopBottom(w) ==
  /\ AtRange(w, "pop")
  /\ IF deques[w] # <<>>
       THEN /\ deques' = [deques EXCEPT ![w] = Front(@)]
            /\ Become(w, <<CallRange(Mid(Top(w).lo, Top(w).hi), Top(w).hi),
                           Goto(w, "right")>>)
       ELSE Become(w, <<Goto(w, "check")>>) /\ UNCHANGED deques
  /\ UNCHANGED <<finished, finishedFlag, loop, granularity, runs>>

--------------------------------------------------------------------------------
(* start(finished) and get_job, in a waiting pardo and in a spawned thread.    *)

InLoop(w, at) == At(w, "range", at) \/ At(w, "worker", at)

\* finished() of the innermost loop of w
Finished(w) ==
  IF Top(w).kind = "worker" THEN finishedFlag ELSE RightJob(Top(w)) \in finished

LeaveLoop(w) ==
  Become(w, IF Top(w).kind = "worker" THEN <<>> ELSE <<Goto(w, "return")>>)

\* Only the first thing get_job does is to ask finished().
LoopEndsAtCheck(w) ==
  /\ InLoop(w, "check")
  /\ Finished(w)
  /\ LeaveLoop(w)
  /\ UNCHANGED <<deques, finished, finishedFlag, loop, granularity, runs>>

\* get_job asks at its start and before each try to steal.
LoopEnds(w) ==
  /\ InLoop(w, "check") \/ InLoop(w, "steal")
  /\ Finished(w)
  /\ LeaveLoop(w)
  /\ UNCHANGED <<deques, finished, finishedFlag, loop, granularity, runs>>

LoopGoesOn(w) ==
  /\ InLoop(w, "check")
  /\ ~Finished(w)
  /\ Become(w, <<Goto(w, "take")>>)
  /\ UNCHANGED <<deques, finished, finishedFlag, loop, granularity, runs>>

\* get_job looks into the worker's own deque first.
TakeOwn(w) ==
  /\ InLoop(w, "take")
  /\ IF deques[w] # <<>>
       THEN /\ deques' = [deques EXCEPT ![w] = Front(@)]
            /\ Become(w, <<RunJob(Last(deques[w])), Goto(w, "check")>>)
       ELSE Become(w, <<Goto(w, "steal")>>) /\ UNCHANGED deques
  /\ UNCHANGED <<finished, finishedFlag, loop, granularity, runs>>

\* The thief takes the youngest job of the deque.
StealYoungest(w, d) ==
  /\ InLoop(w, "steal") /\ deques[d] # <<>>
  /\ deques' = [deques EXCEPT ![d] = Front(@)]
  /\ Become(w, <<RunJob(Last(deques[d])), Goto(w, "check")>>)
  /\ UNCHANGED <<finished, finishedFlag, loop, granularity, runs>>

\* The thief leaves the job where it was.
StealCopy(w, d) ==
  /\ InLoop(w, "steal") /\ deques[d] # <<>>
  /\ Become(w, <<RunJob(Head(deques[d])), Goto(w, "check")>>)
  /\ UNCHANGED <<deques, finished, finishedFlag, loop, granularity, runs>>

\* finished() was false some time before, so it does not matter here.
Steal(w, d) ==
  /\ InLoop(w, "steal") /\ deques[d] # <<>>
  /\ deques' = [deques EXCEPT ![d] = Tail(@)]
  /\ Become(w, <<RunJob(Head(deques[d])), Goto(w, "check")>>)
  /\ UNCHANGED <<finished, finishedFlag, loop, granularity, runs>>

\* WorkStealingJob::operator()
StartJob(w) ==
  /\ At(w, "job", "run")
  /\ Become(w, <<CallRange(Top(w).lo, Top(w).hi), Goto(w, "running")>>)
  /\ UNCHANGED <<deques, finished, finishedFlag, loop, granularity, runs>>

FinishJob(w) ==
  /\ At(w, "job", "finish")
  /\ finished' = finished \union {Job(Top(w).lo, Top(w).hi)}
  /\ Become(w, <<>>)
  /\ UNCHANGED <<deques, finishedFlag, loop, granularity, runs>>

--------------------------------------------------------------------------------
Main ==
  \/ CallParfor \/ Measure \/ NextBatch \/ StartParfor \/ ParforReturns
  \/ Shutdown \/ JoinAll

Work(w) ==
  \/ Fork(w) \/ RunHere(w) \/ Body(w) \/ RangeReturns(w) \/ PopBottom(w)
  \/ LoopEnds(w) \/ LoopGoesOn(w) \/ TakeOwn(w)
  \/ StartJob(w) \/ FinishJob(w)

\* The process is over.
Exited == (\A w \in Workers : ~Running(w)) /\ UNCHANGED vars

Next ==
  \/ Main
  \/ \E w \in Workers : Work(w) \/ \E d \in Deques : Steal(w, d)
  \/ Exited

\* Threads are scheduled again and again, and "by coupon collector's problem,
\* this should touch all" (get_job): no deque is passed over for ever.
Fairness ==
  /\ WF_vars(Main)
  /\ \A w \in Workers :
       WF_vars(Work(w)) /\ \A d \in Deques : WF_vars(Steal(w, d))

Spec == Init /\ [][Next]_vars
FairSpec == Spec /\ Fairness
--------------------------------------------------------------------------------
(* Properties.                                                                 *)

Frames(w) == {stack[w][k] : k \in DOMAIN stack[w]}

Jobs ==
  LET n == IF loop <= Len(Loops) THEN NumIterations ELSE 0
  IN  {Job(lo, hi) : lo, hi \in 0 .. n}

TypeOK ==
  /\ DOMAIN stack = Workers /\ DOMAIN deques = Deques
  /\ \A w \in Workers : \A f \in Frames(w) :
       /\ f.kind \in {"main", "range", "job", "worker"}
       /\ f.lo \in Nat /\ f.hi \in Nat /\ f.lo <= f.hi
  /\ \A d \in Deques : \A k \in DOMAIN deques[d] : deques[d][k] \in Jobs
  /\ loop \in 1 .. Len(Loops) + 1
  /\ granularity \in Nat /\ finishedFlag \in BOOLEAN
  /\ \A i \in DOMAIN runs : runs[i] \in Nat

\* The body runs at most once for each iteration: two workers would parse into
\* the same object.
EachOnce == \A i \in DOMAIN runs : runs[i] <= 1

\* pardo runs right() whatever try_pop gives it. What it gives is its own
\* right_job: thieves take the oldest jobs first, so as long as an older one is
\* there, the own one is.
PopsItsOwn ==
  \A w \in Workers :
    AtRange(w, "pop") /\ deques[w] # <<>> => Last(deques[w]) = RightJob(Top(w))

\* The pardo frames that own a right_job somebody may still use.
OwnsJob(f) ==
  f.kind = "range" /\ f.at \in {"left", "pop", "check", "take", "steal"}

\* A job is an object on the stack of the pardo that made it. While it is in a
\* deque or is run, that pardo has not returned.
JobIsAlive ==
  LET alive == UNION {{RightJob(f) : f \in {g \in Frames(w) : OwnsJob(g)}} : w \in Workers}
  IN  /\ \A d \in Deques : \A k \in DOMAIN deques[d] : deques[d][k] \in alive
      /\ \A w \in Workers : \A f \in Frames(w) :
           f.kind = "job" => Job(f.lo, f.hi) \in alive

\* work_stealing_job.h: assert(done.load() == false). A job that is started has
\* not been run, and nobody else can start it.
StartsFreshJob ==
  \A w \in Workers :
    At(w, "job", "run") =>
      LET job == Job(Top(w).lo, Top(w).hi)
      IN  /\ job \notin finished
          /\ \A d \in Deques : \A k \in DOMAIN deques[d] : deques[d][k] # job
          /\ \A v \in Workers : \A k \in DOMAIN stack[v] :
               /\ stack[v][k].kind = "job"
               /\ Job(stack[v][k].lo, stack[v][k].hi) = job
               => v = w /\ k = 1

\* A worker that looks for other work has nothing in its own deque: nobody is
\* needed to empty it.
IdleDequeIsEmpty ==
  \A w \in Workers :
    InLoop(w, "check") \/ InLoop(w, "take") \/ InLoop(w, "steal") =>
      deques[w] = <<>>

Abstract ==
  INSTANCE ParallelFor WITH executed <- {i \in DOMAIN runs : runs[i] > 0}

\* parallel_for returns only when every iteration has been executed.
ImplementsParallelFor == Abstract!Spec

\* Every loop is worked off, and then every thread ends.
Termination == <>(\A w \in Workers : ~Running(w))
================================================================================
