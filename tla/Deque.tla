--------------------------------- MODULE Deque ---------------------------------
(* The deque of schedulers/scheduler.h (Arora, Blumofe, Plaxton), access by    *)
(* access, as the x86-64 code that GCC makes of it runs: a store by the owner  *)
(* waits in the owner's store buffer and reaches memory later, in order; a     *)
(* load sees the youngest store of its own processor, else memory; a fence and *)
(* a compare-and-exchange wait until the buffer is empty. Thieves store with   *)
(* compare-and-exchange only, so they need no buffer.                          *)
(*                                                                             *)
(* The owner pushes a new job each time. `thrown` is where the owner stands    *)
(* after the exception for a full deque, which nothing catches.                *)
EXTENDS Integers, Sequences

CONSTANTS
  Thieves,    \* the workers that steal
  NumJobs,    \* bound on the jobs the owner pushes; they are 1 .. NumJobs
  QSize       \* q_size

ASSUME NumJobsAssumption == NumJobs \in Nat
ASSUME QSizeAssumption == QSize \in Nat \ {0}

Jobs == 1 .. NumJobs
NoJob == 0                  \* nullptr, and what a slot holds before a store
Slots == 0 .. QSize - 1

VARIABLES
  bot, age, deq,    \* the deque in memory; age = [tag, top]
  buf,              \* stores of the owner that have not reached memory
  pc, localBot, job, oldAge,            \* the owner's position and locals
  nextJob,          \* the next job the owner pushes
  tpc, tJob, tAge,                \* the same of each thief
  takes,            \* history: how often each job has been taken
  excused           \* history: see AtomicDeque

memory == <<bot, age, deq, buf>>
ownerVars == <<pc, localBot, job, oldAge, nextJob>>
thiefVars == <<tpc, tJob, tAge>>
vars == <<memory, ownerVars, thiefVars, takes, excused>>

Zero == [tag |-> 0, top |-> 0]

Init ==
  /\ bot = 0 /\ age = Zero
  /\ deq = [s \in Slots |-> NoJob]
  /\ buf = <<>>
  /\ pc = "idle" /\ localBot = 0 /\ job = NoJob /\ oldAge = Zero
  /\ nextJob = 1
  /\ tpc = [t \in Thieves |-> "idle"]
  /\ tJob = [t \in Thieves |-> NoJob]
  /\ tAge = [t \in Thieves |-> Zero]
  /\ takes = [x \in Jobs |-> 0]
  /\ excused = [t \in Thieves |-> FALSE]

--------------------------------------------------------------------------------
(* Memory.                                                                     *)

\* The buffered stores are records [to, at, val]; `at` is the slot, or 0.
Pending(to, at) == {k \in DOMAIN buf : buf[k].to = to /\ buf[k].at = at}

\* A load by the owner, with what memory holds.
Load(to, at, inMemory) ==
  IF Pending(to, at) = {} THEN inMemory
  ELSE buf[CHOOSE k \in Pending(to, at) : \A l \in Pending(to, at) : l <= k].val

Store(to, at, val) == buf' = Append(buf, [to |-> to, at |-> at, val |-> val])

\* The oldest buffered store reaches memory.
Drain ==
  /\ buf # <<>>
  /\ LET st == Head(buf) IN
       /\ bot' = IF st.to = "bot" THEN st.val ELSE bot
       /\ age' = IF st.to = "age" THEN st.val ELSE age
       /\ deq' = IF st.to = "slot" THEN [deq EXCEPT ![st.at] = st.val] ELSE deq
  /\ buf' = Tail(buf)
  /\ UNCHANGED <<ownerVars, thiefVars, takes, excused>>

\* seq_cst fence
Fenced == buf = <<>>

Take(x) == takes' = [takes EXCEPT ![x] = @ + 1]

--------------------------------------------------------------------------------
(* push_bottom, by the owner.                                                  *)

CallPush ==
  /\ pc = "idle" /\ nextJob <= NumJobs
  /\ pc' = "push_load" /\ job' = nextJob /\ nextJob' = nextJob + 1
  /\ UNCHANGED <<memory, localBot, oldAge, thiefVars, takes, excused>>

PushLoadBot ==
  /\ pc = "push_load"
  /\ localBot' = Load("bot", 0, bot)
  /\ pc' = "push_slot"
  /\ UNCHANGED <<memory, job, oldAge, nextJob, thiefVars, takes, excused>>

\* The test for a full deque comes one push too late.
PushStoreSlotLateCheck ==
  /\ pc = "push_slot"
  /\ Store("slot", localBot, job)
  /\ localBot' = localBot + 1
  /\ pc' = IF localBot' > QSize THEN "thrown" ELSE "push_bot"
  /\ UNCHANGED <<bot, age, deq, job, oldAge, nextJob, thiefVars, takes, excused>>

PushStoreSlot ==
  /\ pc = "push_slot"
  /\ Store("slot", localBot, job)
  /\ localBot' = localBot + 1
  /\ pc' = IF localBot' = QSize THEN "thrown" ELSE "push_bot"
  /\ UNCHANGED <<bot, age, deq, job, oldAge, nextJob, thiefVars, takes, excused>>

PushStoreBot ==
  /\ pc = "push_bot"
  /\ Store("bot", 0, localBot)
  /\ pc' = "push_fence"
  /\ UNCHANGED <<bot, age, deq, localBot, job, oldAge, nextJob, thiefVars, takes,
                 excused>>

PushFence ==
  /\ pc = "push_fence" /\ Fenced
  /\ pc' = "idle" /\ job' = NoJob
  /\ UNCHANGED <<memory, localBot, oldAge, nextJob, thiefVars, takes, excused>>

--------------------------------------------------------------------------------
(* pop_bottom, by the owner.                                                   *)

CallPop ==
  /\ pc = "idle"
  /\ pc' = "pop_load" /\ job' = NoJob
  /\ excused' = [t \in Thieves |-> TRUE]
  /\ UNCHANGED <<memory, localBot, oldAge, nextJob, thiefVars, takes>>

PopLoadBot ==
  /\ pc = "pop_load"
  /\ LET b == Load("bot", 0, bot) IN
       IF b = 0 THEN pc' = "return" /\ localBot' = b
                ELSE pc' = "pop_bot" /\ localBot' = b - 1
  /\ UNCHANGED <<memory, job, oldAge, nextJob, thiefVars, takes, excused>>

PopStoreBot ==
  /\ pc = "pop_bot"
  /\ Store("bot", 0, localBot)
  /\ pc' = "pop_fence"
  /\ UNCHANGED <<bot, age, deq, localBot, job, oldAge, nextJob, thiefVars, takes,
                 excused>>

\* Without the fence between the store of bot and the load of age.
PopNoFence ==
  /\ pc = "pop_fence"
  /\ pc' = "pop_slot"
  /\ UNCHANGED <<memory, localBot, job, oldAge, nextJob, thiefVars, takes, excused>>

PopFence ==
  /\ pc = "pop_fence" /\ Fenced
  /\ pc' = "pop_slot"
  /\ UNCHANGED <<memory, localBot, job, oldAge, nextJob, thiefVars, takes, excused>>

PopLoadSlot ==
  /\ pc = "pop_slot"
  /\ job' = Load("slot", localBot, deq[localBot])
  /\ pc' = "pop_age"
  /\ UNCHANGED <<memory, localBot, oldAge, nextJob, thiefVars, takes, excused>>

\* With more than one job left the last one is the owner's.
PopLoadAge ==
  /\ pc = "pop_age"
  /\ oldAge' = Load("age", 0, age)
  /\ IF localBot > oldAge'.top
       THEN pc' = "return" /\ Take(job)
       ELSE pc' = "pop_reset" /\ UNCHANGED takes
  /\ UNCHANGED <<memory, localBot, job, nextJob, thiefVars, excused>>

\* The last job is given up instead of competed for.
PopResetBotOnly ==
  /\ pc = "pop_reset"
  /\ Store("bot", 0, 0)
  /\ pc' = "pop_store_age"
  /\ UNCHANGED <<bot, age, deq, localBot, job, oldAge, nextJob, thiefVars, takes,
                 excused>>

PopResetBot ==
  /\ pc = "pop_reset"
  /\ Store("bot", 0, 0)
  /\ pc' = IF localBot = oldAge.top THEN "pop_cas" ELSE "pop_store_age"
  /\ UNCHANGED <<bot, age, deq, localBot, job, oldAge, nextJob, thiefVars, takes,
                 excused>>

\* The reset starts a new round under the old tag.
SameTagAge == [tag |-> oldAge.tag, top |-> 0]

NewAge == [tag |-> oldAge.tag + 1, top |-> 0]

\* The owner and the thieves compete for the last job.
PopCas ==
  /\ pc = "pop_cas" /\ Fenced
  /\ IF age = oldAge
       THEN age' = NewAge /\ pc' = "return" /\ Take(job)
       ELSE pc' = "pop_store_age" /\ UNCHANGED <<age, takes>>
  /\ UNCHANGED <<bot, deq, buf, localBot, job, oldAge, nextJob, thiefVars, excused>>

PopStoreAge ==
  /\ pc = "pop_store_age"
  /\ Store("age", 0, NewAge)
  /\ job' = NoJob
  /\ pc' = "pop_last_fence"
  /\ UNCHANGED <<bot, age, deq, localBot, oldAge, nextJob, thiefVars, takes, excused>>

PopLastFence ==
  /\ pc = "pop_last_fence" /\ Fenced
  /\ pc' = "return"
  /\ UNCHANGED <<memory, localBot, job, oldAge, nextJob, thiefVars, takes, excused>>

Return ==
  /\ pc = "return"
  /\ pc' = "idle" /\ job' = NoJob
  /\ UNCHANGED <<memory, localBot, oldAge, nextJob, thiefVars, takes, excused>>

--------------------------------------------------------------------------------
(* The jobs that can still be taken: those between top and bot, with the one   *)
(* the owner is taking as long as thieves may still win it.                    *)

Undecided ==
  \/ pc \in {"pop_fence", "pop_slot", "pop_age"}
  \/ pc \in {"pop_reset", "pop_cas"} /\ localBot = oldAge.top

LogicalBot == IF Undecided THEN localBot + 1 ELSE bot

Items == [k \in 1 .. LogicalBot - age.top |-> deq[age.top + k - 1]]

--------------------------------------------------------------------------------
(* pop_top, by thief t.                                                        *)

CallSteal(t) ==
  /\ tpc[t] = "idle"
  /\ tpc' = [tpc EXCEPT ![t] = "top_age"]
  /\ tJob' = [tJob EXCEPT ![t] = NoJob]
  /\ excused' = [excused EXCEPT ![t] =
       Items = <<>> \/ pc \in {"pop_load", "pop_bot"} \/ Undecided]
  /\ UNCHANGED <<memory, ownerVars, tAge, takes>>

StealLoadAge(t) ==
  /\ tpc[t] = "top_age"
  /\ tAge' = [tAge EXCEPT ![t] = age]
  /\ tpc' = [tpc EXCEPT ![t] = "top_bot"]
  /\ UNCHANGED <<memory, ownerVars, tJob, takes, excused>>

StealLoadBot(t) ==
  /\ tpc[t] = "top_bot"
  /\ tpc' = [tpc EXCEPT ![t] = IF bot > tAge[t].top THEN "top_slot" ELSE "return"]
  /\ UNCHANGED <<memory, ownerVars, tJob, tAge, takes, excused>>

StealLoadSlot(t) ==
  /\ tpc[t] = "top_slot"
  /\ tJob' = [tJob EXCEPT ![t] = deq[tAge[t].top]]
  /\ tpc' = [tpc EXCEPT ![t] = "top_cas"]
  /\ UNCHANGED <<memory, ownerVars, tAge, takes, excused>>

\* The exchange compares the top alone.
StealCasTopOnly(t) ==
  /\ tpc[t] = "top_cas"
  /\ IF age.top = tAge[t].top
       THEN /\ age' = [age EXCEPT !.top = @ + 1]
            /\ Take(tJob[t])
            /\ excused' = [u \in Thieves |-> u # t \/ excused[u]]
            /\ UNCHANGED tJob
       ELSE /\ tJob' = [tJob EXCEPT ![t] = NoJob]
            /\ UNCHANGED <<age, takes, excused>>
  /\ tpc' = [tpc EXCEPT ![t] = "return"]
  /\ UNCHANGED <<bot, deq, buf, ownerVars, tAge>>

StealCas(t) ==
  /\ tpc[t] = "top_cas"
  /\ IF age = tAge[t]
       THEN /\ age' = [age EXCEPT !.top = @ + 1]
            /\ Take(tJob[t])
            /\ excused' = [u \in Thieves |-> u # t \/ excused[u]]
            /\ UNCHANGED tJob
       ELSE /\ tJob' = [tJob EXCEPT ![t] = NoJob]
            /\ UNCHANGED <<age, takes, excused>>
  /\ tpc' = [tpc EXCEPT ![t] = "return"]
  /\ UNCHANGED <<bot, deq, buf, ownerVars, tAge>>

StealReturn(t) ==
  /\ tpc[t] = "return"
  /\ tpc' = [tpc EXCEPT ![t] = "idle"]
  /\ tJob' = [tJob EXCEPT ![t] = NoJob]
  /\ UNCHANGED <<memory, ownerVars, tAge, takes, excused>>

--------------------------------------------------------------------------------
Owner ==
  \/ CallPush \/ PushLoadBot \/ PushStoreSlot \/ PushStoreBot \/ PushFence
  \/ CallPop \/ PopLoadBot \/ PopStoreBot \/ PopFence \/ PopLoadSlot \/ PopLoadAge
  \/ PopResetBot \/ PopCas \/ PopStoreAge \/ PopLastFence \/ Return

Thief(t) ==
  \/ CallSteal(t) \/ StealLoadAge(t) \/ StealLoadBot(t) \/ StealLoadSlot(t)
  \/ StealCas(t) \/ StealReturn(t)

Next == Owner \/ Drain \/ \E t \in Thieves : Thief(t)

Spec == Init /\ [][Next]_vars
--------------------------------------------------------------------------------
(* Properties.                                                                 *)

OwnerAt == {"idle", "push_load", "push_slot", "push_bot", "push_fence", "thrown",
            "pop_load", "pop_bot", "pop_fence", "pop_slot", "pop_age", "pop_reset",
            "pop_cas", "pop_store_age", "pop_last_fence", "return"}

Ages == [tag : Nat, top : 0 .. QSize]

Stores ==
  [to : {"bot"}, at : {0}, val : 0 .. QSize]
    \union [to : {"age"}, at : {0}, val : Ages]
    \union [to : {"slot"}, at : Slots, val : Jobs]

TypeOK ==
  /\ bot \in Slots /\ age \in Ages
  /\ deq \in [Slots -> Jobs \union {NoJob}]
  /\ buf \in Seq(Stores)
  /\ pc \in OwnerAt /\ localBot \in 0 .. QSize
  /\ job \in Jobs \union {NoJob} /\ oldAge \in Ages
  /\ nextJob \in 1 .. NumJobs + 1
  /\ tpc \in [Thieves -> {"idle", "top_age", "top_bot", "top_slot", "top_cas", "return"}]
  /\ tJob \in [Thieves -> Jobs \union {NoJob}]
  /\ tAge \in [Thieves -> Ages]
  /\ takes \in [Jobs -> Nat]
  /\ excused \in [Thieves -> BOOLEAN]

\* No two calls return the same job: the job, a closure on the stack of the
\* pardo that made it, runs at most once.
NoDoubleTake == \A x \in Jobs : takes[x] <= 1

Pushing ==
  \/ pc \in {"push_load", "push_slot", "push_bot", "thrown"}
  \/ pc = "push_fence" /\ buf # <<>>

\* A job whose push has taken effect has been taken once, or is in the deque
\* once: pop_bottom's reset of bot and age never drops one.
Conservation ==
  \A x \in 1 .. nextJob - 1 :
    LET held == {k \in DOMAIN Items : Items[k] = x}
    IN  IF Pushing /\ x = nextJob - 1
          THEN held = {} /\ takes[x] = 0
          ELSE \/ held = {} /\ takes[x] = 1
               \/ takes[x] = 0 /\ \E k \in DOMAIN Items : held = {k}

\* A thief that is past its test of bot, and whose exchange would still succeed,
\* holds the oldest job that can be taken.
StealIsCurrent ==
  \A t \in Thieves :
    tpc[t] = "top_cas" /\ tAge[t] = age =>
      Items # <<>> /\ tJob[t] = Head(Items)

\* The calls take effect at one step each: the owner's at the step that settles
\* which job it gets, a thief's at its exchange or at the load of bot that sends
\* it away.
OwnerCall ==
  CASE Pushing -> [op |-> "pushing", job |-> job]
    [] pc = "push_fence" /\ ~Pushing -> [op |-> "pushed", job |-> job]
    [] pc \in {"pop_load", "pop_bot"} \/ Undecided -> [op |-> "popping", job |-> NoJob]
    [] pc = "return" -> [op |-> "popped", job |-> job]
    [] pc = "idle" -> [op |-> "idle", job |-> NoJob]
    [] OTHER -> [op |-> "popped", job |-> NoJob]

ThiefCall ==
  [t \in Thieves |->
    CASE tpc[t] = "idle" -> [op |-> "idle", job |-> NoJob]
      [] tpc[t] = "return" -> [op |-> "popped", job |-> tJob[t]]
      [] OTHER -> [op |-> "popping", job |-> NoJob]]

Abstract == INSTANCE AtomicDeque
              WITH items <- Items, owner <- OwnerCall, thief <- ThiefCall

\* The deque of the code is a deque whose calls are atomic.
ImplementsAtomicDeque == Abstract!Spec
================================================================================
