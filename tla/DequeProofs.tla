------------------------------ MODULE DequeProofs ------------------------------
(* Proofs about Deque, for any number of thieves, any number of jobs and any   *)
(* size of the array: the safety properties, and that Deque implements         *)
(* AtomicDeque, so that every call takes effect in one step.                   *)
EXTENDS Deque, SequenceTheorems, TLAPS

--------------------------------------------------------------------------------
(* The inductive invariant.                                                    *)

SlotStore == [to |-> "slot", at |-> localBot - 1, val |-> job]
BotStore(b) == [to |-> "bot", at |-> 0, val |-> b]
AgeStore == [to |-> "age", at |-> 0, val |-> NewAge]

\* What may be in the owner's store buffer: every load is behind a fence.
BufInv ==
  /\ pc \in {"idle", "push_load", "push_slot", "pop_load", "pop_bot", "pop_slot",
             "pop_age", "pop_reset", "return"} => buf = <<>>
  /\ pc \in {"push_bot", "thrown"} => buf \in {<<SlotStore>>, <<>>}
  /\ pc = "push_fence" =>
       buf \in {<<SlotStore, BotStore(localBot)>>, <<BotStore(localBot)>>, <<>>}
  /\ pc = "pop_fence" => buf \in {<<BotStore(localBot)>>, <<>>}
  /\ pc \in {"pop_cas", "pop_store_age"} => buf \in {<<BotStore(0)>>, <<>>}
  /\ pc = "pop_last_fence" =>
       buf \in {<<BotStore(0), AgeStore>>, <<AgeStore>>, <<>>}

\* bot in memory and the owner's copy.
BotInv ==
  /\ pc = "push_slot" => bot = localBot
  /\ pc = "push_bot" => bot = localBot - 1 /\ localBot < QSize
  /\ pc = "thrown" => bot = localBot - 1
  /\ pc = "push_fence" =>
       /\ localBot \in 1 .. QSize - 1
       /\ bot = IF buf = <<>> THEN localBot ELSE localBot - 1
  /\ pc = "pop_bot" => bot = localBot + 1
  /\ pc = "pop_fence" =>
       localBot + 1 < QSize /\ bot = IF buf = <<>> THEN localBot ELSE localBot + 1
  /\ pc \in {"pop_slot", "pop_age", "pop_reset"} => bot = localBot
  /\ pc \in {"pop_slot", "pop_age", "pop_reset", "pop_cas", "pop_store_age",
             "pop_last_fence"} => localBot + 1 < QSize
  /\ pc \in {"pop_cas", "pop_store_age"} =>
       bot = IF buf = <<>> THEN 0 ELSE localBot
  /\ pc = "pop_last_fence" =>
       bot = IF buf = <<BotStore(0), AgeStore>> THEN localBot ELSE 0

\* The reset of age is still to come: the deque is empty and top is beyond bot.
Resetting ==
  \/ pc = "pop_reset" /\ localBot # oldAge.top
  \/ pc = "pop_store_age"
  \/ pc = "pop_last_fence" /\ buf # <<>>

\* top is never beyond the bottom, but for the time until it is reset.
AgeInv ==
  /\ ~Resetting => age.top <= LogicalBot
  /\ Resetting => age.top = localBot + 1
  /\ pc \in {"pop_reset", "pop_cas"} \/ Resetting => age.tag = oldAge.tag
  /\ pc \in {"pop_reset", "pop_cas"} =>
       localBot <= oldAge.top /\ oldAge.top <= age.top
  /\ pc = "pop_cas" => oldAge.top = localBot

\* A thief that has seen a job, and whose age is still the deque's, has a job to
\* take: bot cannot have come down to it without a change of age.
ThiefInv ==
  \A t \in Thieves :
    /\ tAge[t].tag <= age.tag
    /\ tAge[t].tag = age.tag => tAge[t].top <= age.top
    /\ tpc[t] \in {"top_slot", "top_cas"} =>
         /\ tAge[t].top + 1 < QSize
         /\ tAge[t] = age => age.top < LogicalBot
    /\ tpc[t] = "top_cas" /\ tAge[t] = age => tJob[t] = deq[age.top]

Held == age.top .. LogicalBot - 1

\* The jobs: those pushed are in the array once or have been taken once.
HeldInv ==
  /\ \A s \in Held : /\ deq[s] \in 1 .. nextJob - 1
                     /\ Pushing => deq[s] # nextJob - 1
                     /\ takes[deq[s]] = 0
  /\ \A r, s \in Held : deq[r] = deq[s] => r = s
  /\ \A x \in Jobs : takes[x] <= 1
  /\ \A x \in Jobs : x >= nextJob \/ (Pushing /\ x = nextJob - 1) => takes[x] = 0
  /\ \A x \in 1 .. nextJob - 1 :
       \/ Pushing /\ x = nextJob - 1
       \/ takes[x] = 1
       \/ \E s \in Held : deq[s] = x

\* The job in the owner's hands.
OwnJobInv ==
  /\ Pushing \/ pc = "push_fence" => job = nextJob - 1 /\ job \in Jobs
  /\ \/ pc = "push_bot" /\ buf = <<>>
     \/ pc = "push_fence" /\ buf = <<BotStore(localBot)>>
     => deq[localBot - 1] = job
  /\ pc = "pop_age" \/ (pc \in {"pop_reset", "pop_cas"} /\ localBot = oldAge.top) =>
       job = deq[localBot]

IInv == TypeOK /\ BufInv /\ BotInv /\ AgeInv /\ ThiefInv /\ HeldInv /\ OwnJobInv

--------------------------------------------------------------------------------
(* Lemmas about the store buffer, which never holds more than two stores.      *)

\* Sequences of one and of two elements.
LEMMA ShortSeqs ==
  ASSUME NEW a, NEW b
  PROVE  /\ <<a>> # <<>> /\ Head(<<a>>) = a /\ Tail(<<a>>) = <<>>
         /\ <<a, b>> # <<>> /\ Head(<<a, b>>) = a /\ Tail(<<a, b>>) = <<b>>
         /\ <<a>> # <<a, b>> /\ <<b>> # <<a, b>>
         /\ Append(<<>>, a) = <<a>> /\ Append(<<a>>, b) = <<a, b>>
  <1>1. Append(<<a>>, b) = <<a, b>>
    <2>1. <<a>> \in Seq({a, b}) /\ Len(<<a>>) = 1
      OBVIOUS
    <2>2. /\ Append(<<a>>, b) \in Seq({a, b}) /\ Len(Append(<<a>>, b)) = 2
          /\ Append(<<a>>, b)[1] = a /\ Append(<<a>>, b)[2] = b
      BY <2>1
    <2>3. /\ <<a, b>> \in Seq({a, b}) /\ Len(<<a, b>>) = 2
          /\ <<a, b>>[1] = a /\ <<a, b>>[2] = b
      OBVIOUS
    <2> DEFINE s == Append(<<a>>, b)
               t == <<a, b>>
    <2>4. /\ s \in Seq({a, b}) /\ t \in Seq({a, b}) /\ Len(s) = Len(t)
          /\ \A k \in 1 .. Len(s) : s[k] = t[k]
      BY <2>2, <2>3
    <2> HIDE DEF s, t
    <2>5. s = t
      BY <2>4, SeqEqual
    <2>6. QED
      BY <2>5 DEF s, t
  <1>2. QED
    BY <1>1

\* A load with no store in the buffer reads memory.
LEMMA LoadFromMemory ==
  ASSUME buf = <<>>, NEW to, NEW at, NEW inMemory
  PROVE  Load(to, at, inMemory) = inMemory
  <1>1. Pending(to, at) = {}
    BY DEF Pending
  <1>2. QED
    BY <1>1 DEF Load

\* What a store does when it reaches memory, by the call it belongs to.
LEMMA DrainCases ==
  ASSUME TypeOK, BufInv, Drain
  PROVE  /\ UNCHANGED <<ownerVars, thiefVars, takes, excused>>
         /\ \/ /\ pc \in {"push_bot", "thrown"} /\ buf = <<SlotStore>>
               /\ buf' = <<>>
               /\ deq' = [deq EXCEPT ![localBot - 1] = job] /\ UNCHANGED <<bot, age>>
            \/ /\ pc = "push_fence" /\ buf = <<SlotStore, BotStore(localBot)>>
               /\ buf' = <<BotStore(localBot)>>
               /\ deq' = [deq EXCEPT ![localBot - 1] = job] /\ UNCHANGED <<bot, age>>
            \/ /\ pc \in {"push_fence", "pop_fence"} /\ buf = <<BotStore(localBot)>>
               /\ buf' = <<>> /\ bot' = localBot /\ UNCHANGED <<deq, age>>
            \/ /\ pc \in {"pop_cas", "pop_store_age"} /\ buf = <<BotStore(0)>>
               /\ buf' = <<>> /\ bot' = 0 /\ UNCHANGED <<deq, age>>
            \/ /\ pc = "pop_last_fence" /\ buf = <<BotStore(0), AgeStore>>
               /\ buf' = <<AgeStore>> /\ bot' = 0 /\ UNCHANGED <<deq, age>>
            \/ /\ pc = "pop_last_fence" /\ buf = <<AgeStore>>
               /\ buf' = <<>> /\ age' = NewAge /\ UNCHANGED <<deq, bot>>
  <1>1. /\ UNCHANGED <<ownerVars, thiefVars, takes, excused>>
        /\ buf # <<>> /\ buf' = Tail(buf)
        /\ bot' = IF Head(buf).to = "bot" THEN Head(buf).val ELSE bot
        /\ age' = IF Head(buf).to = "age" THEN Head(buf).val ELSE age
        /\ deq' = IF Head(buf).to = "slot"
                    THEN [deq EXCEPT ![Head(buf).at] = Head(buf).val] ELSE deq
    BY DEF Drain
  <1>2. \/ pc \in {"push_bot", "thrown"} /\ buf = <<SlotStore>>
        \/ pc = "push_fence" /\ buf = <<SlotStore, BotStore(localBot)>>
        \/ pc \in {"push_fence", "pop_fence"} /\ buf = <<BotStore(localBot)>>
        \/ pc \in {"pop_cas", "pop_store_age"} /\ buf = <<BotStore(0)>>
        \/ pc = "pop_last_fence" /\ buf = <<BotStore(0), AgeStore>>
        \/ pc = "pop_last_fence" /\ buf = <<AgeStore>>
    BY <1>1 DEF BufInv, TypeOK, OwnerAt
  <1>3. CASE pc \in {"push_bot", "thrown"} /\ buf = <<SlotStore>>
    <2>1. Head(buf) = SlotStore /\ Tail(buf) = <<>>
      BY <1>3, ShortSeqs
    <2>2. /\ Head(buf).to = "slot" /\ Head(buf).at = localBot - 1
          /\ Head(buf).val = job
      BY <2>1 DEF SlotStore
    <2>3. QED
      BY <1>1, <1>3, <2>1, <2>2
  <1>4. CASE pc = "push_fence" /\ buf = <<SlotStore, BotStore(localBot)>>
    <2>1. Head(buf) = SlotStore /\ Tail(buf) = <<BotStore(localBot)>>
      BY <1>4, ShortSeqs
    <2>2. /\ Head(buf).to = "slot" /\ Head(buf).at = localBot - 1
          /\ Head(buf).val = job
      BY <2>1 DEF SlotStore
    <2>3. QED
      BY <1>1, <1>4, <2>1, <2>2
  <1>5. CASE pc \in {"push_fence", "pop_fence"} /\ buf = <<BotStore(localBot)>>
    <2>1. Head(buf) = BotStore(localBot) /\ Tail(buf) = <<>>
      BY <1>5, ShortSeqs
    <2>2. QED
      BY <1>1, <1>5, <2>1 DEF BotStore
  <1>6. CASE pc \in {"pop_cas", "pop_store_age"} /\ buf = <<BotStore(0)>>
    <2>1. Head(buf) = BotStore(0) /\ Tail(buf) = <<>>
      BY <1>6, ShortSeqs
    <2>2. QED
      BY <1>1, <1>6, <2>1 DEF BotStore
  <1>7. CASE pc = "pop_last_fence" /\ buf = <<BotStore(0), AgeStore>>
    <2>1. Head(buf) = BotStore(0) /\ Tail(buf) = <<AgeStore>>
      BY <1>7, ShortSeqs
    <2>2. QED
      BY <1>1, <1>7, <2>1 DEF BotStore
  <1>8. CASE pc = "pop_last_fence" /\ buf = <<AgeStore>>
    <2>1. Head(buf) = AgeStore /\ Tail(buf) = <<>>
      BY <1>8, ShortSeqs
    <2>2. QED
      BY <1>1, <1>8, <2>1 DEF AgeStore
  <1>9. QED
    BY <1>2, <1>3, <1>4, <1>5, <1>6, <1>7, <1>8

\* Taking a job counts it, whatever the job is.
LEMMA TakeType ==
  ASSUME takes \in [Jobs -> Nat], NEW x, Take(x)
  PROVE  takes' \in [Jobs -> Nat]
  <1>1. CASE x \in Jobs
    BY <1>1 DEF Take
  <1>2. CASE x \notin Jobs
    BY <1>2 DEF Take
  <1>3. QED
    BY <1>1, <1>2

\* What a thief writes: age, and only by an exchange that succeeds.
LEMMA ThiefFrame ==
  ASSUME NEW t \in Thieves, Thief(t)
  PROVE  /\ UNCHANGED <<bot, deq, buf, pc, localBot, job, oldAge, nextJob>>
         /\ \/ UNCHANGED <<age, takes>>
            \/ /\ tpc[t] = "top_cas" /\ age = tAge[t]
               /\ age' = [age EXCEPT !.top = @ + 1] /\ Take(tJob[t])
  BY DEF Thief, CallSteal, StealLoadAge, StealLoadBot, StealLoadSlot, StealCas,
         StealReturn, memory, ownerVars

--------------------------------------------------------------------------------
(* Preservation, one conjunct of the invariant after the other.                *)

\* The store buffer: every load of bot or age comes after a fence that has
\* emptied it.
LEMMA BufStep ==
  ASSUME TypeOK, BufInv, BotInv, [Next]_vars
  PROVE  BufInv'
  <1> USE DEF BufInv, SlotStore, BotStore, AgeStore, NewAge
  <1>1. CASE CallPush
    BY <1>1 DEF CallPush, memory
  <1>2. CASE PushLoadBot
    BY <1>2 DEF PushLoadBot, memory
  <1>3. CASE PushStoreSlot
    <2>1. buf = <<>> /\ localBot' - 1 = localBot
      BY <1>3 DEF PushStoreSlot, TypeOK
    <2>2. buf' = <<[to |-> "slot", at |-> localBot, val |-> job]>>
      BY <1>3, <2>1, ShortSeqs DEF PushStoreSlot, Store
    <2>3. QED
      BY <1>3, <2>1, <2>2 DEF PushStoreSlot
  <1>4. CASE PushStoreBot
    <2>1. CASE buf = <<>>
      <3>1. buf' = <<BotStore(localBot)>>
        BY <1>4, <2>1, ShortSeqs DEF PushStoreBot, Store
      <3>2. QED
        BY <1>4, <3>1 DEF PushStoreBot
    <2>2. CASE buf = <<SlotStore>>
      <3>1. buf' = <<SlotStore, BotStore(localBot)>>
        BY <1>4, <2>2, ShortSeqs DEF PushStoreBot, Store
      <3>2. QED
        BY <1>4, <3>1 DEF PushStoreBot
    <2>3. QED
      BY <1>4, <2>1, <2>2 DEF PushStoreBot
  <1>5. CASE PushFence
    BY <1>5 DEF PushFence, memory, Fenced
  <1>6. CASE CallPop
    BY <1>6 DEF CallPop, memory
  <1>7. CASE PopLoadBot
    BY <1>7 DEF PopLoadBot, memory
  <1>8. CASE PopStoreBot
    <2>1. buf' = <<BotStore(localBot)>>
      BY <1>8, ShortSeqs DEF PopStoreBot, Store
    <2>2. QED
      BY <1>8, <2>1 DEF PopStoreBot
  <1>9. CASE PopFence
    BY <1>9 DEF PopFence, memory, Fenced
  <1>10. CASE PopLoadSlot
    BY <1>10 DEF PopLoadSlot, memory
  <1>11. CASE PopLoadAge
    BY <1>11 DEF PopLoadAge, memory
  <1>12. CASE PopResetBot
    <2>1. buf' = <<BotStore(0)>>
      BY <1>12, ShortSeqs DEF PopResetBot, Store
    <2>2. QED
      BY <1>12, <2>1 DEF PopResetBot
  <1>13. CASE PopCas
    BY <1>13 DEF PopCas, Fenced
  <1>14. CASE PopStoreAge
    <2>1. CASE buf = <<>>
      <3>1. buf' = <<AgeStore>>
        BY <1>14, <2>1, ShortSeqs DEF PopStoreAge, Store
      <3>2. QED
        BY <1>14, <3>1 DEF PopStoreAge
    <2>2. CASE buf = <<BotStore(0)>>
      <3>1. buf' = <<BotStore(0), AgeStore>>
        BY <1>14, <2>2, ShortSeqs DEF PopStoreAge, Store
      <3>2. QED
        BY <1>14, <3>1 DEF PopStoreAge
    <2>3. QED
      BY <1>14, <2>1, <2>2 DEF PopStoreAge
  <1>15. CASE PopLastFence
    BY <1>15 DEF PopLastFence, memory, Fenced
  <1>16. CASE Return
    BY <1>16 DEF Return, memory
  <1>17. CASE Drain
    BY <1>17, DrainCases DEF ownerVars
  <1>18. ASSUME NEW t \in Thieves, Thief(t)
         PROVE  BufInv'
    BY <1>18, ThiefFrame
  <1>19. CASE UNCHANGED vars
    BY <1>19 DEF vars, memory, ownerVars
  <1>20. QED
    BY <1>1, <1>2, <1>3, <1>4, <1>5, <1>6, <1>7, <1>8, <1>9, <1>10, <1>11, <1>12,
       <1>13, <1>14, <1>15, <1>16, <1>17, <1>18, <1>19 DEF Next, Owner

\* Types: bot and top stay within the array.
LEMMA TypeStep ==
  ASSUME TypeOK, BufInv, BotInv, AgeInv, ThiefInv, OwnJobInv, [Next]_vars
  PROVE  TypeOK'
  <1> USE NumJobsAssumption, QSizeAssumption
      DEF TypeOK, OwnerAt, Jobs, NoJob, Slots, Ages, Take
  <1>1. CASE CallPush
    BY <1>1 DEF CallPush, memory, thiefVars
  <1>2. CASE PushLoadBot
    BY <1>2, LoadFromMemory DEF PushLoadBot, BufInv, memory, thiefVars
  <1>3. CASE PushStoreSlot
    <2>1. [to |-> "slot", at |-> localBot, val |-> job] \in Stores
      BY <1>3 DEF PushStoreSlot, BotInv, OwnJobInv, Pushing, Stores
    <2>2. buf' \in Seq(Stores)
      BY <1>3, <2>1, AppendProperties DEF PushStoreSlot, Store
    <2>3. QED
      BY SMTT(30), <1>3, <2>2 DEF PushStoreSlot, BotInv, thiefVars
  <1>4. CASE PushStoreBot
    <2>1. BotStore(localBot) \in Stores
      BY <1>4 DEF PushStoreBot, BotStore, Stores
    <2>2. buf' \in Seq(Stores)
      BY <1>4, <2>1, AppendProperties DEF PushStoreBot, Store, BotStore
    <2>3. QED
      BY <1>4, <2>2 DEF PushStoreBot, thiefVars
  <1>5. CASE PushFence
    BY <1>5 DEF PushFence, memory, thiefVars
  <1>6. CASE CallPop
    BY <1>6 DEF CallPop, memory, thiefVars
  <1>7. CASE PopLoadBot
    BY SMTT(30), <1>7, LoadFromMemory DEF PopLoadBot, BufInv, memory, thiefVars
  <1>8. CASE PopStoreBot
    <2>1. BotStore(localBot) \in Stores
      BY <1>8 DEF PopStoreBot, BotStore, Stores
    <2>2. buf' \in Seq(Stores)
      BY <1>8, <2>1, AppendProperties DEF PopStoreBot, Store, BotStore
    <2>3. QED
      BY <1>8, <2>2 DEF PopStoreBot, thiefVars
  <1>9. CASE PopFence
    BY <1>9 DEF PopFence, memory, thiefVars
  <1>10. CASE PopLoadSlot
    BY <1>10, LoadFromMemory DEF PopLoadSlot, BufInv, BotInv, memory, thiefVars
  <1>11. CASE PopLoadAge
    <2>1. oldAge' = age
      BY <1>11, LoadFromMemory DEF PopLoadAge, BufInv
    <2>2. takes' \in [Jobs -> Nat]
      BY SMTT(30), <1>11 DEF PopLoadAge
    <2>3. QED
      BY <1>11, <2>1, <2>2 DEF PopLoadAge, memory, thiefVars
  <1>12. CASE PopResetBot
    <2>1. BotStore(0) \in Stores
      BY <1>12 DEF PopResetBot, BotStore, Stores
    <2>2. buf' \in Seq(Stores)
      BY <1>12, <2>1, AppendProperties DEF PopResetBot, Store, BotStore
    <2>3. QED
      BY <1>12, <2>2 DEF PopResetBot, thiefVars
  <1>13. CASE PopCas
    <2>1. takes' \in [Jobs -> Nat] /\ age' \in Ages
      BY <1>13 DEF PopCas, NewAge
    <2>2. QED
      BY <1>13, <2>1 DEF PopCas, thiefVars
  <1>14. CASE PopStoreAge
    <2>1. AgeStore \in Stores
      BY <1>14 DEF PopStoreAge, AgeStore, NewAge, Stores
    <2>2. buf' \in Seq(Stores)
      BY <1>14, <2>1, AppendProperties DEF PopStoreAge, Store, AgeStore
    <2>3. QED
      BY <1>14, <2>2 DEF PopStoreAge, thiefVars
  <1>15. CASE PopLastFence
    BY <1>15 DEF PopLastFence, memory, thiefVars
  <1>16. CASE Return
    BY <1>16 DEF Return, memory, thiefVars
  <1>17. CASE Drain
    <2>1. buf' \in Seq(Stores)
      BY <1>17, HeadTailProperties DEF Drain
    <2>2. bot' \in Slots /\ age' \in Ages /\ deq' \in [Slots -> Jobs \union {NoJob}]
      <3>1. CASE bot' = bot /\ age' = age /\ deq' = [deq EXCEPT ![localBot - 1] = job]
                 /\ pc \in {"push_bot", "thrown", "push_fence"} /\ buf # <<>>
        BY <3>1 DEF OwnJobInv, Pushing
      <3>2. CASE pc \in {"push_fence", "pop_fence"} /\ bot' = localBot
                 /\ UNCHANGED <<deq, age>>
        BY <3>2 DEF BotInv
      <3>3. CASE bot' = 0 /\ UNCHANGED <<deq, age>>
        BY <3>3
      <3>4. CASE age' = NewAge /\ UNCHANGED <<deq, bot>>
        BY <3>4 DEF NewAge
      <3>5. QED
        BY <1>17, <3>1, <3>2, <3>3, <3>4, DrainCases, ShortSeqs
    <2>3. QED
      BY <1>17, <2>1, <2>2 DEF Drain, ownerVars, thiefVars
  <1>18. ASSUME NEW t \in Thieves, CallSteal(t)
         PROVE  TypeOK'
    BY <1>18 DEF CallSteal, ThiefInv, memory, ownerVars
  <1>19. ASSUME NEW t \in Thieves, StealLoadAge(t)
         PROVE  TypeOK'
    BY <1>19 DEF StealLoadAge, ThiefInv, memory, ownerVars
  <1>20. ASSUME NEW t \in Thieves, StealLoadBot(t)
         PROVE  TypeOK'
    BY <1>20 DEF StealLoadBot, ThiefInv, memory, ownerVars
  <1>21. ASSUME NEW t \in Thieves, StealLoadSlot(t)
         PROVE  TypeOK'
    BY SMTT(30), <1>21 DEF StealLoadSlot, ThiefInv, memory, ownerVars
  <1>22. ASSUME NEW t \in Thieves, StealCas(t)
         PROVE  TypeOK'
    <2>1. takes' \in [Jobs -> Nat]
      BY <1>22, TakeType DEF StealCas
    <2>2. age' \in Ages
      <3>1. age = tAge[t] => age.top + 1 \in 0 .. QSize
        BY SMTT(30), <1>22 DEF StealCas, ThiefInv
      <3>2. age' = age \/ (age = tAge[t] /\ age' = [age EXCEPT !.top = @ + 1])
        BY <1>22 DEF StealCas
      <3>3. QED
        BY <3>1, <3>2
    <2>3. QED
      BY <1>22, <2>1, <2>2 DEF StealCas, ownerVars
  <1>23. ASSUME NEW t \in Thieves, StealReturn(t)
         PROVE  TypeOK'
    BY <1>23 DEF StealReturn, ThiefInv, memory, ownerVars
  <1>24. CASE UNCHANGED vars
    BY <1>24 DEF vars, memory, ownerVars, thiefVars
  <1>25. QED
    BY <1>1, <1>2, <1>3, <1>4, <1>5, <1>6, <1>7, <1>8, <1>9, <1>10, <1>11, <1>12, <1>13, <1>14,
       <1>15, <1>16, <1>17, <1>18, <1>19, <1>20, <1>21, <1>22, <1>23, <1>24
    DEF Next, Owner, Thief

\* bot in memory and the owner's copy of it.
LEMMA BotStep ==
  ASSUME TypeOK, BufInv, BotInv, [Next]_vars
  PROVE  BotInv'
  <1> USE QSizeAssumption DEF TypeOK, Slots, BotInv
  <1>1. CASE CallPush
    BY <1>1 DEF CallPush, memory
  <1>2. CASE PushLoadBot
    BY <1>2, LoadFromMemory DEF PushLoadBot, BufInv, memory
  <1>3. CASE PushStoreSlot
    BY <1>3 DEF PushStoreSlot, BufInv
  <1>4. CASE PushStoreBot
    BY <1>4 DEF PushStoreBot, BufInv, BotStore, Store
  <1>5. CASE PushFence
    BY <1>5 DEF PushFence, memory, Fenced
  <1>6. CASE CallPop
    BY <1>6 DEF CallPop, memory
  <1>7. CASE PopLoadBot
    <2>1. Load("bot", 0, bot) = bot
      BY <1>7, LoadFromMemory DEF PopLoadBot, BufInv
    <2>2. /\ bot' = bot
          /\ pc' = "return" \/ (pc' = "pop_bot" /\ localBot' = bot - 1)
      BY <1>7, <2>1 DEF PopLoadBot, memory
    <2>3. QED
      BY <2>2
  <1>8. CASE PopStoreBot
    BY SMTT(30), <1>8 DEF PopStoreBot, BufInv, Store, BotStore
  <1>9. CASE PopFence
    BY <1>9 DEF PopFence, memory, Fenced
  <1>10. CASE PopLoadSlot
    BY <1>10, LoadFromMemory DEF PopLoadSlot, memory
  <1>11. CASE PopLoadAge
    BY <1>11, LoadFromMemory DEF PopLoadAge, memory
  <1>12. CASE PopResetBot
    BY SMTT(30), <1>12 DEF PopResetBot, Store, BufInv
  <1>13. CASE PopCas
    BY <1>13 DEF PopCas, Fenced
  <1>14. CASE PopStoreAge
    <2>1. AgeStore' = AgeStore /\ BotStore(0)' = BotStore(0)
      BY <1>14 DEF PopStoreAge, BotStore, AgeStore, NewAge
    <2>2. CASE buf = <<>>
      <3>1. buf' = <<AgeStore>>
        BY <1>14, <2>2, ShortSeqs DEF PopStoreAge, Store, AgeStore
      <3>2. buf' # <<BotStore(0), AgeStore>>
        BY <3>1, ShortSeqs
      <3>3. QED
        BY <1>14, <2>1, <2>2, <3>2 DEF PopStoreAge
    <2>3. CASE buf = <<BotStore(0)>>
      <3>1. buf # <<>> /\ buf' = <<BotStore(0), AgeStore>>
        BY <1>14, <2>3, ShortSeqs DEF PopStoreAge, Store, AgeStore
      <3>2. QED
        BY <1>14, <2>1, <3>1 DEF PopStoreAge
    <2>4. QED
      BY <1>14, <2>2, <2>3 DEF PopStoreAge, BufInv
  <1>15. CASE PopLastFence
    BY <1>15 DEF PopLastFence, memory
  <1>16. CASE Return
    BY <1>16 DEF Return, memory
  <1>17. CASE Drain
    <2>1. /\ UNCHANGED <<pc, localBot, job, oldAge>>
          /\ AgeStore' = AgeStore /\ BotStore(0)' = BotStore(0)
          /\ BotStore(localBot)' = BotStore(localBot)
      BY <1>17, DrainCases DEF ownerVars, BotStore, AgeStore, NewAge
    <2>2. CASE pc \in {"push_bot", "thrown"} /\ UNCHANGED bot
      BY <2>1, <2>2
    <2>3. CASE pc = "push_fence" /\ buf = <<SlotStore, BotStore(localBot)>>
               /\ buf' = <<BotStore(localBot)>> /\ UNCHANGED bot
      BY <2>1, <2>3, ShortSeqs
    <2>4. CASE pc \in {"push_fence", "pop_fence"} /\ buf = <<BotStore(localBot)>>
               /\ buf' = <<>> /\ bot' = localBot
      BY <2>1, <2>4
    <2>5. CASE pc \in {"pop_cas", "pop_store_age"} /\ buf' = <<>> /\ bot' = 0
      BY <2>1, <2>5
    <2>6. CASE pc = "pop_last_fence" /\ buf' = <<AgeStore>> /\ bot' = 0
      BY <2>1, <2>6, ShortSeqs
    <2>7. CASE pc = "pop_last_fence" /\ buf = <<AgeStore>> /\ buf' = <<>> /\ UNCHANGED bot
      BY <2>1, <2>7, ShortSeqs
    <2>8. QED
      BY <1>17, <2>2, <2>3, <2>4, <2>5, <2>6, <2>7, DrainCases
  <1>18. ASSUME NEW t \in Thieves, Thief(t)
         PROVE  BotInv'
    BY <1>18, ThiefFrame DEF BotStore, AgeStore, NewAge
  <1>19. CASE UNCHANGED vars
    BY <1>19 DEF vars, memory, ownerVars, BotStore, AgeStore, NewAge
  <1>20. QED
    BY <1>1, <1>2, <1>3, <1>4, <1>5, <1>6, <1>7, <1>8, <1>9, <1>10, <1>11, <1>12, <1>13, <1>14,
       <1>15, <1>16, <1>17, <1>18, <1>19
    DEF Next, Owner

\* top against the bottom: it is beyond it only between the pop of the last
\* job and the reset of age.
LEMMA AgeStep ==
  ASSUME TypeOK, BufInv, BotInv, AgeInv, ThiefInv, [Next]_vars
  PROVE  AgeInv'
  <1> USE DEF TypeOK, Slots, Ages, AgeInv, Resetting, LogicalBot, Undecided
  <1>1. CASE CallPush
    BY <1>1 DEF CallPush, memory
  <1>2. CASE PushLoadBot
    BY <1>2, LoadFromMemory DEF PushLoadBot, memory
  <1>3. CASE PushStoreSlot
    BY <1>3 DEF PushStoreSlot, Store
  <1>4. CASE PushStoreBot
    BY <1>4 DEF PushStoreBot, Store
  <1>5. CASE PushFence
    BY <1>5 DEF PushFence, memory
  <1>6. CASE CallPop
    BY <1>6 DEF CallPop, memory
  <1>7. CASE PopLoadBot
    BY <1>7, LoadFromMemory DEF PopLoadBot, BotInv, memory
  <1>8. CASE PopStoreBot
    BY <1>8 DEF PopStoreBot, BotInv, Store
  <1>9. CASE PopFence
    BY <1>9 DEF PopFence, BotInv, memory, Fenced
  <1>10. CASE PopLoadSlot
    BY <1>10, LoadFromMemory DEF PopLoadSlot, memory
  <1>11. CASE PopLoadAge
    <2>1. oldAge' = age
      BY <1>11, LoadFromMemory DEF PopLoadAge, BufInv
    <2>2. QED
      BY <1>11, <2>1 DEF PopLoadAge, BotInv, memory
  <1>12. CASE PopResetBot
    BY <1>12 DEF PopResetBot, BotInv, Store
  <1>13. CASE PopCas
    BY <1>13 DEF PopCas, BotInv, Fenced, NewAge
  <1>14. CASE PopStoreAge
    <2>1. buf' # <<>>
      BY <1>14, AppendProperties, ShortSeqs DEF PopStoreAge, Store, BufInv
    <2>2. QED
      BY <1>14, <2>1 DEF PopStoreAge
  <1>15. CASE PopLastFence
    BY <1>15 DEF PopLastFence, Fenced, BotInv, memory
  <1>16. CASE Return
    BY <1>16 DEF Return, memory
  <1>17. CASE Drain
    <2>1. UNCHANGED <<pc, localBot, job, oldAge>>
      BY <1>17, DrainCases DEF ownerVars
    <2>2. CASE pc \in {"push_bot", "thrown"} /\ UNCHANGED <<bot, age>>
      BY <2>1, <2>2
    <2>3. CASE pc = "push_fence" /\ UNCHANGED <<bot, age>>
      BY <2>1, <2>3
    <2>4. CASE pc \in {"push_fence", "pop_fence"} /\ buf # <<>> /\ bot' = localBot /\ UNCHANGED age
      BY <2>1, <2>4 DEF BotInv
    <2>5. CASE pc \in {"pop_cas", "pop_store_age"} /\ UNCHANGED age
      BY <2>1, <2>5
    <2>6. CASE pc = "pop_last_fence" /\ buf # <<>> /\ buf' # <<>> /\ UNCHANGED age
      BY <2>1, <2>6
    <2>7. CASE pc = "pop_last_fence" /\ buf' = <<>> /\ age' = NewAge
      <3>1. age'.top = 0 /\ bot' \in Nat
        BY <1>17, <2>7, DrainCases, ShortSeqs DEF NewAge, BotInv
      <3>2. QED
        BY <2>1, <2>7, <3>1
    <2>8. QED
      BY <1>17, <2>2, <2>3, <2>4, <2>5, <2>6, <2>7, DrainCases, ShortSeqs
  <1>18. ASSUME NEW t \in Thieves, Thief(t)
         PROVE  AgeInv'
    <2>1. UNCHANGED <<bot, buf, pc, localBot, oldAge>>
      BY <1>18, ThiefFrame
    <2>2. CASE UNCHANGED age
      BY <2>1, <2>2
    <2>3. CASE tpc[t] = "top_cas" /\ age = tAge[t] /\ age' = [age EXCEPT !.top = @ + 1]
      <3>1. age.top < LogicalBot
        BY <2>3 DEF ThiefInv
      <3>2. ~Resetting
        BY <3>1 DEF BotInv
      <3>3. age'.tag = age.tag /\ age'.top = age.top + 1
        BY <2>3
      <3>4. QED
        BY <2>1, <2>3, <3>1, <3>2, <3>3
    <2>4. QED
      BY <1>18, <2>2, <2>3, ThiefFrame
  <1>19. CASE UNCHANGED vars
    BY <1>19 DEF vars, memory, ownerVars, thiefVars
  <1>20. QED
    BY <1>1, <1>2, <1>3, <1>4, <1>5, <1>6, <1>7, <1>8, <1>9, <1>10, <1>11, <1>12, <1>13, <1>14,
       <1>15, <1>16, <1>17, <1>18, <1>19
    DEF Next, Owner

\* Two ages with equal fields are equal.
LEMMA AgeEqual ==
  ASSUME NEW a \in Ages, NEW b \in Ages, a.tag = b.tag, a.top = b.top
  PROVE  a = b
  BY DEF Ages

\* A thief keeps its prospect as long as age and the job at top stay, ...
LEMMA ThiefKept ==
  ASSUME TypeOK, ThiefInv, UNCHANGED <<tpc, tJob, tAge, age>>,
         age.top < LogicalBot => age.top < LogicalBot' /\ deq'[age.top] = deq[age.top]
  PROVE  ThiefInv'
  BY DEF ThiefInv

\* ... and loses it when age gets a new tag.
LEMMA ThiefOutdated ==
  ASSUME TypeOK, ThiefInv, UNCHANGED <<tpc, tJob, tAge>>, age'.tag = age.tag + 1
  PROVE  ThiefInv'
  BY DEF ThiefInv, TypeOK, Ages

\* The thieves: the tag grows with every reset, so that an age seen before it
\* is never current again.
LEMMA ThiefStep ==
  ASSUME TypeOK, BufInv, BotInv, AgeInv, ThiefInv, OwnJobInv, [Next]_vars
  PROVE  ThiefInv'
  <1> USE QSizeAssumption DEF TypeOK, Slots, Ages, LogicalBot, Undecided
  <1>1. CASE CallPush
    <2>1. UNCHANGED <<tpc, tJob, tAge, age, deq>> /\ LogicalBot' = LogicalBot
      BY <1>1 DEF CallPush, memory, thiefVars, BotInv
    <2>2. QED
      BY <2>1, ThiefKept
  <1>2. CASE PushLoadBot
    <2>1. UNCHANGED <<tpc, tJob, tAge, age, deq>> /\ LogicalBot' = LogicalBot
      BY <1>2 DEF PushLoadBot, memory, thiefVars, BotInv
    <2>2. QED
      BY <2>1, ThiefKept
  <1>3. CASE PushStoreSlot
    <2>1. UNCHANGED <<tpc, tJob, tAge, age, deq>> /\ LogicalBot' = LogicalBot
      BY <1>3 DEF PushStoreSlot, Store, thiefVars, BotInv
    <2>2. QED
      BY <2>1, ThiefKept
  <1>4. CASE PushStoreBot
    <2>1. UNCHANGED <<tpc, tJob, tAge, age, deq>> /\ LogicalBot' = LogicalBot
      BY <1>4 DEF PushStoreBot, Store, thiefVars, BotInv
    <2>2. QED
      BY <2>1, ThiefKept
  <1>5. CASE PushFence
    <2>1. UNCHANGED <<tpc, tJob, tAge, age, deq>> /\ LogicalBot' = LogicalBot
      BY <1>5 DEF PushFence, memory, thiefVars, BotInv
    <2>2. QED
      BY <2>1, ThiefKept
  <1>6. CASE CallPop
    <2>1. UNCHANGED <<tpc, tJob, tAge, age, deq>> /\ LogicalBot' = LogicalBot
      BY <1>6 DEF CallPop, memory, thiefVars, BotInv
    <2>2. QED
      BY <2>1, ThiefKept
  <1>7. CASE PopLoadBot
    <2>1. UNCHANGED <<tpc, tJob, tAge, age, deq>> /\ LogicalBot' = LogicalBot
      BY <1>7 DEF PopLoadBot, memory, thiefVars, BotInv
    <2>2. QED
      BY <2>1, ThiefKept
  <1>8. CASE PopStoreBot
    <2>1. UNCHANGED <<tpc, tJob, tAge, age, deq>> /\ LogicalBot' = LogicalBot
      BY <1>8 DEF PopStoreBot, Store, thiefVars, BotInv
    <2>2. QED
      BY <2>1, ThiefKept
  <1>9. CASE PopFence
    <2>1. UNCHANGED <<tpc, tJob, tAge, age, deq>> /\ LogicalBot' = LogicalBot
      BY <1>9 DEF PopFence, memory, thiefVars, BotInv
    <2>2. QED
      BY <2>1, ThiefKept
  <1>10. CASE PopLoadSlot
    <2>1. UNCHANGED <<tpc, tJob, tAge, age, deq>> /\ LogicalBot' = LogicalBot
      BY <1>10 DEF PopLoadSlot, memory, thiefVars, BotInv
    <2>2. QED
      BY <2>1, ThiefKept
  <1>11. CASE PopLoadAge
    <2>1. UNCHANGED <<tpc, tJob, tAge, age, deq>> /\ oldAge' = age
      BY <1>11, LoadFromMemory DEF PopLoadAge, BufInv, memory, thiefVars
    <2>2. age.top < LogicalBot => age.top < LogicalBot'
      BY <1>11, <2>1 DEF PopLoadAge, BotInv, memory
    <2>3. QED
      BY <2>1, <2>2, ThiefKept
  <1>12. CASE PopResetBot
    <2>1. UNCHANGED <<tpc, tJob, tAge, age, deq>> /\ LogicalBot' = LogicalBot
      BY <1>12 DEF PopResetBot, Store, thiefVars, BotInv
    <2>2. QED
      BY <2>1, ThiefKept
  <1>13. CASE PopCas
    <2>1. CASE age = oldAge
      <3>1. UNCHANGED <<tpc, tJob, tAge>> /\ age'.tag = age.tag + 1
        BY <1>13, <2>1 DEF PopCas, NewAge, thiefVars
      <3>2. QED
        BY <3>1, ThiefOutdated
    <2>2. CASE age # oldAge
      <3>1. UNCHANGED <<tpc, tJob, tAge, age, deq>>
        BY <1>13, <2>2 DEF PopCas, thiefVars
      <3>2. age.top # oldAge.top
        <4>1. age.tag = oldAge.tag /\ age \in Ages /\ oldAge \in Ages
          BY <1>13 DEF PopCas, AgeInv
        <4>2. QED
          BY <2>2, <4>1, AgeEqual
      <3>3. ~(age.top < LogicalBot)
        BY <1>13, <3>2 DEF PopCas, AgeInv
      <3>4. QED
        BY <3>1, <3>3, ThiefKept
    <2>3. QED
      BY <2>1, <2>2
  <1>14. CASE PopStoreAge
    <2>1. UNCHANGED <<tpc, tJob, tAge, age, deq>> /\ LogicalBot' = LogicalBot
      BY <1>14 DEF PopStoreAge, Store, thiefVars, BotInv
    <2>2. QED
      BY <2>1, ThiefKept
  <1>15. CASE PopLastFence
    <2>1. UNCHANGED <<tpc, tJob, tAge, age, deq>> /\ LogicalBot' = LogicalBot
      BY <1>15 DEF PopLastFence, memory, thiefVars, BotInv
    <2>2. QED
      BY <2>1, ThiefKept
  <1>16. CASE Return
    <2>1. UNCHANGED <<tpc, tJob, tAge, age, deq>> /\ LogicalBot' = LogicalBot
      BY <1>16 DEF Return, memory, thiefVars, BotInv
    <2>2. QED
      BY <2>1, ThiefKept
  <1>17. CASE Drain
    <2>1. UNCHANGED <<pc, localBot, oldAge, tpc, tJob, tAge>>
      BY <1>17, DrainCases DEF ownerVars, thiefVars
    <2>2. CASE /\ pc \in {"push_bot", "thrown", "push_fence"} /\ buf # <<>>
               /\ deq' = [deq EXCEPT ![localBot - 1] = job] /\ UNCHANGED <<bot, age>>
      <3>1. LogicalBot' = LogicalBot /\ LogicalBot = localBot - 1
        BY <2>1, <2>2 DEF BotInv
      <3>2. age.top < LogicalBot => deq'[age.top] = deq[age.top]
        BY <2>2, <3>1
      <3>3. QED
        BY <2>1, <2>2, <3>1, <3>2, ThiefKept
    <2>3. CASE /\ pc \in {"push_fence", "pop_fence"} /\ buf # <<>>
               /\ bot' = localBot /\ UNCHANGED <<deq, age>>
      <3>1. LogicalBot <= LogicalBot'
        BY <2>1, <2>3 DEF BotInv
      <3>2. QED
        BY <2>1, <2>3, <3>1, ThiefKept
    <2>4. CASE pc \in {"pop_cas", "pop_store_age"} /\ UNCHANGED <<deq, age>>
      <3>1. age.top < LogicalBot => LogicalBot' = LogicalBot
        <4>1. CASE pc = "pop_cas"
          BY <2>1, <4>1 DEF AgeInv
        <4>2. CASE pc = "pop_store_age"
          BY <4>2 DEF AgeInv, Resetting, BotInv
        <4>3. QED
          BY <2>4, <4>1, <4>2
      <3>2. QED
        BY <2>1, <2>4, <3>1, ThiefKept
    <2>5. CASE pc = "pop_last_fence" /\ buf # <<>> /\ UNCHANGED <<deq, age>>
      <3>1. ~(age.top < LogicalBot)
        BY <2>1, <2>5 DEF AgeInv, Resetting, BotInv
      <3>2. QED
        BY <2>1, <2>5, <3>1, ThiefKept
    <2>6. CASE pc = "pop_last_fence" /\ buf # <<>> /\ age' = NewAge
      <3>1. age'.tag = age.tag + 1
        BY <2>6 DEF AgeInv, Resetting, NewAge
      <3>2. QED
        BY <2>1, <3>1, ThiefOutdated
    <2>7. QED
      BY <1>17, <2>2, <2>3, <2>4, <2>5, <2>6, DrainCases, ShortSeqs
  <1>18. ASSUME NEW t \in Thieves, Thief(t)
         PROVE  ThiefInv'
    <2>1. LogicalBot' = LogicalBot /\ UNCHANGED <<bot, deq>>
      BY <1>18, ThiefFrame
    <2>2. CASE CallSteal(t)
      BY <2>1, <2>2 DEF CallSteal, ThiefInv, memory
    <2>3. CASE StealLoadAge(t)
      BY <2>1, <2>3 DEF StealLoadAge, ThiefInv, memory
    <2>4. CASE StealLoadBot(t)
      <3>1. bot <= LogicalBot
        BY DEF BotInv, AgeInv
      <3>2. tpc'[t] = "top_slot" => tAge[t].top < bot
        BY <2>4 DEF StealLoadBot
      <3>3. UNCHANGED <<age, tJob, tAge>>
        BY <2>4 DEF StealLoadBot, memory
      <3> HIDE DEF LogicalBot
      <3>4. \A u \in Thieves : tpc'[u] = tpc[u] \/ (u = t /\ tpc'[u] \in {"top_slot", "return"})
        BY <2>4 DEF StealLoadBot
      <3>5. tpc'[t] \in {"top_slot", "top_cas"} =>
              tAge[t].top + 1 < QSize /\ (tAge[t] = age => age.top < LogicalBot)
        <4>1. bot \in Nat /\ LogicalBot \in Nat /\ bot < QSize
          BY DEF LogicalBot
        <4>2. QED
          BY <2>4, <3>1, <3>2, <4>1 DEF StealLoadBot
      <3>6. QED
        BY <2>1, <2>4, <3>3, <3>4, <3>5 DEF ThiefInv
    <2>5. CASE StealLoadSlot(t)
      <3> HIDE DEF LogicalBot
      <3>1. QED
        BY <2>1, <2>5 DEF StealLoadSlot, ThiefInv, memory
    <2>6. CASE StealCas(t)
      <3> HIDE DEF LogicalBot
      <3>1. CASE age = tAge[t]
        <4>1. /\ age'.tag = age.tag /\ age'.top = age.top + 1
              /\ UNCHANGED <<tJob, tAge>> /\ tpc' = [tpc EXCEPT ![t] = "return"]
          BY <2>6, <3>1 DEF StealCas
        <4>2. QED
          BY <2>1, <4>1 DEF ThiefInv
      <3>2. CASE age # tAge[t]
        BY <2>1, <2>6, <3>2 DEF StealCas, ThiefInv
      <3>3. QED
        BY <3>1, <3>2
    <2>7. CASE StealReturn(t)
      BY <2>1, <2>7 DEF StealReturn, ThiefInv, memory
    <2>8. QED
      BY <1>18, <2>2, <2>3, <2>4, <2>5, <2>6, <2>7 DEF Thief
  <1>19. CASE UNCHANGED vars
    <2>1. UNCHANGED <<tpc, tJob, tAge, age, deq>> /\ LogicalBot' = LogicalBot
      BY <1>19 DEF vars, memory, ownerVars, thiefVars
    <2>2. QED
      BY <2>1, ThiefKept
  <1>20. QED
    BY <1>1, <1>2, <1>3, <1>4, <1>5, <1>6, <1>7, <1>8, <1>9, <1>10, <1>11, <1>12, <1>13, <1>14,
       <1>15, <1>16, <1>17, <1>18, <1>19
    DEF Next, Owner
\* The jobs are as they were when the held part of the array is, ...
LEMMA HeldKept ==
  ASSUME HeldInv, UNCHANGED <<takes, nextJob>>, Pushing' = Pushing,
         Held' = Held, \A s \in Held : deq'[s] = deq[s]
  PROVE  HeldInv'
  BY DEF HeldInv

\* ... or when one job has been taken out of it.
LEMMA HeldTaken ==
  ASSUME TypeOK, HeldInv, NEW s \in Held, Take(deq[s]), Held' = Held \ {s},
         Pushing' = Pushing, UNCHANGED <<deq, nextJob>>
  PROVE  HeldInv'
  <1>1. deq[s] \in 1 .. nextJob - 1 /\ takes[deq[s]] = 0 /\ deq[s] \in Jobs
        /\ (Pushing => deq[s] # nextJob - 1)
    BY NumJobsAssumption DEF HeldInv, TypeOK, Jobs
  <1>2. \A x \in Jobs : takes'[x] = IF x = deq[s] THEN 1 ELSE takes[x]
    BY <1>1 DEF Take, TypeOK
  <1>3. \A r \in Held' : r \in Held /\ deq[r] # deq[s]
    BY DEF HeldInv
  <1>4. 1 .. nextJob - 1 \subseteq Jobs
    BY NumJobsAssumption DEF TypeOK, Jobs
  <1>5. /\ \A r \in Held' : /\ deq'[r] \in 1 .. nextJob' - 1
                            /\ Pushing' => deq'[r] # nextJob' - 1
                            /\ takes'[deq'[r]] = 0
        /\ \A q, r \in Held' : deq'[q] = deq'[r] => q = r
    BY <1>2, <1>3, <1>4 DEF HeldInv
  <1>6. /\ \A x \in Jobs : takes'[x] <= 1
        /\ \A x \in Jobs : x >= nextJob' \/ (Pushing' /\ x = nextJob' - 1) => takes'[x] = 0
    BY <1>1, <1>2 DEF HeldInv, TypeOK, Jobs
  <1>7. \A x \in 1 .. nextJob' - 1 :
          \/ Pushing' /\ x = nextJob' - 1
          \/ takes'[x] = 1
          \/ \E r \in Held' : deq'[r] = x
    BY <1>2, <1>4 DEF HeldInv
  <1>8. QED
    BY <1>5, <1>6, <1>7 DEF HeldInv, Jobs

\* The jobs: a store to the array does not overwrite a job that is held, and
\* what leaves the array is taken once.
LEMMA HeldStep ==
  ASSUME TypeOK, BufInv, BotInv, AgeInv, ThiefInv, HeldInv, OwnJobInv, [Next]_vars
  PROVE  HeldInv'
  <1> USE QSizeAssumption, NumJobsAssumption DEF TypeOK, Slots, Ages, Held, LogicalBot,
      Undecided, Pushing
  <1>1. CASE CallPush
    <2>1. UNCHANGED <<takes, deq>> /\ Held' = Held /\ nextJob' = nextJob + 1
          /\ ~Pushing /\ Pushing' /\ nextJob \in Jobs
      BY <1>1 DEF CallPush, memory, Jobs
    <2>2. nextJob' - 1 = nextJob /\ nextJob \in Nat
      BY <2>1
    <2> HIDE DEF Held, Pushing
    <2>3. QED
      BY <2>1, <2>2 DEF HeldInv, Jobs
  <1>2. CASE PushLoadBot
    <2>1. UNCHANGED <<takes, nextJob, deq>> /\ Held' = Held
      BY <1>2 DEF PushLoadBot, memory, BotInv
    <2>2. Pushing' = Pushing
      BY <1>2 DEF PushLoadBot, memory
    <2>3. QED
      BY <2>1, <2>2, HeldKept
  <1>3. CASE PushStoreSlot
    <2>1. UNCHANGED <<takes, nextJob, deq>> /\ Held' = Held
      BY <1>3 DEF PushStoreSlot, Store, BotInv
    <2>2. Pushing' = Pushing
      BY <1>3 DEF PushStoreSlot, Store
    <2>3. QED
      BY <2>1, <2>2, HeldKept
  <1>4. CASE PushStoreBot
    <2>1. UNCHANGED <<takes, nextJob, deq>> /\ Held' = Held
      BY <1>4 DEF PushStoreBot, Store, BotInv
    <2>2. buf' # <<>>
      BY <1>4, ShortSeqs DEF PushStoreBot, Store, BufInv
    <2>3. Pushing' = Pushing
      BY <1>4, <2>2 DEF PushStoreBot
    <2>4. QED
      BY <2>1, <2>3, HeldKept
  <1>5. CASE PushFence
    <2>1. UNCHANGED <<takes, nextJob, deq>> /\ Held' = Held
      BY <1>5 DEF PushFence, memory, Fenced, BotInv
    <2>2. Pushing' = Pushing
      BY <1>5 DEF PushFence, memory, Fenced
    <2>3. QED
      BY <2>1, <2>2, HeldKept
  <1>6. CASE CallPop
    <2>1. UNCHANGED <<takes, nextJob, deq>> /\ Held' = Held
      BY <1>6 DEF CallPop, memory, BotInv
    <2>2. Pushing' = Pushing
      BY <1>6 DEF CallPop, memory
    <2>3. QED
      BY <2>1, <2>2, HeldKept
  <1>7. CASE PopLoadBot
    <2>1. UNCHANGED <<takes, nextJob, deq>> /\ Held' = Held
      BY <1>7 DEF PopLoadBot, memory, BotInv
    <2>2. Pushing' = Pushing
      BY <1>7 DEF PopLoadBot, memory
    <2>3. QED
      BY <2>1, <2>2, HeldKept
  <1>8. CASE PopStoreBot
    <2>1. UNCHANGED <<takes, nextJob, deq>> /\ Held' = Held
      BY <1>8 DEF PopStoreBot, Store, BotInv
    <2>2. Pushing' = Pushing
      BY <1>8 DEF PopStoreBot, Store
    <2>3. QED
      BY <2>1, <2>2, HeldKept
  <1>9. CASE PopFence
    <2>1. UNCHANGED <<takes, nextJob, deq>> /\ Held' = Held
      BY <1>9 DEF PopFence, memory, BotInv
    <2>2. Pushing' = Pushing
      BY <1>9 DEF PopFence, memory
    <2>3. QED
      BY <2>1, <2>2, HeldKept
  <1>10. CASE PopLoadSlot
    <2>1. UNCHANGED <<takes, nextJob, deq>> /\ Held' = Held
      BY <1>10 DEF PopLoadSlot, memory, BotInv
    <2>2. Pushing' = Pushing
      BY <1>10 DEF PopLoadSlot, memory
    <2>3. QED
      BY <2>1, <2>2, HeldKept
  <1>11. CASE PopLoadAge
    <2>1. oldAge' = age /\ UNCHANGED <<deq, nextJob, age, bot, localBot>>
          /\ Pushing' = Pushing
      BY <1>11, LoadFromMemory DEF PopLoadAge, BufInv, memory
    <2>2. CASE localBot > age.top
      <3>1. localBot \in Held /\ Held' = Held \ {localBot} /\ Take(deq[localBot])
        BY <1>11, <2>1, <2>2 DEF PopLoadAge, BotInv, OwnJobInv
      <3>2. QED
        BY <2>1, <3>1, HeldTaken
    <2>3. CASE ~(localBot > age.top)
      <3>1. Held' = Held /\ UNCHANGED takes
        BY <1>11, <2>1, <2>3 DEF PopLoadAge, BotInv
      <3>2. QED
        BY <2>1, <3>1, HeldKept
    <2>4. QED
      BY <2>2, <2>3
  <1>12. CASE PopResetBot
    <2>1. UNCHANGED <<takes, nextJob, deq>> /\ Held' = Held
      BY <1>12 DEF PopResetBot, Store, BotInv
    <2>2. Pushing' = Pushing
      BY <1>12 DEF PopResetBot, Store
    <2>3. QED
      BY <2>1, <2>2, HeldKept
  <1>13. CASE PopCas
    <2>1. UNCHANGED <<bot, deq, nextJob, localBot>> /\ Pushing' = Pushing
          /\ bot = 0 /\ oldAge.top = localBot
      BY <1>13 DEF PopCas, Fenced, BotInv, AgeInv
    <2>2. CASE age = oldAge
      <3>1. localBot \in Held /\ Held' = Held \ {localBot} /\ Take(deq[localBot])
        BY <1>13, <2>1, <2>2 DEF PopCas, NewAge, OwnJobInv
      <3>2. QED
        BY <2>1, <3>1, HeldTaken
    <2>3. CASE age # oldAge
      <3>1. age.top # oldAge.top
        BY <1>13, <2>3, AgeEqual DEF PopCas, AgeInv
      <3>2. Held' = Held /\ UNCHANGED takes
        BY <1>13, <2>1, <2>3, <3>1 DEF PopCas, AgeInv
      <3>3. QED
        BY <2>1, <3>2, HeldKept
    <2>4. QED
      BY <2>2, <2>3
  <1>14. CASE PopStoreAge
    <2>1. UNCHANGED <<takes, nextJob, deq>> /\ Held' = Held
      BY <1>14 DEF PopStoreAge, Store, BotInv
    <2>2. Pushing' = Pushing
      BY <1>14 DEF PopStoreAge, Store
    <2>3. QED
      BY <2>1, <2>2, HeldKept
  <1>15. CASE PopLastFence
    <2>1. UNCHANGED <<takes, nextJob, deq>> /\ Held' = Held
      BY <1>15 DEF PopLastFence, memory, BotInv
    <2>2. Pushing' = Pushing
      BY <1>15 DEF PopLastFence, memory
    <2>3. QED
      BY <2>1, <2>2, HeldKept
  <1>16. CASE Return
    <2>1. UNCHANGED <<takes, nextJob, deq>> /\ Held' = Held
      BY <1>16 DEF Return, memory, BotInv
    <2>2. Pushing' = Pushing
      BY <1>16 DEF Return, memory
    <2>3. QED
      BY <2>1, <2>2, HeldKept
  <1>17. CASE Drain
    <2>1. UNCHANGED <<pc, localBot, job, oldAge, takes, nextJob>>
      BY <1>17, DrainCases DEF ownerVars
    <2>2. CASE /\ pc \in {"push_bot", "thrown", "push_fence"} /\ buf # <<>>
               /\ pc = "push_fence" => buf' # <<>>
               /\ deq' = [deq EXCEPT ![localBot - 1] = job] /\ UNCHANGED <<bot, age>>
      <3>1. Held' = Held /\ Pushing' = Pushing
        BY <2>1, <2>2
      <3>2. \A s \in Held : deq'[s] = deq[s]
        BY <2>1, <2>2 DEF BotInv
      <3>3. QED
        BY <2>1, <3>1, <3>2, HeldKept
    <2>3. CASE pc = "push_fence" /\ buf = <<BotStore(localBot)>>
               /\ buf' = <<>> /\ bot' = localBot /\ UNCHANGED <<deq, age>>
      <3>1. /\ bot \in Held' /\ bot \notin Held /\ Held = Held' \ {bot}
            /\ Pushing /\ ~Pushing'
        BY <2>1, <2>3, ShortSeqs DEF BotInv, AgeInv, Resetting
      <3>2. deq[bot] = nextJob - 1
        BY <2>3, <3>1, ShortSeqs DEF OwnJobInv, BotInv
      <3>3. nextJob - 1 \in Jobs /\ nextJob \in Nat
        BY <2>3, <3>1 DEF OwnJobInv, Jobs
      <3> HIDE DEF Held, Pushing
      <3>4. QED
        BY SMTT(30), <2>1, <2>3, <3>1, <3>2, <3>3 DEF HeldInv, Jobs
    <2>4. CASE pc = "pop_fence" /\ UNCHANGED <<deq, age>>
      BY <2>1, <2>4, HeldKept
    <2>5. CASE pc = "pop_cas" /\ UNCHANGED <<deq, age>>
      <3>1. Held' = Held /\ Pushing' = Pushing
        BY <2>1, <2>5 DEF AgeInv
      <3>2. QED
        BY <2>1, <2>5, <3>1, HeldKept
    <2>6. CASE pc \in {"pop_store_age", "pop_last_fence"} /\ buf # <<>> /\ bot' = 0
               /\ UNCHANGED <<deq, age>>
      <3>1. Held' = Held /\ Pushing' = Pushing
        BY <2>1, <2>6 DEF AgeInv, Resetting, BotInv
      <3>2. QED
        BY <2>1, <2>6, <3>1, HeldKept
    <2>7. CASE pc = "pop_last_fence" /\ buf = <<AgeStore>> /\ age' = NewAge
               /\ UNCHANGED <<deq, bot>>
      <3>1. age.top = localBot + 1 /\ age'.top = 0 /\ bot = 0
        BY <2>7, ShortSeqs DEF AgeInv, Resetting, NewAge, BotInv
      <3>2. Held' = Held /\ Pushing' = Pushing
        BY <2>1, <2>7, <3>1
      <3>3. QED
        BY <2>1, <2>7, <3>2, HeldKept
    <2>8. QED
      BY <1>17, <2>2, <2>3, <2>4, <2>5, <2>6, <2>7, DrainCases, ShortSeqs
  <1>18. ASSUME NEW t \in Thieves, Thief(t)
         PROVE  HeldInv'
    <2>1. UNCHANGED <<bot, deq, buf, pc, localBot, oldAge, nextJob>> /\ Pushing' = Pushing
      BY <1>18, ThiefFrame
    <2>2. CASE UNCHANGED <<age, takes>>
      BY <2>1, <2>2, HeldKept
    <2>3. CASE /\ tpc[t] = "top_cas" /\ age = tAge[t]
               /\ age' = [age EXCEPT !.top = @ + 1] /\ Take(tJob[t])
      <3>1. age.top \in Held /\ tJob[t] = deq[age.top]
        BY <2>3 DEF ThiefInv
      <3>2. Held' = Held \ {age.top}
        BY <2>1, <2>3, <3>1
      <3>3. QED
        BY <2>1, <2>3, <3>1, <3>2, HeldTaken
    <2>4. QED
      BY <1>18, <2>2, <2>3, ThiefFrame
  <1>19. CASE UNCHANGED vars
    <2>1. UNCHANGED <<takes, nextJob, deq>> /\ Held' = Held /\ Pushing' = Pushing
      BY <1>19 DEF vars, memory, ownerVars
    <2>2. QED
      BY <2>1, HeldKept
  <1>20. QED
    BY <1>1, <1>2, <1>3, <1>4, <1>5, <1>6, <1>7, <1>8, <1>9, <1>10, <1>11, <1>12, <1>13, <1>14,
       <1>15, <1>16, <1>17, <1>18, <1>19
    DEF Next, Owner

\* The job the owner pushes or pops.
LEMMA OwnJobStep ==
  ASSUME TypeOK, BufInv, BotInv, OwnJobInv, [Next]_vars
  PROVE  OwnJobInv'
  <1> USE QSizeAssumption, NumJobsAssumption DEF TypeOK, Slots, Jobs, OwnJobInv
  <1>1. CASE CallPush
    BY <1>1 DEF CallPush, memory, Pushing
  <1>2. CASE PushLoadBot
    BY <1>2, LoadFromMemory DEF PushLoadBot, memory, Pushing
  <1>3. CASE PushStoreSlot
    <2>1. buf' # <<>> /\ job' = job /\ nextJob' = nextJob /\ pc' \in {"push_bot", "thrown"}
      BY <1>3, ShortSeqs DEF PushStoreSlot, Store, BufInv
    <2>2. QED
      BY <1>3, <2>1 DEF PushStoreSlot, Pushing
  <1>4. CASE PushStoreBot
    <2>1. CASE buf = <<>>
      BY <1>4, <2>1 DEF PushStoreBot, Pushing
    <2>2. CASE buf = <<SlotStore>>
      <3>1. buf' = <<SlotStore, BotStore(localBot)>> /\ BotStore(localBot)' = BotStore(localBot)
        BY <1>4, <2>2, ShortSeqs DEF PushStoreBot, Store, BotStore
      <3>2. buf' # <<BotStore(localBot)>>
        BY <3>1, ShortSeqs
      <3>3. QED
        BY <1>4, <3>1, <3>2, ShortSeqs DEF PushStoreBot, Pushing
    <2>3. QED
      BY <1>4, <2>1, <2>2 DEF PushStoreBot, BufInv
  <1>5. CASE PushFence
    BY <1>5 DEF PushFence, memory, Pushing, Fenced
  <1>6. CASE CallPop
    BY <1>6 DEF CallPop, memory, Pushing
  <1>7. CASE PopLoadBot
    BY <1>7, LoadFromMemory DEF PopLoadBot, memory, Pushing
  <1>8. CASE PopStoreBot
    BY <1>8 DEF PopStoreBot, Store, Pushing
  <1>9. CASE PopFence
    BY <1>9 DEF PopFence, memory, Pushing
  <1>10. CASE PopLoadSlot
    <2>1. job' = deq[localBot]
      BY <1>10, LoadFromMemory DEF PopLoadSlot, BufInv
    <2>2. QED
      BY <1>10, <2>1 DEF PopLoadSlot, Pushing, memory
  <1>11. CASE PopLoadAge
    BY <1>11, LoadFromMemory DEF PopLoadAge, memory, Pushing
  <1>12. CASE PopResetBot
    BY <1>12 DEF PopResetBot, Store, Pushing
  <1>13. CASE PopCas
    BY <1>13 DEF PopCas, Pushing
  <1>14. CASE PopStoreAge
    BY <1>14 DEF PopStoreAge, Store, Pushing
  <1>15. CASE PopLastFence
    BY <1>15 DEF PopLastFence, memory, Pushing
  <1>16. CASE Return
    BY <1>16 DEF Return, memory, Pushing
  <1>17. CASE Drain
    <2>1. UNCHANGED <<pc, localBot, job, oldAge, nextJob>>
          /\ BotStore(localBot)' = BotStore(localBot)
      BY <1>17, DrainCases DEF ownerVars, BotStore
    <2>2. CASE pc \in {"push_bot", "push_fence", "thrown"} /\ buf # <<>>
               /\ deq' = [deq EXCEPT ![localBot - 1] = job]
      <3>1. Pushing /\ (pc # "thrown" => localBot - 1 \in Slots)
        BY <2>2 DEF Pushing, BotInv
      <3>2. QED
        BY <2>1, <2>2, <3>1 DEF Pushing
    <2>3. CASE pc = "push_fence" /\ buf' = <<>> /\ UNCHANGED deq
      BY <2>1, <2>3, ShortSeqs DEF Pushing
    <2>4. CASE pc \in {"pop_fence", "pop_cas", "pop_store_age", "pop_last_fence"} /\ UNCHANGED deq
      BY <2>1, <2>4 DEF Pushing
    <2>5. QED
      BY <1>17, <2>2, <2>3, <2>4, DrainCases, ShortSeqs
  <1>18. ASSUME NEW t \in Thieves, Thief(t)
         PROVE  OwnJobInv'
    BY <1>18, ThiefFrame DEF Pushing, BotStore
  <1>19. CASE UNCHANGED vars
    BY <1>19 DEF vars, memory, ownerVars, Pushing, BotStore
  <1>20. QED
    BY <1>1, <1>2, <1>3, <1>4, <1>5, <1>6, <1>7, <1>8, <1>9, <1>10, <1>11, <1>12, <1>13, <1>14,
       <1>15, <1>16, <1>17, <1>18, <1>19
    DEF Next, Owner

--------------------------------------------------------------------------------
(* The invariant holds, and with it the properties.                            *)

\* The invariant holds in the empty deque, ...
LEMMA InitInv == Init => IInv
  <1> SUFFICES ASSUME Init
               PROVE  IInv
    OBVIOUS
  <1> USE NumJobsAssumption, QSizeAssumption DEF Init, Slots
  <1>1. TypeOK
    BY DEF TypeOK, Zero, Ages, Jobs, NoJob, OwnerAt
  <1>2. BufInv /\ BotInv
    BY DEF BufInv, BotInv
  <1>3. Held = {} /\ ~Pushing
    BY DEF Held, LogicalBot, Undecided, Zero, Pushing
  <1>4. AgeInv /\ ThiefInv
    BY DEF AgeInv, ThiefInv, Resetting, LogicalBot, Undecided, Zero
  <1>5. HeldInv /\ OwnJobInv
    BY <1>3 DEF HeldInv, OwnJobInv, Jobs
  <1>6. QED
    BY <1>1, <1>2, <1>4, <1>5 DEF IInv

\* ... and in every state after it.
LEMMA Invariance == Spec => []IInv
  <1>1. IInv /\ [Next]_vars => IInv'
    BY TypeStep, BufStep, BotStep, AgeStep, ThiefStep, HeldStep, OwnJobStep DEF IInv
  <1>2. QED
    BY <1>1, InitInv, PTL DEF Spec

\* The variables have their types; in particular bot and the tops of age stay
\* within the array.
THEOREM Typing == Spec => []TypeOK
  <1>1. IInv => TypeOK
    BY DEF IInv
  <1>2. QED
    BY <1>1, Invariance, PTL

\* No job is given to two callers.
THEOREM TakenOnce == Spec => []NoDoubleTake
  <1>1. IInv => NoDoubleTake
    BY DEF IInv, HeldInv, NoDoubleTake
  <1>2. QED
    BY <1>1, Invariance, PTL
\* Items is the held part of the array, the oldest job first.
ItemsInv ==
  /\ Items \in Seq(Jobs)
  /\ Len(Items) = IF age.top < LogicalBot THEN LogicalBot - age.top ELSE 0
  /\ \A k \in 1 .. Len(Items) :
       age.top + k - 1 \in Held /\ Items[k] = deq[age.top + k - 1]
  /\ \A s \in Held :
       s - age.top + 1 \in 1 .. Len(Items) /\ Items[s - age.top + 1] = deq[s]

\* The abstract contents are the jobs held in the array, in order.
LEMMA ItemsAreHeld ==
  ASSUME TypeOK, HeldInv
  PROVE  ItemsInv
  <1> DEFINE n == IF age.top < LogicalBot THEN LogicalBot - age.top ELSE 0
  <1>1. age.top \in Nat /\ LogicalBot \in Nat /\ n \in Nat
    BY DEF TypeOK, Ages, Slots, LogicalBot
  <1>2. 1 .. n = 1 .. LogicalBot - age.top
    BY <1>1
  <1>3. \A k \in 1 .. n : age.top + k - 1 \in Held /\ deq[age.top + k - 1] \in Jobs
    <2>1. \A k \in 1 .. n : age.top + k - 1 \in Held
      BY <1>1 DEF Held
    <2>2. \A s \in Held : deq[s] \in Jobs
      BY NumJobsAssumption DEF HeldInv, TypeOK, Jobs
    <2>3. QED
      BY <2>1, <2>2
  <1> HIDE DEF n
  <1>4. Items = [k \in 1 .. n |-> deq[age.top + k - 1]]
    BY <1>2 DEF Items
  <1>5. Items \in [1 .. n -> Jobs]
    BY <1>3, <1>4
  <1>6. Items \in Seq(Jobs) /\ Len(Items) = n
    BY <1>1, <1>5
  <1>7. \A s \in Held : s - age.top + 1 \in 1 .. n
    BY <1>1 DEF Held, n
  <1>8. \A s \in Held : Items[s - age.top + 1] = deq[s]
    <2> SUFFICES ASSUME NEW s \in Held
                 PROVE  Items[s - age.top + 1] = deq[s]
      OBVIOUS
    <2>1. s \in Int /\ age.top + (s - age.top + 1) - 1 = s
      BY <1>1 DEF Held
    <2>2. QED
      BY <1>4, <1>7, <2>1
  <1>9. QED
    BY <1>3, <1>4, <1>5, <1>6, <1>7, <1>8 DEF n, ItemsInv

\* The oldest job is the one at top.
LEMMA HeadOfItems ==
  ASSUME TypeOK, HeldInv, age.top < LogicalBot
  PROVE  Items # <<>> /\ Head(Items) = deq[age.top]
  <1>1. age.top \in Held /\ age.top - age.top + 1 = 1
    BY DEF TypeOK, Ages, Slots, LogicalBot, Held
  <1>2. Items[1] = deq[age.top] /\ Len(Items) >= 1
    BY <1>1, ItemsAreHeld DEF ItemsInv
  <1>3. QED
    BY <1>2, ItemsAreHeld DEF ItemsInv

\* No job is lost and none is there twice, whatever the resets of the deque do.
THEOREM NothingLost == Spec => []Conservation
  <1>1. ASSUME IInv
        PROVE  Conservation
    <2> SUFFICES ASSUME NEW x \in 1 .. nextJob - 1
                 PROVE  LET held == {k \in DOMAIN Items : Items[k] = x}
                        IN  IF Pushing /\ x = nextJob - 1
                              THEN held = {} /\ takes[x] = 0
                              ELSE \/ held = {} /\ takes[x] = 1
                                   \/ takes[x] = 0 /\ \E k \in DOMAIN Items : held = {k}
      BY DEF Conservation
    <2> DEFINE held == {k \in DOMAIN Items : Items[k] = x}
    <2> USE <1>1 DEF IInv
    <2>1. x \in Jobs
      BY NumJobsAssumption DEF TypeOK, Jobs
    <2>2. CASE Pushing /\ x = nextJob - 1
      <3>1. takes[x] = 0
        BY <2>1, <2>2 DEF HeldInv
      <3>2. \A s \in Held : deq[s] # x
        BY <2>2 DEF HeldInv
      <3>3. held = {}
        BY SMTT(30), <3>2, ItemsAreHeld DEF ItemsInv
      <3>4. QED
        BY <2>2, <3>1, <3>3
    <2>3. CASE ~(Pushing /\ x = nextJob - 1) /\ takes[x] = 1
      <3>1. held = {}
        BY <2>3, ItemsAreHeld DEF ItemsInv, HeldInv
      <3>2. QED
        BY <2>3, <3>1
    <2>4. CASE ~(Pushing /\ x = nextJob - 1) /\ takes[x] # 1
      <3>1. PICK s \in Held : deq[s] = x
        BY <2>4 DEF HeldInv
      <3> DEFINE k == s - age.top + 1
      <3>2. k \in DOMAIN Items /\ Items[k] = x /\ takes[x] = 0
        BY <3>1, ItemsAreHeld DEF ItemsInv, HeldInv
      <3>3. \A l \in held : l = k
        <4> SUFFICES ASSUME NEW l \in held
                     PROVE  l = k
          OBVIOUS
        <4>1. age.top + l - 1 \in Held /\ deq[age.top + l - 1] = x
          BY ItemsAreHeld DEF ItemsInv
        <4>2. age.top + l - 1 = s
          BY <3>1, <4>1 DEF HeldInv
        <4>3. QED
          BY SMTT(30), <4>2, ItemsAreHeld DEF ItemsInv, Held, TypeOK, Ages
      <3>4. held = {k}
        BY <3>2, <3>3
      <3>5. QED
        BY <2>4, <3>2, <3>4
    <2>5. QED
      BY <2>2, <2>3, <2>4
  <1>2. QED
    BY <1>1, Invariance, PTL

\* A thief whose exchange will succeed has the oldest job in its hands.
THEOREM StealsAreCurrent == Spec => []StealIsCurrent
  <1>1. IInv => StealIsCurrent
    BY HeadOfItems DEF IInv, ThiefInv, StealIsCurrent
  <1>2. QED
    BY <1>1, Invariance, PTL

--------------------------------------------------------------------------------
(* The refinement.  The invariant above says what the steps find in memory;    *)
(* what the refinement needs besides is that a thief goes away with nothing    *)
(* only when it has an excuse, and that a call that has found nothing returns  *)
(* nothing.                                                                    *)

Active(t) == tpc[t] \in {"top_age", "top_bot", "top_slot", "top_cas"}

PopPhase ==
  pc \in {"pop_load", "pop_bot", "pop_fence", "pop_slot", "pop_age", "pop_reset", "pop_cas"}

\* While the owner pops, and when age has changed, a thief may fail.
ExcuseInv ==
  \A t \in Thieves : Active(t) =>
    /\ PopPhase \/ Resetting => excused[t]
    /\ tpc[t] # "top_age" /\ tAge[t] # age => excused[t]

NothingInv ==
  /\ pc \in {"pop_load", "pop_last_fence"} => job = NoJob
  /\ \A t \in Thieves : tpc[t] \in {"top_age", "top_bot", "top_slot"} => tJob[t] = NoJob

RInv == ExcuseInv /\ NothingInv

--------------------------------------------------------------------------------
(* Lemmas about the values that the refinement mapping gives.                  *)

\* The abstract deque is empty when top is not below the bottom.
LEMMA ItemsEmpty ==
  ASSUME TypeOK, ItemsInv
  PROVE  Items = <<>> <=> ~(age.top < LogicalBot)
  <1>1. age.top < LogicalBot => Len(Items) # 0
    BY DEF ItemsInv, TypeOK, Ages, Slots, LogicalBot
  <1>2. ~(age.top < LogicalBot) => Len(Items) = 0
    BY DEF ItemsInv
  <1>3. QED
    BY <1>1, <1>2, EmptySeq DEF ItemsInv

\* The calls of the abstract deque, by where the owner and the thieves are.
CallsInv ==
  /\ Pushing => OwnerCall = [op |-> "pushing", job |-> job]
  /\ pc = "push_fence" /\ ~Pushing => OwnerCall = [op |-> "pushed", job |-> job]
  /\ IF pc \in {"pop_load", "pop_bot"} \/ Undecided
       THEN OwnerCall = [op |-> "popping", job |-> NoJob]
       ELSE OwnerCall.op # "popping"
  /\ pc = "return" => OwnerCall = [op |-> "popped", job |-> job]
  /\ pc = "idle" => OwnerCall = [op |-> "idle", job |-> NoJob]
  /\ \/ pc \in {"pop_store_age", "pop_last_fence"}
     \/ pc = "pop_reset" /\ localBot # oldAge.top
     => OwnerCall = [op |-> "popped", job |-> NoJob]
  /\ \A t \in Thieves :
       /\ tpc[t] = "idle" => ThiefCall[t] = [op |-> "idle", job |-> NoJob]
       /\ tpc[t] = "return" => ThiefCall[t] = [op |-> "popped", job |-> tJob[t]]
       /\ Active(t) => ThiefCall[t] = [op |-> "popping", job |-> NoJob]

\* The calls have these values in every state of the right type.
LEMMA CallValues ==
  ASSUME TypeOK
  PROVE  CallsInv
  <1>1. \A t \in Thieves :
          /\ tpc[t] = "idle" => ThiefCall[t] = [op |-> "idle", job |-> NoJob]
          /\ tpc[t] = "return" => ThiefCall[t] = [op |-> "popped", job |-> tJob[t]]
          /\ Active(t) => ThiefCall[t] = [op |-> "popping", job |-> NoJob]
    BY DEF ThiefCall, Active
  <1>2. QED
    BY <1>1 DEF OwnerCall, Pushing, Undecided, CallsInv

\* A step that leaves the array and its bounds alone leaves the jobs alone, ...
LEMMA ItemsKept ==
  ASSUME TypeOK, ItemsInv, ItemsInv', LogicalBot' = LogicalBot,
         age'.top = age.top, \A s \in Held : deq'[s] = deq[s]
  PROVE  Items' = Items
  <1>1. /\ Items \in Seq(Jobs) /\ Items' \in Seq(Jobs) /\ Len(Items') = Len(Items)
        /\ \A k \in 1 .. Len(Items) : Items'[k] = Items[k]
    BY DEF ItemsInv
  <1>2. QED
    BY <1>1, SeqEqual

\* ... and so does one that leaves them empty.
LEMMA ItemsStayEmpty ==
  ASSUME ItemsInv, ItemsInv', ~(age.top < LogicalBot), ~(age.top < LogicalBot)'
  PROVE  Items' = Items /\ Items = <<>>
  <1>1. /\ Items \in Seq(Jobs) /\ Items' \in Seq(Jobs)
        /\ Len(Items) = 0 /\ Len(Items') = 0
    BY DEF ItemsInv
  <1>2. QED
    BY <1>1, EmptySeq

\* The bottom moves up by one job.
LEMMA ItemsAppended ==
  ASSUME TypeOK, ItemsInv, ItemsInv', age' = age, deq' = deq,
         LogicalBot' = LogicalBot + 1, age.top <= LogicalBot
  PROVE  Items' = Append(Items, deq[LogicalBot])
  <1> DEFINE s == Append(Items, deq[LogicalBot])
  <1>1. age.top \in Nat /\ LogicalBot \in Nat /\ LogicalBot \in Held'
    BY DEF TypeOK, Ages, Slots, LogicalBot, Held
  <1>2. /\ Items \in Seq(Jobs) /\ Items' \in Seq(Jobs)
        /\ Len(Items) = LogicalBot - age.top /\ Len(Items') = Len(Items) + 1
        /\ LogicalBot - age.top + 1 = Len(Items')
    <2>1. /\ Items \in Seq(Jobs) /\ Items' \in Seq(Jobs)
          /\ Len(Items) = IF age.top < LogicalBot THEN LogicalBot - age.top ELSE 0
          /\ Len(Items') = IF (age.top < LogicalBot)' THEN LogicalBot' - age'.top ELSE 0
      BY DEF ItemsInv
    <2>2. QED
      BY <1>1, <2>1
  <1>3. Items'[Len(Items) + 1] = deq[LogicalBot]
    BY <1>1, <1>2 DEF ItemsInv
  <1>4. ASSUME NEW k \in 1 .. Len(Items)
        PROVE  Items'[k] = Items[k]
    <2>1. k \in 1 .. Len(Items')
      BY <1>1, <1>2
    <2>2. QED
      BY <2>1 DEF ItemsInv
  <1>5. deq[LogicalBot] \in Jobs
    BY <1>2, <1>3
  <1>6. /\ s \in Seq(Jobs) /\ Len(s) = Len(Items')
        /\ \A k \in 1 .. Len(s) : s[k] = Items'[k]
    BY <1>2, <1>3, <1>4, <1>5, AppendProperties
  <1> HIDE DEF s
  <1>7. s = Items'
    BY <1>2, <1>6, SeqEqual
  <1>8. QED
    BY <1>7 DEF s

\* The bottom moves down by one job, or an only job is taken.
LEMMA ItemsPopped ==
  ASSUME TypeOK, ItemsInv, ItemsInv', deq' = deq, age.top < LogicalBot,
         \/ age' = age /\ LogicalBot' = LogicalBot - 1
         \/ age.top + 1 = LogicalBot /\ ~(age.top < LogicalBot)'
  PROVE  /\ Items # <<>> /\ Items[Len(Items)] = deq[LogicalBot - 1]
         /\ Items' = SubSeq(Items, 1, Len(Items) - 1)
  <1> DEFINE s == SubSeq(Items, 1, Len(Items) - 1)
  <1>1. age.top \in Nat /\ LogicalBot \in Nat
    BY DEF TypeOK, Ages, Slots, LogicalBot
  <1>2. /\ Items \in Seq(Jobs) /\ Items' \in Seq(Jobs)
        /\ Len(Items) = LogicalBot - age.top /\ Len(Items') = Len(Items) - 1
        /\ Len(Items) \in Nat /\ Len(Items) >= 1
    <2>1. /\ Items \in Seq(Jobs) /\ Items' \in Seq(Jobs)
          /\ Len(Items) = LogicalBot - age.top
          /\ Len(Items') = IF (age.top < LogicalBot)' THEN LogicalBot' - age'.top ELSE 0
      BY DEF ItemsInv
    <2>2. QED
      BY <1>1, <2>1
  <1>3. ASSUME NEW k \in 1 .. Len(Items) - 1
        PROVE  Items'[k] = Items[k]
    <2>1. k \in 1 .. Len(Items') /\ k \in 1 .. Len(Items) /\ age' = age
      BY <1>1, <1>2
    <2>2. QED
      BY <2>1 DEF ItemsInv
  <1>4. /\ s \in Seq(Jobs) /\ Len(s) = Len(Items')
        /\ \A k \in 1 .. Len(s) : s[k] = Items'[k]
    BY <1>2, <1>3, SubSeqProperties
  <1> HIDE DEF s
  <1>5. s = Items'
    BY <1>2, <1>4, SeqEqual
  <1>6. Items[Len(Items)] = deq[LogicalBot - 1]
    <2>1. age.top + Len(Items) - 1 = LogicalBot - 1
      BY <1>1, <1>2
    <2>2. QED
      BY <1>2, <2>1 DEF ItemsInv
  <1>7. QED
    BY <1>2, <1>5, <1>6 DEF s

\* The top moves up by one job.
LEMMA ItemsStolen ==
  ASSUME TypeOK, ItemsInv, ItemsInv', deq' = deq, age.top < LogicalBot,
         LogicalBot' = LogicalBot, age'.top = age.top + 1
  PROVE  Items # <<>> /\ Head(Items) = deq[age.top] /\ Items' = Tail(Items)
  <1>1. age.top \in Nat /\ LogicalBot \in Nat
    BY DEF TypeOK, Ages, Slots, LogicalBot
  <1>2. /\ Items \in Seq(Jobs) /\ Items' \in Seq(Jobs)
        /\ Len(Items') = Len(Items) - 1 /\ Len(Items) \in Nat /\ Len(Items) >= 1
    BY <1>1 DEF ItemsInv
  <1>3. Items[1] = deq[age.top]
    <2>1. age.top + 1 - 1 = age.top
      BY <1>1
    <2>2. QED
      BY <1>2, <2>1 DEF ItemsInv
  <1>4. ASSUME NEW k \in 1 .. Len(Items) - 1
        PROVE  Items'[k] = Items[k + 1]
    <2>1. /\ k \in 1 .. Len(Items') /\ k + 1 \in 1 .. Len(Items)
          /\ age'.top + k - 1 = age.top + (k + 1) - 1
      BY <1>1, <1>2
    <2>2. Items'[k] = deq[age'.top + k - 1]
      BY <2>1 DEF ItemsInv
    <2>3. Items[k + 1] = deq[age.top + (k + 1) - 1]
      BY <2>1 DEF ItemsInv
    <2>4. QED
      BY <2>1, <2>2, <2>3
  <1>5. Items # <<>>
    BY <1>2
  <1>6. /\ Tail(Items) \in Seq(Jobs) /\ Len(Tail(Items)) = Len(Items')
        /\ \A k \in 1 .. Len(Tail(Items)) : Tail(Items)[k] = Items'[k]
    BY <1>2, <1>4, <1>5, HeadTailProperties
  <1>7. Items' = Tail(Items)
    BY <1>2, <1>6, SeqEqual
  <1>8. QED
    BY <1>2, <1>3, <1>5, <1>7
--------------------------------------------------------------------------------
(* The additional invariant.                                                   *)

\* What the owner does leaves the thieves where they are.
LEMMA OwnerFrame ==
  ASSUME Owner \/ Drain
  PROVE  /\ UNCHANGED thiefVars
         /\ excused' = excused \/ excused' = [t \in Thieves |-> TRUE]
  <1>1. CASE Owner
    BY <1>1 DEF Owner, CallPush, PushLoadBot, PushStoreSlot, PushStoreBot, PushFence,
         CallPop, PopLoadBot, PopStoreBot, PopFence, PopLoadSlot, PopLoadAge, PopResetBot,
         PopCas, PopStoreAge, PopLastFence, Return
  <1>2. CASE Drain
    BY <1>2 DEF Drain
  <1>3. QED
    BY <1>1, <1>2

\* An excuse is given before it is needed: when the owner begins to pop or a
\* thief changes age, every thief in pop_top has one.
LEMMA ExcuseStep ==
  ASSUME IInv, ItemsInv, ExcuseInv, [Next]_vars
  PROVE  ExcuseInv'
  <1> USE DEF IInv, ExcuseInv, Active
  <1>1. CASE CallPop
    BY <1>1 DEF CallPop, memory, thiefVars
  <1>2. CASE PopCas
    BY <1>2 DEF PopCas, PopPhase, Resetting, AgeInv, thiefVars
  <1>3. CASE Drain
    BY <1>3, DrainCases, ShortSeqs DEF ownerVars, thiefVars, PopPhase, Resetting
  <1>4. CASE \/ CallPush \/ PushLoadBot \/ PushStoreSlot \/ PushStoreBot \/ PushFence
             \/ Return
    BY <1>4 DEF CallPush, PushLoadBot, PushStoreSlot, PushStoreBot, PushFence, Return,
         PopPhase, Resetting, memory, thiefVars
  <1>5. CASE PopLoadBot \/ PopStoreBot \/ PopFence \/ PopLoadSlot
    BY <1>5 DEF PopLoadBot, PopStoreBot, PopFence, PopLoadSlot,
         PopPhase, Resetting, memory, thiefVars
  <1>6. CASE PopLoadAge \/ PopResetBot
    BY <1>6 DEF PopLoadAge, PopResetBot, PopPhase, Resetting, memory, thiefVars
  <1>7. CASE PopStoreAge \/ PopLastFence
    BY <1>7 DEF PopStoreAge, PopLastFence, PopPhase, Resetting, Fenced, memory, thiefVars
  <1>8. ASSUME NEW t \in Thieves, Thief(t)
        PROVE  ExcuseInv'
    <2>1. PopPhase' = PopPhase /\ Resetting' = Resetting
      BY <1>8, ThiefFrame DEF PopPhase, Resetting
    <2>2. CASE CallSteal(t)
      <3>1. PopPhase \/ Resetting =>
              Items = <<>> \/ pc \in {"pop_load", "pop_bot"} \/ Undecided
        <4>1. Resetting => ~(age.top < LogicalBot)
          BY DEF Resetting, AgeInv, BotInv, LogicalBot, Undecided, TypeOK, Slots, Ages
        <4>2. PopPhase => pc \in {"pop_load", "pop_bot"} \/ Undecided \/ Resetting
          BY DEF PopPhase, Undecided, Resetting, AgeInv
        <4>3. QED
          BY <4>1, <4>2, ItemsEmpty
      <3>2. PopPhase \/ Resetting => excused'[t]
        BY <2>2, <3>1 DEF CallSteal, TypeOK
      <3>3. QED
        BY <2>1, <2>2, <3>2 DEF CallSteal, TypeOK, memory
    <2>3. CASE StealLoadAge(t) \/ StealLoadBot(t) \/ StealLoadSlot(t) \/ StealReturn(t)
      BY <2>1, <2>3 DEF StealLoadAge, StealLoadBot, StealLoadSlot, StealReturn, TypeOK, memory
    <2>4. CASE StealCas(t)
      BY <2>1, <2>4 DEF StealCas, TypeOK
    <2>5. QED
      BY <1>8, <2>2, <2>3, <2>4 DEF Thief
  <1>9. CASE UNCHANGED vars
    BY <1>9 DEF vars, memory, ownerVars, thiefVars, PopPhase, Resetting
  <1>10. QED
    BY <1>1, <1>2, <1>3, <1>4, <1>5, <1>6, <1>7, <1>8, <1>9 DEF Next, Owner

\* The result of a call that has found nothing is empty.
LEMMA NothingStep ==
  ASSUME TypeOK, NothingInv, [Next]_vars
  PROVE  NothingInv'
  <1> USE DEF NothingInv, TypeOK
  <1>1. CASE Owner
    BY <1>1, OwnerFrame DEF thiefVars, Owner, CallPush, PushLoadBot, PushStoreSlot,
       PushStoreBot, PushFence, CallPop,
         PopLoadBot, PopStoreBot, PopFence, PopLoadSlot, PopLoadAge, PopResetBot, PopCas,
         PopStoreAge, PopLastFence, Return
  <1>2. CASE Drain
    BY <1>2 DEF Drain, ownerVars, thiefVars
  <1>3. ASSUME NEW t \in Thieves, Thief(t)
        PROVE  NothingInv'
    BY <1>3 DEF Thief, CallSteal, StealLoadAge, StealLoadBot, StealLoadSlot, StealCas,
         StealReturn, ownerVars
  <1>4. CASE UNCHANGED vars
    BY <1>4 DEF vars, ownerVars, thiefVars
  <1>5. QED
    BY <1>1, <1>2, <1>3, <1>4 DEF Next

\* All that is known of a state.
Known == IInv /\ ItemsInv /\ RInv /\ CallsInv

\* What the steps below may assume of a state.
LEMMA AlwaysKnown == Spec => []Known
  <1>1. IInv => ItemsInv /\ CallsInv
    BY ItemsAreHeld, CallValues DEF IInv
  <1>2. Init => RInv
    BY DEF Init, RInv, ExcuseInv, NothingInv, Active
  <1>3. IInv /\ RInv /\ [Next]_vars => RInv'
    BY <1>1, ExcuseStep, NothingStep DEF RInv, IInv
  <1>4. QED
    BY <1>1, <1>2, <1>3, Invariance, PTL DEF Spec, Known

--------------------------------------------------------------------------------
(* The simulation, step by step.                                               *)

\* The owner does not change what the thieves' calls look like.
LEMMA OwnerLeavesThieves ==
  ASSUME Owner \/ Drain
  PROVE  UNCHANGED ThiefCall
  BY OwnerFrame DEF thiefVars, ThiefCall

\* The steps of push_bottom.
LEMMA PushSteps ==
  ASSUME Known, Known',
         \/ CallPush \/ PushLoadBot \/ PushStoreSlot \/ PushStoreBot \/ PushFence
  PROVE  [Abstract!Next]_(Abstract!vars)
  <1>1. UNCHANGED ThiefCall
    BY OwnerLeavesThieves DEF Owner
  <1>2. Items' = Items
    <2>1. /\ LogicalBot' = LogicalBot /\ UNCHANGED <<age, deq>>
      BY DEF CallPush, PushLoadBot, PushStoreSlot, PushStoreBot, PushFence, memory,
             LogicalBot, Undecided
    <2>2. QED
      BY <2>1, ItemsKept DEF Known, IInv
  <1>3. CASE CallPush
    <2>1. /\ nextJob \in Jobs /\ UNCHANGED excused
          /\ OwnerCall = [op |-> "idle", job |-> NoJob]
          /\ OwnerCall' = [op |-> "pushing", job |-> nextJob]
      BY <1>3, NumJobsAssumption
         DEF CallPush, Known, IInv, TypeOK, Jobs, CallsInv, Pushing
    <2>2. Abstract!CallPush(nextJob)
      BY <1>1, <1>2, <2>1 DEF Abstract!CallPush, Abstract!Idle
    <2>3. QED
      BY <2>1, <2>2 DEF Abstract!Next
  <1>4. CASE PushLoadBot \/ PushStoreSlot \/ PushStoreBot
    <2>1. Pushing /\ Pushing' /\ UNCHANGED <<job, excused>>
      <3>1. CASE PushLoadBot
        BY <3>1 DEF PushLoadBot, Pushing
      <3>2. CASE PushStoreSlot
        BY <3>2 DEF PushStoreSlot, Pushing
      <3>3. CASE PushStoreBot
        <4>1. buf' # <<>>
          BY <3>3, AppendProperties DEF PushStoreBot, Store, Known, IInv, TypeOK
        <4>2. QED
          BY <3>3, <4>1 DEF PushStoreBot, Pushing
      <3>4. QED
        BY <1>4, <3>1, <3>2, <3>3
    <2>2. QED
      BY <1>1, <1>2, <2>1 DEF Known, CallsInv, Abstract!vars
  <1>5. CASE PushFence
    <2>1. /\ OwnerCall = [op |-> "pushed", job |-> job]
          /\ OwnerCall' = [op |-> "idle", job |-> NoJob] /\ UNCHANGED excused
      BY <1>5 DEF PushFence, Fenced, Known, CallsInv, Pushing
    <2>2. Abstract!OwnerReturn
      BY <1>1, <1>2, <2>1 DEF Abstract!OwnerReturn, Abstract!Idle
    <2>3. QED
      BY <2>2 DEF Abstract!Next
  <1>6. QED
    BY <1>3, <1>4, <1>5

\* Up to the load of age nothing is settled, but that the deque may be empty.
LEMMA PopSteps ==
  ASSUME Known, Known',
         \/ CallPop \/ PopLoadBot \/ PopStoreBot \/ PopFence \/ PopLoadSlot
         \/ PopResetBot \/ PopStoreAge \/ PopLastFence \/ Return
  PROVE  [Abstract!Next]_(Abstract!vars)
  <1> USE DEF Known
  <1>1. UNCHANGED ThiefCall
    BY OwnerLeavesThieves DEF Owner
  <1>2. Items' = Items
    <2>1. /\ LogicalBot' = LogicalBot /\ UNCHANGED <<age, deq>>
      BY DEF CallPop, PopLoadBot, PopStoreBot, PopFence, PopLoadSlot, PopResetBot,
             PopStoreAge, PopLastFence, Return, memory, IInv, BotInv, BufInv, TypeOK, Slots,
             LogicalBot, Undecided, Fenced
    <2>2. QED
      BY <2>1, ItemsKept DEF IInv
  <1>3. CASE CallPop
    <2>1. /\ OwnerCall = [op |-> "idle", job |-> NoJob]
          /\ OwnerCall' = [op |-> "popping", job |-> NoJob]
      BY <1>3 DEF CallPop, CallsInv
    <2>2. Abstract!CallPop
      BY <1>1, <1>2, <1>3, <2>1 DEF CallPop, Abstract!CallPop, Abstract!Idle
    <2>3. QED
      BY <2>2 DEF Abstract!Next
  <1>4. CASE PopLoadBot
    <2>1. UNCHANGED excused /\ OwnerCall = [op |-> "popping", job |-> NoJob]
      BY <1>4 DEF PopLoadBot, CallsInv
    <2>2. CASE Load("bot", 0, bot) = 0
      <3>1. bot = 0
        BY <1>4, <2>2, LoadFromMemory DEF PopLoadBot, IInv, BufInv
      <3>2. Items = <<>>
        BY <1>4, <3>1, ItemsEmpty
           DEF PopLoadBot, IInv, AgeInv, Resetting, TypeOK, Ages, LogicalBot, Undecided
      <3>3. OwnerCall' = [op |-> "popped", job |-> NoJob]
        BY <1>4, <2>2 DEF PopLoadBot, RInv, NothingInv, CallsInv
      <3>4. Abstract!Pop
        BY <1>1, <1>2, <2>1, <3>2, <3>3 DEF Abstract!Pop
      <3>5. QED
        BY <3>4 DEF Abstract!Next
    <2>3. CASE Load("bot", 0, bot) # 0
      <3>1. OwnerCall' = [op |-> "popping", job |-> NoJob]
        BY <1>4, <2>3 DEF PopLoadBot, CallsInv
      <3>2. QED
        BY <1>1, <1>2, <2>1, <3>1 DEF Abstract!vars
    <2>4. QED
      BY <2>2, <2>3
  <1>5. CASE PopStoreBot \/ PopFence \/ PopLoadSlot
    <2>1. /\ OwnerCall = [op |-> "popping", job |-> NoJob]
          /\ OwnerCall' = [op |-> "popping", job |-> NoJob] /\ UNCHANGED excused
      BY <1>5 DEF PopStoreBot, PopFence, PopLoadSlot, CallsInv, Undecided
    <2>2. QED
      BY <1>1, <1>2, <2>1 DEF Abstract!vars
  <1>6. CASE PopResetBot
    <2>1. UNCHANGED <<OwnerCall, excused>>
      BY <1>6 DEF PopResetBot, CallsInv, Undecided
    <2>2. QED
      BY <1>1, <1>2, <2>1 DEF Abstract!vars
  <1>7. CASE PopStoreAge
    <2>1. UNCHANGED <<OwnerCall, excused>>
      BY <1>7 DEF PopStoreAge, CallsInv
    <2>2. QED
      BY <1>1, <1>2, <2>1 DEF Abstract!vars
  <1>8. CASE PopLastFence
    <2>1. UNCHANGED <<OwnerCall, excused>>
      BY <1>8 DEF PopLastFence, RInv, NothingInv, CallsInv
    <2>2. QED
      BY <1>1, <1>2, <2>1 DEF Abstract!vars
  <1>9. CASE Return
    <2>1. /\ OwnerCall = [op |-> "popped", job |-> job]
          /\ OwnerCall' = [op |-> "idle", job |-> NoJob] /\ UNCHANGED excused
      BY <1>9 DEF Return, CallsInv
    <2>2. Abstract!OwnerReturn
      BY <1>1, <1>2, <2>1 DEF Abstract!OwnerReturn, Abstract!Idle
    <2>3. QED
      BY <2>2 DEF Abstract!Next
  <1>10. QED
    BY <1>3, <1>4, <1>5, <1>6, <1>7, <1>8, <1>9

\* The pop that leaves a job in the deque takes the youngest, and the one that
\* finds top beyond bot takes nothing.
LEMMA PopLoadAgeStep ==
  ASSUME Known, Known', PopLoadAge
  PROVE  [Abstract!Next]_(Abstract!vars)
  <1> USE DEF Known
  <1>1. /\ UNCHANGED <<ThiefCall, excused, age, deq, bot, job, localBot>>
        /\ OwnerCall = [op |-> "popping", job |-> NoJob]
    BY OwnerLeavesThieves DEF Owner, PopLoadAge, memory, CallsInv, Undecided
  <1>2. /\ oldAge' = age /\ pc = "pop_age"
        /\ LogicalBot = localBot + 1 /\ bot = localBot
        /\ age.top <= LogicalBot
        /\ age.top \in Nat /\ localBot \in Nat
    BY LoadFromMemory DEF PopLoadAge, IInv, BufInv, BotInv, AgeInv, Resetting, LogicalBot,
         Undecided, TypeOK, Ages
  <1>3. CASE localBot > age.top
    <2>1. pc' = "return" /\ LogicalBot' = localBot /\ job = deq[localBot]
      BY <1>1, <1>2, <1>3 DEF PopLoadAge, LogicalBot, Undecided, IInv, OwnJobInv
    <2>2. /\ Items # <<>> /\ Items[Len(Items)] = job
          /\ Items' = SubSeq(Items, 1, Len(Items) - 1)
      <3>1. age.top < LogicalBot /\ LogicalBot' = LogicalBot - 1 /\ LogicalBot - 1 = localBot
        BY <1>2, <1>3, <2>1
      <3>2. QED
        BY <1>1, <2>1, <3>1, ItemsPopped DEF IInv
    <2>3. OwnerCall' = [op |-> "popped", job |-> job]
      BY <1>1, <2>1 DEF CallsInv
    <2>4. Abstract!Pop
      BY <1>1, <2>2, <2>3 DEF Abstract!Pop
    <2>5. QED
      BY <2>4 DEF Abstract!Next
  <1>4. CASE localBot = age.top
    <2>1. pc' = "pop_reset" /\ Undecided' /\ LogicalBot' = LogicalBot
      BY <1>1, <1>2, <1>4 DEF PopLoadAge, LogicalBot, Undecided
    <2>2. Items' = Items
      BY <1>1, <2>1, ItemsKept DEF IInv
    <2>3. OwnerCall' = [op |-> "popping", job |-> NoJob]
      BY <2>1 DEF CallsInv
    <2>4. QED
      BY <1>1, <2>2, <2>3 DEF Abstract!vars
  <1>5. CASE localBot < age.top
    <2>1. /\ pc' = "pop_reset" /\ LogicalBot' = localBot /\ localBot' # oldAge'.top
      BY <1>1, <1>2, <1>5 DEF PopLoadAge, LogicalBot, Undecided
    <2>2. Items' = Items /\ Items = <<>>
      <3>1. ~(age.top < LogicalBot) /\ ~(age.top < LogicalBot)'
        BY <1>1, <1>2, <1>5, <2>1
      <3>2. QED
        BY <3>1, ItemsStayEmpty
    <2>3. OwnerCall' = [op |-> "popped", job |-> NoJob]
      BY <2>1 DEF CallsInv
    <2>4. Abstract!Pop
      BY <1>1, <2>2, <2>3 DEF Abstract!Pop
    <2>5. QED
      BY <2>4 DEF Abstract!Next
  <1>6. QED
    BY <1>2, <1>3, <1>4, <1>5

\* The exchange settles who gets the last job.
LEMMA PopCasStep ==
  ASSUME Known, Known', PopCas
  PROVE  [Abstract!Next]_(Abstract!vars)
  <1> USE DEF Known
  <1>1. /\ UNCHANGED <<ThiefCall, excused, deq, bot, buf, job, localBot, oldAge>>
        /\ OwnerCall = [op |-> "popping", job |-> NoJob]
    <2>1. localBot = oldAge.top /\ pc = "pop_cas"
      BY DEF PopCas, IInv, AgeInv
    <2>2. OwnerCall = [op |-> "popping", job |-> NoJob]
      BY <2>1 DEF CallsInv, Undecided
    <2>3. QED
      BY <2>2, OwnerLeavesThieves DEF Owner, PopCas
  <1>2. /\ localBot = oldAge.top /\ LogicalBot = localBot + 1 /\ LogicalBot' = 0
        /\ age.top \in Nat /\ localBot \in Nat
    BY DEF PopCas, Fenced, IInv, BotInv, AgeInv, LogicalBot, Undecided, TypeOK, Ages
  <1>3. CASE age = oldAge
    <2>1. pc' = "return" /\ age' = NewAge /\ job = deq[localBot]
      BY <1>2, <1>3 DEF PopCas, IInv, OwnJobInv
    <2>2. /\ age.top < LogicalBot /\ age.top + 1 = LogicalBot
          /\ ~(age.top < LogicalBot)' /\ LogicalBot - 1 = localBot
      BY <1>2, <1>3, <2>1 DEF NewAge
    <2>3. /\ Items # <<>> /\ Items[Len(Items)] = job
          /\ Items' = SubSeq(Items, 1, Len(Items) - 1)
      BY <1>1, <2>1, <2>2, ItemsPopped DEF IInv
    <2>4. OwnerCall' = [op |-> "popped", job |-> job]
      BY <1>1, <2>1 DEF CallsInv
    <2>5. Abstract!Pop
      BY <1>1, <2>3, <2>4 DEF Abstract!Pop
    <2>6. QED
      BY <2>5 DEF Abstract!Next
  <1>4. CASE age # oldAge
    <2>1. pc' = "pop_store_age" /\ age' = age
      BY <1>4 DEF PopCas
    <2>2. age.top = localBot + 1
      BY <1>1, <2>1 DEF IInv, AgeInv, Resetting
    <2>3. Items' = Items /\ Items = <<>>
      <3>1. ~(age.top < LogicalBot) /\ ~(age.top < LogicalBot)'
        BY <1>2, <2>1, <2>2
      <3>2. QED
        BY <3>1, ItemsStayEmpty
    <2>4. OwnerCall' = [op |-> "popped", job |-> NoJob]
      BY <2>1 DEF CallsInv
    <2>5. Abstract!Pop
      BY <1>1, <2>3, <2>4 DEF Abstract!Pop
    <2>6. QED
      BY <2>5 DEF Abstract!Next
  <1>5. QED
    BY <1>3, <1>4

\* A push takes effect when its store of bot reaches memory.
LEMMA DrainStep ==
  ASSUME Known, Known', Drain
  PROVE  [Abstract!Next]_(Abstract!vars)
  <1> USE DEF Known
  <1>1. /\ UNCHANGED <<ThiefCall, excused, ownerVars>>
        /\ UNCHANGED <<pc, localBot, job, oldAge, nextJob>>
    BY OwnerLeavesThieves DEF Drain, ownerVars
  <1>2. /\ age.top \in Nat /\ bot \in Nat /\ localBot \in Nat
        /\ TypeOK /\ BufInv /\ ItemsInv /\ ItemsInv' /\ AgeInv /\ BotInv
    <2>1. TypeOK /\ BufInv /\ ItemsInv /\ ItemsInv' /\ AgeInv /\ BotInv
      BY DEF IInv
    <2>2. QED
      BY <2>1 DEF TypeOK, Ages, Slots
  <1>3. CASE /\ pc \in {"push_bot", "thrown"} /\ buf = <<SlotStore>>
             /\ deq' = [deq EXCEPT ![localBot - 1] = job] /\ UNCHANGED <<bot, age>>
    <2>1. LogicalBot = localBot - 1 /\ LogicalBot' = LogicalBot
      BY <1>1, <1>2, <1>3 DEF LogicalBot, Undecided, BotInv
    <2>2. \A s \in Held : deq'[s] = deq[s]
      BY <1>2, <1>3, <2>1 DEF Held, TypeOK
    <2>3. Items' = Items
      BY <1>2, <1>3, <2>1, <2>2, ItemsKept
    <2>4. UNCHANGED OwnerCall
      BY <1>1, <1>3 DEF CallsInv, Pushing
    <2>5. QED
      BY <1>1, <2>3, <2>4 DEF Abstract!vars
  <1>4. CASE /\ pc = "push_fence" /\ buf = <<SlotStore, BotStore(localBot)>>
             /\ buf' = <<BotStore(localBot)>>
             /\ deq' = [deq EXCEPT ![localBot - 1] = job] /\ UNCHANGED <<bot, age>>
    <2>1. buf # <<>> /\ buf' # <<>>
      BY <1>4, ShortSeqs
    <2>2. LogicalBot = localBot - 1 /\ LogicalBot' = LogicalBot
      BY <1>1, <1>2, <1>4, <2>1 DEF LogicalBot, Undecided, BotInv
    <2>3. \A s \in Held : deq'[s] = deq[s]
      BY <1>2, <1>4, <2>2 DEF Held, TypeOK
    <2>4. Items' = Items
      BY <1>2, <1>4, <2>2, <2>3, ItemsKept
    <2>5. UNCHANGED OwnerCall
      BY <1>1, <1>4, <2>1 DEF CallsInv, Pushing
    <2>6. QED
      BY <1>1, <2>4, <2>5 DEF Abstract!vars
  <1>5. CASE /\ pc = "push_fence" /\ buf = <<BotStore(localBot)>>
             /\ buf' = <<>> /\ bot' = localBot /\ UNCHANGED <<deq, age>>
    <2>1. buf # <<>>
      BY <1>5, ShortSeqs
    <2>2. /\ LogicalBot = localBot - 1 /\ LogicalBot' = localBot
          /\ age.top <= LogicalBot
      BY <1>1, <1>2, <1>5, <2>1 DEF LogicalBot, Undecided, BotInv, AgeInv, Resetting
    <2>3. deq[localBot - 1] = job
      BY <1>5 DEF IInv, OwnJobInv
    <2>4. Items' = Append(Items, job)
      <3>1. LogicalBot' = LogicalBot + 1
        BY <1>2, <2>2
      <3>2. QED
        BY <1>2, <1>5, <2>2, <2>3, <3>1, ItemsAppended
    <2>5. /\ OwnerCall = [op |-> "pushing", job |-> job]
          /\ OwnerCall' = [op |-> "pushed", job |-> job]
      BY <1>1, <1>5, <2>1 DEF CallsInv, Pushing
    <2>6. Abstract!Push
      BY <1>1, <2>4, <2>5 DEF Abstract!Push
    <2>7. QED
      BY <2>6 DEF Abstract!Next
  <1>6. CASE /\ pc \in {"pop_fence", "pop_cas"} /\ UNCHANGED <<deq, age>>
    <2>1. Undecided /\ Undecided' /\ LogicalBot' = LogicalBot
      BY <1>1, <1>2, <1>6 DEF LogicalBot, Undecided, AgeInv
    <2>2. Items' = Items
      BY <1>2, <1>6, <2>1, ItemsKept
    <2>3. UNCHANGED OwnerCall
      BY <2>1 DEF CallsInv
    <2>4. QED
      BY <1>1, <2>2, <2>3 DEF Abstract!vars
  <1>7. CASE /\ pc \in {"pop_store_age", "pop_last_fence"} /\ buf # <<>>
             /\ bot' = 0 /\ age' = age
    <2>1. ~(age.top < LogicalBot) /\ ~(age.top < LogicalBot)'
      BY <1>1, <1>2, <1>7 DEF LogicalBot, Undecided, AgeInv, BotInv, Resetting
    <2>2. Items' = Items
      BY <1>2, <2>1, ItemsStayEmpty
    <2>3. UNCHANGED OwnerCall
      BY <1>1, <1>7 DEF CallsInv
    <2>4. QED
      BY <1>1, <2>2, <2>3 DEF Abstract!vars
  <1>8. CASE /\ pc = "pop_last_fence" /\ buf = <<AgeStore>>
             /\ age' = NewAge /\ UNCHANGED <<deq, bot>>
    <2>1. buf # <<>> /\ buf # <<BotStore(0), AgeStore>>
      BY <1>8, ShortSeqs
    <2>2. ~(age.top < LogicalBot) /\ ~(age.top < LogicalBot)'
      BY <1>1, <1>2, <1>8, <2>1 DEF LogicalBot, Undecided, BotInv, NewAge
    <2>3. Items' = Items
      BY <1>2, <2>2, ItemsStayEmpty
    <2>4. UNCHANGED OwnerCall
      BY <1>1, <1>8 DEF CallsInv
    <2>5. QED
      BY <1>1, <2>3, <2>4 DEF Abstract!vars
  <1>9. QED
    BY <1>2, <1>3, <1>4, <1>5, <1>6, <1>7, <1>8, DrainCases, ShortSeqs

\* A thief's call takes effect at its exchange, or at the load of bot that sends
\* it away.
LEMMA ThiefSteps ==
  ASSUME Known, Known', NEW t \in Thieves, Thief(t)
  PROVE  [Abstract!Next]_(Abstract!vars)
  <1> USE DEF Known
  <1>1. /\ UNCHANGED <<bot, deq, buf, pc, localBot, job, oldAge, nextJob>>
        /\ UNCHANGED OwnerCall
    BY ThiefFrame DEF OwnerCall, Pushing, Undecided
  <1>2. LogicalBot' = LogicalBot
    BY <1>1 DEF LogicalBot, Undecided
  <1>3. ThiefCall' = [ThiefCall EXCEPT ![t] = ThiefCall'[t]]
    <2>1. \A u \in Thieves \ {t} : tpc'[u] = tpc[u] /\ tJob'[u] = tJob[u]
      BY DEF Thief, CallSteal, StealLoadAge, StealLoadBot, StealLoadSlot, StealCas,
             StealReturn, IInv, TypeOK
    <2>2. QED
      BY <2>1 DEF ThiefCall
  <1>4. age' = age => Items' = Items
    BY <1>1, <1>2, ItemsKept DEF IInv
  <1>5. CASE CallSteal(t)
    <2>1. /\ ThiefCall[t] = [op |-> "idle", job |-> NoJob]
          /\ ThiefCall'[t] = [op |-> "popping", job |-> NoJob]
      BY <1>5 DEF CallSteal, CallsInv, Active, IInv, TypeOK
    <2>2. excused' = [excused EXCEPT ![t] = Items = <<>> \/ OwnerCall.op = "popping"]
      <3>1. OwnerCall.op = "popping" <=> pc \in {"pop_load", "pop_bot"} \/ Undecided
        BY DEF CallsInv
      <3>2. QED
        BY <1>5, <3>1 DEF CallSteal
    <2>3. Abstract!CallSteal(t)
      BY <1>1, <1>3, <1>4, <1>5, <2>1, <2>2
         DEF CallSteal, memory, Abstract!CallSteal, Abstract!Idle
    <2>4. QED
      BY <2>3 DEF Abstract!Next
  <1>6. CASE StealLoadAge(t) \/ StealLoadSlot(t)
    <2>1. /\ UNCHANGED <<age, excused>>
          /\ ThiefCall[t] = [op |-> "popping", job |-> NoJob]
          /\ ThiefCall'[t] = [op |-> "popping", job |-> NoJob]
      BY <1>6 DEF StealLoadAge, StealLoadSlot, memory, CallsInv, Active, IInv, TypeOK
    <2>2. UNCHANGED ThiefCall
      BY <1>3, <2>1 DEF ThiefCall
    <2>3. QED
      BY <1>1, <1>4, <2>1, <2>2 DEF Abstract!vars
  <1>7. CASE StealLoadBot(t)
    <2>1. UNCHANGED <<age, excused>> /\ ThiefCall[t] = [op |-> "popping", job |-> NoJob]
      BY <1>7 DEF StealLoadBot, memory, CallsInv, Active, IInv, TypeOK
    <2>2. CASE bot > tAge[t].top
      <3>1. ThiefCall'[t] = [op |-> "popping", job |-> NoJob]
        BY <1>7, <2>2 DEF StealLoadBot, CallsInv, Active, IInv, TypeOK
      <3>2. UNCHANGED ThiefCall
        BY <1>3, <2>1, <3>1 DEF ThiefCall
      <3>3. QED
        BY <1>1, <1>4, <2>1, <3>2 DEF Abstract!vars
    <2>3. CASE ~(bot > tAge[t].top)
      <3>1. ThiefCall'[t] = [op |-> "popped", job |-> NoJob]
        BY <1>7, <2>3 DEF StealLoadBot, CallsInv, RInv, NothingInv, IInv, TypeOK
      <3>2. Items = <<>> \/ excused[t]
        <4>1. CASE tAge[t] # age \/ PopPhase \/ Resetting
          BY <1>7, <4>1 DEF StealLoadBot, RInv, ExcuseInv, Active
        <4>2. CASE tAge[t] = age /\ ~PopPhase
          <5>1. LogicalBot = bot /\ bot \in Nat /\ age.top \in Nat
            BY <4>2 DEF PopPhase, LogicalBot, Undecided, IInv, TypeOK, Slots, Ages
          <5>2. ~(age.top < LogicalBot)
            BY <2>3, <4>2, <5>1
          <5>3. QED
            BY <5>2, ItemsEmpty DEF IInv
        <4>3. QED
          BY <4>1, <4>2
      <3>3. Abstract!StealNothing(t)
        BY <1>1, <1>3, <1>4, <2>1, <3>1, <3>2 DEF Abstract!StealNothing
      <3>4. QED
        BY <3>3 DEF Abstract!Next
    <2>4. QED
      BY <2>2, <2>3
  <1>8. CASE StealCas(t)
    <2>1. tpc'[t] = "return" /\ ThiefCall[t] = [op |-> "popping", job |-> NoJob]
      BY <1>8 DEF StealCas, CallsInv, Active, IInv, TypeOK
    <2>2. CASE age = tAge[t]
      <3>1. age.top < LogicalBot /\ tJob[t] = deq[age.top]
        BY <1>8, <2>2 DEF StealCas, IInv, ThiefInv
      <3>2. age'.top = age.top + 1
        BY <1>8, <2>2 DEF StealCas, IInv, TypeOK, Ages
      <3>3. Items # <<>> /\ Head(Items) = tJob[t] /\ Items' = Tail(Items)
        BY <1>1, <1>2, <3>1, <3>2, ItemsStolen DEF IInv
      <3>4. ThiefCall'[t] = [op |-> "popped", job |-> tJob[t]]
        BY <1>8, <2>1, <2>2 DEF StealCas, CallsInv
      <3>5. excused' = [u \in Thieves |-> u # t \/ excused[u]]
        BY <1>8, <2>2 DEF StealCas
      <3>6. Abstract!Steal(t)
        BY <1>1, <1>3, <2>1, <3>3, <3>4, <3>5 DEF Abstract!Steal, Abstract!ExcuseOthers
      <3>7. QED
        BY <3>6 DEF Abstract!Next
    <2>3. CASE age # tAge[t]
      <3>1. UNCHANGED <<age, excused>> /\ excused[t]
        BY <1>8, <2>3 DEF StealCas, RInv, ExcuseInv, Active
      <3>2. tJob'[t] = NoJob
        BY <1>8, <2>3 DEF StealCas, IInv, TypeOK
      <3>3. ThiefCall'[t] = [op |-> "popped", job |-> NoJob]
        BY <2>1, <3>2 DEF CallsInv
      <3>4. Abstract!StealNothing(t)
        BY <1>1, <1>3, <1>4, <2>1, <3>1, <3>3 DEF Abstract!StealNothing
      <3>5. QED
        BY <3>4 DEF Abstract!Next
    <2>4. QED
      BY <2>2, <2>3
  <1>9. CASE StealReturn(t)
    <2>1. /\ UNCHANGED <<age, excused>>
          /\ ThiefCall[t] = [op |-> "popped", job |-> tJob[t]]
          /\ ThiefCall'[t] = [op |-> "idle", job |-> NoJob]
      BY <1>9 DEF StealReturn, memory, CallsInv, IInv, TypeOK
    <2>2. Abstract!ThiefReturn(t)
      BY <1>1, <1>3, <1>4, <2>1 DEF Abstract!ThiefReturn, Abstract!Idle
    <2>3. QED
      BY <2>2 DEF Abstract!Next
  <1>10. QED
    BY <1>5, <1>6, <1>7, <1>8, <1>9 DEF Thief

\* The initial states are initial states of AtomicDeque.
LEMMA InitialStates ==
  ASSUME Init, Known
  PROVE  Abstract!Init
  <1> USE DEF Known
  <1>1. ~(age.top < LogicalBot)
    BY DEF Init, LogicalBot, Undecided, Zero
  <1>2. Items = <<>>
    BY <1>1, ItemsEmpty DEF IInv
  <1>3. OwnerCall = [op |-> "idle", job |-> NoJob] /\ excused = [t \in Thieves |-> FALSE]
    BY DEF Init, CallsInv
  <1>4. ThiefCall = [t \in Thieves |-> [op |-> "idle", job |-> NoJob]]
    BY DEF Init, ThiefCall
  <1>5. QED
    BY <1>2, <1>3, <1>4 DEF Abstract!Init, Abstract!Idle

\* The deque of the code, under the store buffer of the owner, is a deque whose
\* calls take effect in one step each: the owner gets the youngest job, a thief
\* the oldest, and the owner is told that there is none only when there is none.
THEOREM Refinement == Spec => ImplementsAtomicDeque
  <1>1. Init /\ Known => Abstract!Init
    BY InitialStates
  <1>2. ASSUME Known, Known', [Next]_vars
        PROVE  [Abstract!Next]_(Abstract!vars)
    <2>1. CASE UNCHANGED vars
      <3>1. UNCHANGED <<LogicalBot, age, deq, OwnerCall, ThiefCall, excused>>
        BY <2>1 DEF vars, memory, ownerVars, thiefVars, LogicalBot, Undecided, OwnerCall,
             Pushing, ThiefCall
      <3>2. Items' = Items
        BY <3>1 DEF Items
      <3>3. QED
        BY <3>1, <3>2 DEF Abstract!vars
    <2>2. QED
      BY <1>2, <2>1, PushSteps, PopSteps, PopLoadAgeStep, PopCasStep, DrainStep,
         ThiefSteps DEF Next, Owner
  <1>3. QED
    BY <1>1, <1>2, AlwaysKnown, PTL DEF Spec, ImplementsAtomicDeque, Abstract!Spec
================================================================================
