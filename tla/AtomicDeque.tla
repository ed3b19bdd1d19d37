------------------------------ MODULE AtomicDeque ------------------------------
(* What the deque of schedulers/scheduler.h promises its two kinds of users,   *)
(* the worker that owns it and the workers that steal from it: every call      *)
(* takes effect in one step between its call and its return. The owner works   *)
(* at one end and is always answered truthfully; a thief takes from the other  *)
(* end, and may go away with nothing although there is something to take when  *)
(* somebody interfered.                                                        *)
EXTENDS Sequences, Naturals

CONSTANTS
  Thieves,
  Jobs,
  NoJob     \* nullptr, not in Jobs

VARIABLES
  items,    \* the jobs in the deque, the oldest first
  owner,    \* the owner's call: [op, job]
  thief,    \* the call of each thief: [op, job]
  excused   \* of each thief: something has happened, since it called, that
            \* allows it to take nothing

vars == <<items, owner, thief, excused>>

Calls == {"idle", "pushing", "pushed", "popping", "popped"}

Idle == [op |-> "idle", job |-> NoJob]

Init ==
  /\ items = <<>>
  /\ owner = Idle
  /\ thief = [t \in Thieves |-> Idle]
  /\ excused = [t \in Thieves |-> FALSE]

ExcuseOthers(t) == [u \in Thieves |-> u # t \/ excused[u]]

--------------------------------------------------------------------------------
CallPush(job) ==
  /\ owner = Idle
  /\ owner' = [op |-> "pushing", job |-> job]
  /\ UNCHANGED <<items, thief, excused>>

Push ==
  /\ owner.op = "pushing"
  /\ items' = Append(items, owner.job)
  /\ owner' = [owner EXCEPT !.op = "pushed"]
  /\ UNCHANGED <<thief, excused>>

\* The owner is about to take something: a thief that gives way to it may.
CallPop ==
  /\ owner = Idle
  /\ owner' = [op |-> "popping", job |-> NoJob]
  /\ excused' = [t \in Thieves |-> TRUE]
  /\ UNCHANGED <<items, thief>>

\* The owner takes the youngest job; it is told that there is none only when
\* there is none.
Pop ==
  /\ owner.op = "popping"
  /\ IF items = <<>>
       THEN owner' = [op |-> "popped", job |-> NoJob] /\ UNCHANGED items
       ELSE /\ owner' = [op |-> "popped", job |-> items[Len(items)]]
            /\ items' = SubSeq(items, 1, Len(items) - 1)
  /\ UNCHANGED <<thief, excused>>

OwnerReturn ==
  /\ owner.op \in {"pushed", "popped"}
  /\ owner' = Idle
  /\ UNCHANGED <<items, thief, excused>>

CallSteal(t) ==
  /\ thief[t] = Idle
  /\ thief' = [thief EXCEPT ![t] = [op |-> "popping", job |-> NoJob]]
  /\ excused' = [excused EXCEPT ![t] = items = <<>> \/ owner.op = "popping"]
  /\ UNCHANGED <<items, owner>>

\* The thief takes the oldest job.
Steal(t) ==
  /\ thief[t].op = "popping"
  /\ items # <<>>
  /\ thief' = [thief EXCEPT ![t] = [op |-> "popped", job |-> Head(items)]]
  /\ items' = Tail(items)
  /\ excused' = ExcuseOthers(t)
  /\ UNCHANGED owner

\* Taking nothing needs an excuse: the deque was empty, somebody else took a
\* job, or the owner was taking one, at some time during the call.
StealNothing(t) ==
  /\ thief[t].op = "popping"
  /\ items = <<>> \/ excused[t]
  /\ thief' = [thief EXCEPT ![t] = [op |-> "popped", job |-> NoJob]]
  /\ UNCHANGED <<items, owner, excused>>

ThiefReturn(t) ==
  /\ thief[t].op = "popped"
  /\ thief' = [thief EXCEPT ![t] = Idle]
  /\ UNCHANGED <<items, owner, excused>>

Next ==
  \/ \E job \in Jobs : CallPush(job)
  \/ Push \/ CallPop \/ Pop \/ OwnerReturn
  \/ \E t \in Thieves : CallSteal(t) \/ Steal(t) \/ StealNothing(t) \/ ThiefReturn(t)

Spec == Init /\ [][Next]_vars
================================================================================
