------------------------------ MODULE ParallelFor ------------------------------
(* What parlay::parallel_for(0, n, f) promises: f(i) is called exactly once    *)
(* for each i, the calls may come in any order and overlap, and parallel_for   *)
(* returns when all have been made. The program makes several such loops, one  *)
(* after the other.                                                            *)
EXTENDS Sequences, Integers

CONSTANT Loops    \* the number of iterations of each loop, a sequence

VARIABLES
  loop,       \* the loop that is running, Len(Loops) + 1 after the last one
  executed    \* its iterations that have been executed

vars == <<loop, executed>>

Init == loop = 1 /\ executed = {}

Iterations == IF loop <= Len(Loops) THEN 0 .. Loops[loop] - 1 ELSE {}

Execute(i) ==
  /\ executed' = executed \union {i}
  /\ UNCHANGED loop

Return ==
  /\ loop <= Len(Loops)
  /\ executed = Iterations
  /\ loop' = loop + 1
  /\ executed' = {}

Next == (\E i \in Iterations \ executed : Execute(i)) \/ Return

Spec == Init /\ [][Next]_vars
================================================================================
