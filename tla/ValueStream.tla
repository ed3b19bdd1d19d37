------------------------------ MODULE ValueStream ------------------------------
(***************************************************************************)
(* What parsing a message promises: the object takes the values of the     *)
(* message one at a time, in the order in which they were written, and     *)
(* changes in no other way.                                                *)
(***************************************************************************)
EXTENDS Integers, Sequences

CONSTANT Stages(_)      \* the objects that a message builds, value by value

VARIABLES message, object

Init == object = Stages(message)[1]

Take ==
  /\ LET stages == Stages(message)
     IN  \E k \in 2..Len(stages) : object = stages[k - 1] /\ object' = stages[k]
  /\ message' = message

Spec == Init /\ [][Take]_<<message, object>>
=============================================================================
