----------------------------- MODULE OrderedMap -----------------------------
(***************************************************************************)
(* What a fan-out promises (src/src/fanout.py): a list of tasks in, a list *)
(* of as many results out, the i-th of them what the i-th task came to.    *)
(* In which order the tasks are worked on, and where, is left open; they   *)
(* are all answered before the list is given back, or it never is.         *)
(***************************************************************************)
EXTENDS Naturals, Sequences

CONSTANTS
  Pending,      \* the slot of a task that has not come to an end
  Results(_)    \* what a task may come to

VARIABLES
  tasks,        \* the list in hand, <<>> between two fan-outs
  results       \* its slots

Init == tasks = <<>> /\ results = <<>>

Complete == \A i \in DOMAIN results : results[i] # Pending

\* A list of tasks is handed over when none is in hand or all is answered;
\* handing over the empty one is giving the results back.
Submit ==
  /\ Complete
  /\ results' = [i \in DOMAIN tasks' |-> Pending]

Answer(i) ==
  /\ results[i] = Pending
  /\ \E r \in Results(tasks[i]) : results' = [results EXCEPT ![i] = r]
  /\ UNCHANGED tasks

\* An interrupt gives the whole list up.
Abandon == tasks' = <<>> /\ results' = <<>>

Next == Submit \/ Abandon \/ \E i \in DOMAIN tasks : Answer(i)
Spec == Init /\ [][Next]_<<tasks, results>>
=============================================================================
