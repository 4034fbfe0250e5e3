--------------------------- MODULE TaskLifecycle ---------------------------
(***************************************************************************)
(* What the background runtime (src/src/tasks.py) promises of its tasks: a *)
(* task is started once, ends once, as done only if its worker delivered,  *)
(* and is announced at most once, after it has ended.                      *)
(***************************************************************************)
CONSTANT Task

VARIABLES
  phase,      \* what the registry says of each task
  delivered,  \* the tasks whose worker succeeded, with a result
  told        \* the tasks that have been announced

vars == <<phase, delivered, told>>

Ended == {"done", "error"}

Init ==
  /\ phase = [t \in Task |-> "none"]
  /\ delivered = {}
  /\ told = {}

Start(t) ==
  /\ phase[t] = "none"
  /\ phase' = [phase EXCEPT ![t] = "running"]
  /\ UNCHANGED <<delivered, told>>

\* Also by a worker that outlived the calling off of its task: it ends nothing.
Deliver(t) ==
  /\ phase[t] # "none"
  /\ delivered' = delivered \cup {t}
  /\ UNCHANGED <<phase, told>>

\* Some running tasks end, in one look at all of them.
Settle ==
  /\ phase' \in [Task -> {"none", "running"} \cup Ended]
  /\ \A t \in Task :
       \/ phase'[t] = phase[t]
       \/ phase[t] = "running" /\ phase'[t] = "done" /\ t \in delivered
       \/ phase[t] = "running" /\ phase'[t] = "error"
  /\ UNCHANGED <<delivered, told>>

Tell ==
  /\ told' = {t \in Task : phase[t] \in Ended}
  /\ UNCHANGED <<phase, delivered>>

\* Called off: the user asked for it, so nothing is announced later.
CallOff(t) ==
  /\ phase[t] = "running"
  /\ phase' = [phase EXCEPT ![t] = "error"]
  /\ told' = told \cup {t}
  /\ UNCHANGED delivered

Next == Settle \/ Tell \/ \E t \in Task : Start(t) \/ Deliver(t) \/ CallOff(t)

Spec == Init /\ [][Next]_vars
=============================================================================
