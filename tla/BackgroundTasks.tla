-------------------------- MODULE BackgroundTasks --------------------------
(***************************************************************************)
(* The background runtime (src/src/tasks.py), its workers (_run_task in    *)
(* src/src/cli.py) and the prompt loop around it.  A worker is a process   *)
(* that writes its result to a file and exits; the registry only polls, at *)
(* the top of each round of the prompt loop, and a file may become visible *)
(* some time after it was written (a synchronized folder).  Its names are  *)
(* apart from Conversation's, the other half of the prompt loop, so that   *)
(* one module can extend both.                                             *)
(***************************************************************************)
EXTENDS Naturals, FiniteSets

CONSTANTS
  Task,   \* the workflows that may be submitted
  Cap,    \* CODE_MAX_BACKGROUND_TASKS
  Grace   \* _GRACE_POLLS

ASSUME TasksAssumption ==
  /\ Cap \in Nat \ {0}
  /\ Grace \in Nat

VARIABLES
  loop,       \* where the prompt loop is
  submitted,  \* has this turn submitted a workflow?  (ctx._workflow_digest)
  state,      \* _Task.state; "none" before the registry knows the task
  result,     \* the status in _Task.result
  polls,      \* _Task._polls
  announced,  \* the tasks with _Task._announced
  proc,       \* the worker: "none", "alive", or its exit "ok" or "failed"
  file,       \* the status in its result file
  visible,    \* the result files a reader can see
  outlived,   \* history: the workers that an attempt to cancel did not end
  banners     \* history: the completion banners printed for each task

registry == <<state, result, polls, announced>>
worker   == <<proc, file, visible, outlived>>
tasks    == <<loop, submitted, registry, worker, banners>>

Terminal == {"done", "error"}
Alive    == {t \in Task : proc[t] = "alive"}

\* Mutant of NonTerminal: a late poll can resurrect a task.
NonTerminalToo == {t \in Task : state[t] # "none"}

NonTerminal == {t \in Task : state[t] = "running"}
-----------------------------------------------------------------------------
(* The workers.                                                            *)

\* _run_task: the result, and the exit code that goes with it.
Writes(t) ==
  /\ proc[t] = "alive" /\ file[t] = "none"
  /\ \E status \in Terminal : file' = [file EXCEPT ![t] = status]
  /\ UNCHANGED <<loop, submitted, registry, proc, visible, outlived, banners>>

\* A file that was replaced atomically is seen whole, but maybe not at once.
Appears(t) ==
  /\ file[t] # "none" /\ t \notin visible
  /\ visible' = visible \cup {t}
  /\ UNCHANGED <<loop, submitted, registry, proc, file, outlived, banners>>

Exits(t) ==
  /\ proc[t] = "alive" /\ file[t] # "none"
  /\ proc' = [proc EXCEPT ![t] = IF file[t] = "done" THEN "ok" ELSE "failed"]
  /\ UNCHANGED <<loop, submitted, registry, file, visible, outlived, banners>>

\* A worker can die at any point; Ctrl-C at the terminal reaches it too.
Dies(t) ==
  /\ proc[t] = "alive"
  /\ proc' = [proc EXCEPT ![t] = "failed"]
  /\ UNCHANGED <<loop, submitted, registry, file, visible, outlived, banners>>
-----------------------------------------------------------------------------
(* The registry.                                                           *)

Full == Cardinality(NonTerminal) >= Cap

\* submit, and run_workflow around it: one submission to a turn.  A launch
\* that fails leaves no task behind.
Submit(t) ==
  /\ loop = "turn" /\ ~submitted
  /\ state[t] = "none" /\ ~Full
  /\ submitted' = TRUE
  /\ state' = [state EXCEPT ![t] = "running"]
  /\ proc' = [proc EXCEPT ![t] = "alive"]
  /\ UNCHANGED <<loop, result, polls, announced, file, visible, outlived, banners>>

\* Mutant of Polled: the result decides alone, whatever the exit code.
PolledByResult(t) ==
  IF t \in visible THEN file[t]
  ELSE IF proc[t] = "alive" THEN "running"
  ELSE IF proc[t] = "failed" \/ polls[t] + 1 > Grace THEN "error"
  ELSE "running"

\* One task in refresh, with _next_state.
Polled(t) ==
  IF proc[t] = "alive" THEN "running"
  ELSE IF t \in visible
    THEN IF proc[t] = "ok" /\ file[t] # "error" THEN "done" ELSE "error"
  ELSE IF proc[t] = "failed" \/ polls[t] + 1 > Grace THEN "error"
  ELSE "running"

\* The tasks that refresh counts a poll for: gone without a visible result.
Waiting == {t \in NonTerminal \ visible : proc[t] = "ok"}

\* refresh, over all the tasks that have not ended.
Refreshed ==
  /\ state' = [t \in Task |-> IF t \in NonTerminal THEN Polled(t) ELSE state[t]]
  /\ result' = [t \in Task |-> IF t \in (NonTerminal \cap visible) \ Alive
                                 THEN file[t] ELSE result[t]]
  /\ polls' = [t \in Task |-> IF t \in Waiting THEN polls[t] + 1 ELSE polls[t]]
  /\ UNCHANGED <<submitted, announced, worker, banners>>

Refresh ==
  /\ loop = "refresh"
  /\ loop' = "drain"
  /\ Refreshed

Untold == {t \in Task : state[t] \in Terminal} \ announced

\* Mutant of Drained: only the good news.
DrainedDone == {t \in Untold : state[t] = "done"}

\* drain_finished.
Drained == Untold

Drain ==
  /\ loop = "drain"
  /\ loop' = "input"
  /\ announced' = announced \cup Drained
  /\ banners' = [t \in Task |-> IF t \in Drained THEN banners[t] + 1 ELSE banners[t]]
  /\ UNCHANGED <<submitted, state, result, polls, worker>>
-----------------------------------------------------------------------------
(* The prompt loop.                                                        *)

TasksInit ==
  /\ loop = "refresh"
  /\ submitted = FALSE
  /\ state = [t \in Task |-> "none"]
  /\ result = [t \in Task |-> "none"]
  /\ polls = [t \in Task |-> 0]
  /\ announced = {}
  /\ proc = [t \in Task |-> "none"]
  /\ file = [t \in Task |-> "none"]
  /\ visible = {}
  /\ outlived = {}
  /\ banners = [t \in Task |-> 0]

Goto(place) ==
  /\ loop' = place
  /\ submitted' = FALSE
  /\ UNCHANGED <<registry, worker, banners>>

\* A command (/tasks, /result, an empty line) or a turn, and the end of one.
Command   == loop = "input" /\ Goto("refresh")
BeginTurn == loop = "input" /\ Goto("turn")
EndTurn   == loop = "turn" /\ Goto("refresh")

\* /exit, the end of the input, or an exception that leaves the loop
\* (`finally`): _teardown_tasks looks once more ...
Exit ==
  /\ loop \in {"refresh", "drain", "input", "turn"}
  /\ loop' = "teardown"
  /\ Refreshed

\* ... leaves the rest running, as the user asked ...
Keep ==
  /\ loop = "teardown"
  /\ Goto("kept")

\* Mutant of Cancelled: the process is left to itself.
CancelledInName(t) == proc

\* cancel: the process is terminated and waited for.
Cancelled(t) == [proc EXCEPT ![t] = IF @ = "alive" THEN "failed" ELSE @]

\* `except Exception: pass`: terminate() raised, or the worker did not end
\* within the five seconds wait() gives it.
Outlives(t) ==
  /\ proc[t] = "alive"
  /\ outlived' = outlived \cup {t}
  /\ UNCHANGED proc

\* ... or cancels it, one task at a time; the registry calls it an error even
\* where its worker is still there.
Cancel(t) ==
  /\ loop = "teardown" /\ t \in NonTerminal
  /\ state' = [state EXCEPT ![t] = "error"]
  /\ announced' = announced \cup {t}
  /\ \/ proc' = Cancelled(t) /\ UNCHANGED outlived
     \/ Outlives(t)
  /\ UNCHANGED <<loop, submitted, result, polls, file, visible, banners>>

\* Ctrl-C while one of them is waited for is no Exception: nothing catches it.
Abort ==
  /\ loop = "teardown" /\ NonTerminal # {}
  /\ Goto("aborted")

Close ==
  /\ loop = "teardown" /\ NonTerminal = {}
  /\ Goto("ended")

Worker(t) == Writes(t) \/ Appears(t) \/ Exits(t) \/ Dies(t)
Repl ==
  \/ Refresh \/ Drain \/ Command \/ BeginTurn \/ EndTurn
  \/ Exit \/ Keep \/ Abort \/ Close

TasksNext == Repl \/ \E t \in Task : Submit(t) \/ Cancel(t) \/ Worker(t)

TasksSpec == TasksInit /\ [][TasksNext]_tasks
-----------------------------------------------------------------------------
(* Properties.                                                             *)

\* Every variable keeps its type; only ended tasks have been announced.
TypeOK ==
  /\ loop \in {"refresh", "drain", "input", "turn", "teardown", "kept", "aborted", "ended"}
  /\ submitted \in BOOLEAN
  /\ state \in [Task -> {"none", "running"} \cup Terminal]
  /\ result \in [Task -> {"none"} \cup Terminal]
  /\ polls \in [Task -> Nat]
  /\ announced \in SUBSET {t \in Task : state[t] \in Terminal}
  /\ proc \in [Task -> {"none", "alive", "ok", "failed"}]
  /\ file \in [Task -> {"none"} \cup Terminal]
  /\ visible \in SUBSET Task
  /\ outlived \in SUBSET Task
  /\ banners \in [Task -> Nat]

\* A task is done only if its worker exited well and left a good result, and
\* that is the result /result hands out (refresh, pull).
DoneIsGenuine ==
  \A t \in Task : state[t] = "done" =>
    proc[t] = "ok" /\ file[t] = "done" /\ result[t] = "done"

\* When the user can type, every task that ended has been announced, by one
\* banner (drain_finished).
PromptTold ==
  loop = "input" => \A t \in Task :
    banners[t] = IF state[t] \in Terminal THEN 1 ELSE 0

\* A session that ends without being asked to keep its tasks, and whose
\* teardown is not broken off, leaves no worker behind but one that outlived an
\* attempt to end it; and no later success of that one counts, or is told of
\* (_teardown_tasks, cancel).
NoOrphans ==
  loop = "ended" =>
    /\ Alive \subseteq outlived
    /\ \A t \in outlived : state[t] = "error" /\ t \in announced

\* The runtime implements what it promises of a task.
Lifecycle == INSTANCE TaskLifecycle WITH
  phase <- state,
  delivered <- {t \in Task : proc[t] = "ok"},
  told <- announced

ImplementsLifecycle == Lifecycle!Spec
=============================================================================
