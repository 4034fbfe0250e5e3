------------------------------ MODULE Flywheel -------------------------------
(***************************************************************************)
(* Every run writes a trajectory: a session (SessionRecord), the tasks of  *)
(* the held-out gate (src/eval/harness.py), the tasks of a capture         *)
(* (src/train/capture.py), and the children any of them starts             *)
(* (src/src/subagent.py).  What a run writes lands in the archive that     *)
(* train.convert reads, as it is at any time.                              *)
(*                                                                         *)
(* file is the trajectory of the innermost run; the runs that wait for it  *)
(* are frames of a stack.  The files of children that run side by side are *)
(* apart, so their order does not matter here.                             *)
(***************************************************************************)
EXTENDS SessionRecord

ASSUME FlywheelAssumption ==
  \A s \in Scenarios : s.programs \subseteq {"session", "gate", "capture"} /\ {s.children, s.depth} \subseteq Nat

VARIABLES
  program,  \* "session", "gate" (harness.main) or "capture"
  jobs,     \* the tasks it has left to run
  kind,     \* the innermost run: "session", "task", "behaviour" or "child"
  home,     \* the directory of its file
  handed,   \* ctx.traj_dir, "" is None
  stack,    \* the runs that wait for a child
  children, \* how many were started
  over      \* the files of the runs that the last step ended: none changes later

flyVars == <<program, jobs, kind, home, handed, stack, children, over>>
fly == <<vars, flyVars>>

Frame == [kind |-> kind, home |-> home, handed |-> handed, file |-> file, toolCalls |-> toolCalls]

\* A file as convert.main meets it; gate tells whose run wrote it.
Filed(frame) == [home |-> frame.home, records |-> frame.file, gate |-> program = "gate"]

Started == {Filed(stack[n]) : n \in DOMAIN stack} \cup (IF file = <<>> THEN {} ELSE {Filed(Frame)})
Archive == over \cup Started

Batches == [session |-> <<"session">>, gate |-> <<"task", "behaviour">>, capture |-> <<"task", "task">>]

FlyInit ==
  /\ scope \in Scenarios /\ program \in scope.programs
  /\ over = {} /\ children = 0 /\ stack = <<>> /\ handed = ""
  /\ turns = 0 /\ toolCalls = 0 /\ serial = 0 /\ lives = 1 /\ fence = {} /\ granting = {}
  /\ IF program = "session"
     THEN /\ pc = "prompt" /\ solo \in scope.solo /\ jobs = <<>>
          /\ kind = "session" /\ home = "sessions"
          /\ file = <<Record("session_start", TRUE, 0)>>
     ELSE /\ pc = "idle" /\ solo = FALSE /\ jobs = Batches[program]
          /\ kind = "none" /\ home = "none" /\ file = <<>>

Innermost(k) == kind \in k /\ over' = {} /\ UNCHANGED <<program, jobs, kind, home, handed, stack, children>>

\* A session of its own, and what any agent does.
SessionStep ==
  /\ Innermost({"session"})
  /\ \/ Grant \/ Tell \/ Begin \/ Label \/ Fail \/ Exit \/ ExitSolo \/ FailSolo
     \/ Crash \/ Resume \/ ResumeRaises

AgentStep == Innermost({"session", "task", "behaviour", "child"})
             /\ (Think \/ Use \/ Request \/ Check \/ Finish)

-----------------------------------------------------------------------------
(* run_task, run_agentic_task and the programs around them.                *)

Kept == <<scope, solo, turns, fence, granting, lives>>

Closed(records) == over' = {Filed([Frame EXCEPT !.file = file \o records])}

\* A harness goes on with its next task, or ends.
Next1(ends) ==
  /\ pc' = IF ends THEN "off" ELSE "idle"
  /\ file' = <<>> /\ toolCalls' = 0 /\ kind' = "none" /\ home' = "none" /\ handed' = ""
  /\ UNCHANGED <<Kept, program, stack, serial, children>>

\* Mutant of BeginTask: the context of a task has no traj_dir.
BeginTaskLoose ==
  /\ pc = "idle" /\ jobs # <<>>
  /\ jobs' = Tail(jobs) /\ kind' = Head(jobs)
  /\ home' = (IF program = "gate" THEN "eval" ELSE "corpus") /\ handed' = ""
  /\ file' = <<Record("session_start", TRUE, 0)>> /\ serial' = serial + 1 /\ pc' = "turn"
  /\ over' = {} /\ UNCHANGED <<Kept, toolCalls, program, stack, children>>

\* The workspace of a task is laid out, its trajectory is opened where the
\* batch says and its context hands that directory on.
BeginTask ==
  /\ pc = "idle" /\ jobs # <<>>
  /\ jobs' = Tail(jobs) /\ kind' = Head(jobs)
  /\ home' = (IF program = "gate" THEN "eval" ELSE "corpus") /\ handed' = home'
  /\ file' = <<Record("session_start", TRUE, 0)>> /\ serial' = serial + 1 /\ pc' = "turn"
  /\ over' = {} /\ UNCHANGED <<Kept, toolCalls, program, stack, children>>

\* A verify task that raised has a result without the tier that harness.main
\* prints, and takes the rest of the gate with it.
Aborts(k) == program = "gate" /\ k = "task"

\* The layout fails before there is a trajectory.
LayoutFails ==
  /\ pc = "idle" /\ jobs # <<>>
  /\ jobs' = Tail(jobs)
  /\ Next1(Aborts(Head(jobs)))
  /\ over' = {}

\* The run returned: the verify command, then the outcome that outlives it.
EndTask ==
  /\ pc = "returned" /\ kind = "task"
  /\ \E terminated \in scope.exits, passed \in BOOLEAN :
       Closed(<<Record("verification", passed, serial),
                End(Completed(terminated, Of(file, "tool_call")) /\ passed, terminated, serial)>>)
  /\ Next1(FALSE)
  /\ UNCHANGED jobs

EndBehaviour ==
  /\ pc = "returned" /\ kind = "behaviour"
  /\ \E terminated \in scope.exits :
       Closed(<<End(Completed(terminated, Of(file, "tool_call")), terminated, serial)>>)
  /\ Next1(FALSE)
  /\ UNCHANGED jobs

TaskRaises ==
  /\ pc \in {"turn", "returned"} /\ kind \in {"task", "behaviour"}
  /\ Closed(<<End(FALSE, "exception", serial)>>)
  /\ Next1(Aborts(kind))
  /\ UNCHANGED jobs

BatchEnds ==
  /\ pc = "idle" /\ jobs = <<>>
  /\ Next1(TRUE)
  /\ over' = {} /\ UNCHANGED jobs

-----------------------------------------------------------------------------
(* run_subagent.                                                           *)

\* A child's file goes where its parent's context says, or to the sessions.
Spawn ==
  /\ pc = "turn" /\ children < scope.children /\ (kind # "child" \/ Len(stack) < scope.depth)
  /\ stack' = Append(stack, Frame)
  /\ kind' = "child" /\ toolCalls' = 0
  /\ home' = (IF handed = "" THEN "sessions" ELSE handed) /\ handed' = handed
  /\ file' = <<[Record("session_start", TRUE, 0) EXCEPT !.child = TRUE]>>
  /\ children' = children + 1 /\ over' = {}
  /\ UNCHANGED <<Kept, pc, serial, program, jobs>>

\* The parent goes on with the child's text; the call is on its record.
Resumes(frame) ==
  /\ stack' = SubSeq(stack, 1, Len(stack) - 1)
  /\ pc' = "turn" /\ kind' = frame.kind /\ home' = frame.home /\ handed' = frame.handed
  /\ file' = Append(frame.file, Record("tool_call", TRUE, serial))
  /\ toolCalls' = frame.toolCalls + 1
  /\ UNCHANGED <<Kept, serial, program, jobs, children>>

ChildEnds ==
  /\ pc = "returned" /\ kind = "child"
  /\ \E terminated \in scope.exits :
       Closed(<<End(Completed(terminated, Of(file, "tool_call")), terminated, serial)>>)
  /\ Resumes(stack[Len(stack)])

ChildRaises ==
  /\ pc \in {"turn", "returned"} /\ kind = "child"
  /\ Closed(<<End(FALSE, "exception", serial)>>)
  /\ Resumes(stack[Len(stack)])

\* Ctrl-C passes through the children, whose files stay as they are, to the
\* REPL, or ends the program.
Unwind ==
  /\ kind \in {"task", "behaviour", "child"} /\ pc \in {"turn", "returned"}
  /\ IF program = "session" /\ ~solo
     THEN /\ over' = {f \in Started : f.records[1].child}
          /\ file' = Append(stack[1].file, Outcome("error")) /\ toolCalls' = stack[1].toolCalls
          /\ pc' = "prompt" /\ kind' = "session" /\ home' = stack[1].home /\ handed' = stack[1].handed
     ELSE /\ over' = Started
          /\ file' = <<>> /\ toolCalls' = 0
          /\ pc' = "off" /\ kind' = "none" /\ home' = "none" /\ handed' = ""
  /\ stack' = <<>>
  /\ UNCHANGED <<Kept, serial, program, jobs, children>>

HarnessStep == \/ BeginTask \/ LayoutFails \/ EndTask \/ EndBehaviour \/ TaskRaises \/ BatchEnds
               \/ Spawn \/ ChildEnds \/ ChildRaises \/ Unwind

FlyNext == (UNCHANGED scope /\ (SessionStep \/ AgentStep)) \/ HarnessStep

FlySpec == FlyInit /\ [][FlyNext]_fly
-----------------------------------------------------------------------------
(* Properties.                                                             *)

\* Whatever run wrote a file, at whatever depth and however it ended, and
\* whenever convert reads it: only good turns become rows.  A session that was
\* resumed is left out.
TrainedUnlessResumed == lives = 1 => \A f \in Converted(Archive) : OnlyGood(f.records)

\* Nor is a good turn lost of a file that is over.
GoodTurnsKept ==
  lives = 1 => \A f \in Converted(over \cup {g \in Started : pc = "off"}) : AllGood(f.records)

\* "the held-out gate and the training corpus never mix" (docstring of
\* train/capture.py): what a run of the gate writes, and all of its children,
\* yields no row.
HeldOut == \A f \in Archive : f.gate => f \notin Converted(Archive)
=============================================================================
