----------------------------- MODULE Delegation -----------------------------
(***************************************************************************)
(* Agents that put other agents to work: spawn_agent (src/src/tools.py),   *)
(* the orchestrators review_repo, run_workflow and run_skill that fan a    *)
(* list of tasks out over children (src/src/fanout.py), the children's     *)
(* lives (src/src/subagent.py), and Ctrl-C in the middle of it.            *)
(*                                                                         *)
(* An agent is named by its path: the lead is <<>>, its children <<1>>,    *)
(* <<2>>, ..., and a path is as long as the agent is deep.  Prompts,       *)
(* summaries and digests are reduced to what they are about.               *)
(***************************************************************************)
EXTENDS Naturals, Sequences, FiniteSets, FiniteSetsExt, SequencesExt, Functions

CONSTANTS
  Dirs,            \* the visible folders of the review root, by name
  RootFiles,       \* its loose files, by name
  Top,             \* the first component of every scope a plan may name
  Plans,           \* the `areas` a model may pass, <<>> for none
  Workflows,       \* the phases a model may pass: [label, jobs]
  Concerns,        \* the subskills of an orchestrating skill
  MaxReviewAreas, MaxSubagentFanout, MaxWorkflowPhases, MaxSubagentDepth,
  MaxListed,       \* the root files an unplanned review lists (40 in the code)
  Configs,         \* the settings considered: the width of a fan-out
                   \* (CODE_WORKFLOW_CONCURRENCY), the lead's permission mode, and
                   \* whether workflows go to the background (CODE_WORKFLOWS_ASYNC)
  NoPropose,       \* CODE_SUBAGENT_NO_PROPOSE
  MaxSteps,        \* the lead's CODE_MAX_STEPS, in calls that change state here
  SubagentMaxSteps,\* CODE_SUBAGENT_MAX_STEPS, likewise
  MaxTurns,        \* bound: turns of the session
  MaxInterrupts    \* bound: Ctrl-C's of the session

Lead   == <<>>
Bucket == "the root-level files"
Vague  == "everything"          \* _degenerate_scope holds of it

ASSUME DelegationAssumption ==
  /\ \A c \in Configs : /\ c.width \in Nat \ {0} /\ c.async \in BOOLEAN
                        /\ c.mode \in {"work", "plan", "propose"}
  /\ NoPropose \in BOOLEAN
  /\ {MaxReviewAreas, MaxSubagentFanout, MaxSubagentDepth, MaxListed, MaxSteps,
      SubagentMaxSteps} \subseteq Nat
  /\ MaxWorkflowPhases \in Nat \ {0}
  /\ \A list \in {Dirs, RootFiles, Concerns} \cup Plans \cup Workflows : list \in Seq(Range(list))
  /\ \A dir \in Range(Dirs) : dir # Bucket /\ Top[dir] = dir
  /\ \A spec \in Workflows : \A phase \in Range(spec) :
       phase = [label |-> phase.label, jobs |-> phase.jobs] /\ phase.jobs \in Seq(Range(phase.jobs))

VARIABLES
  config,      \* the settings of the process
  agents,      \* the agents at work: what each may do, is about and has left
  using,       \* the calls under way that write: whose, and of what kind
  call,        \* the orchestration the lead is in
  digests,     \* what this turn's orchestrations gave back, in order
  guard,       \* those that are not run again this turn
  turns, interrupts

vars == <<config, agents, using, call, digests, guard, turns, interrupts>>

NoCall  == [kind |-> "none", tasks |-> <<>>, results |-> <<>>]
Pending == [of |-> "", what |-> "pending"]
Parent(a) == Front(a)
Under(a)  == {b \in DOMAIN agents : Len(b) > Len(a) /\ SubSeq(b, 1, Len(a)) = a}

-----------------------------------------------------------------------------
(* The partition of a review.                                              *)

\* A list up to a cap, and what is over it.
Kept(s, cap) == SubSeq(s, 1, Min({cap, Len(s)}))
\* Mutant of Over: the first that is cut off is forgotten.
OverShort(s, cap) == SubSeq(s, cap + 2, Len(s))

Over(s, cap) == SubSeq(s, cap + 1, Len(s))

\* The units that are in S, in their order.
Only(units, S) ==
  LET first[n \in 0..Len(units)] ==
        IF n = 0 THEN <<>>
        ELSE IF units[n] \in S THEN Append(first[n - 1], units[n]) ELSE first[n - 1]
  IN  first[Len(units)]

Without(units, S) == Only(units, Range(units) \ S)

\* The plan is made safe: many root files become one bucket, every folder
\* that no area begins with is appended, and the bucket comes last.
BalancePlan(units) ==
  LET files   == Only(units, Range(RootFiles))
      parts   == Without(units, Range(RootFiles))
      rest    == IF Len(files) > 1 THEN Append(parts, Bucket) ELSE parts \o files
      covered == {Top[u] : u \in Range(rest) \ {Bucket}}
      all     == rest \o Without(Dirs, covered)
  IN  Without(all, {Bucket}) \o Only(all, {Bucket})

\* A review without a plan has the root files, the first of them by name, and
\* the folders; those of a plan are listed as it has them.
AutoSplit == (IF RootFiles = <<>> THEN <<>> ELSE <<Bucket>>) \o Dirs

ReviewUnits(plan) ==
  LET units == Without(plan, {Vague})
  IN  IF units = <<>> THEN AutoSplit ELSE BalancePlan(units)

\* The files that the task of the bucket lists.
Listed(plan) ==
  LET units == Without(plan, {Vague})
  IN  IF units = <<>> THEN Kept(RootFiles, MaxListed) ELSE Only(units, Range(RootFiles))

-----------------------------------------------------------------------------
(* The plan of a workflow: phases without a usable job are dropped, those  *)
(* over the cap are named.                                                 *)

PlanPhases(spec) ==
  LET usable == [n \in DOMAIN spec |->
                   [spec[n] EXCEPT !.jobs = Without(@, {Vague})]]
  IN  Only(usable, {phase \in Range(usable) : phase.jobs # <<>>})

-----------------------------------------------------------------------------
(* Children.                                                               *)

\* The permissions a child runs under.
ChildPermissions(perms, read_only) ==
  IF read_only \/ (NoPropose /\ perms = "propose") THEN "plan" ELSE perms

\* Mutant of Child: a child inherits from the session, not from its parent.
ChildOfTheSession(a, read_only, task, run) ==
  [perms |-> ChildPermissions(agents[Lead].perms, read_only), task |-> task,
   run |-> run, spawns |-> 0,
   left |-> SubagentMaxSteps, abandoned |-> agents[a].abandoned]

Child(a, read_only, task, run) ==
  [perms |-> ChildPermissions(agents[a].perms, read_only), task |-> task,
   run |-> run, spawns |-> 0,
   left |-> SubagentMaxSteps, abandoned |-> agents[a].abandoned]

\* The names of n new children of an agent.
NewNames(a, n) ==
  LET taken == {b[Len(b)] : b \in {c \in Under(a) : Len(c) = Len(a) + 1}}
  IN  [i \in 1..n |-> Append(a, Max({0} \cup taken) + i)]

\* The place of a child in the list that fanout gives back.
SlotOf(names, b) == CHOOSE i \in DOMAIN names : names[i] = b

Parallel(tasks) == config.width > 1 /\ Len(tasks) > 1

\* fanout: every task gets a slot and a child that waits for a thread, one
\* after the other when it is serial; parallel children only read.
FanOut(kind, asked, tasks, over, todo, dropped, sections) ==
  LET names == NewNames(Lead, Len(tasks))
  IN  /\ call' = [kind |-> kind, asked |-> asked, tasks |-> tasks, over |-> over,
                  names |-> names, results |-> [i \in DOMAIN tasks |-> Pending],
                  todo |-> todo, dropped |-> dropped,
                  sections |-> sections, closing |-> FALSE]
      /\ agents' = [b \in DOMAIN agents \cup Range(names) |->
                      IF b \in DOMAIN agents THEN agents[b]
                      ELSE Child(Lead, Parallel(tasks), tasks[SlotOf(names, b)],
                                 "queued")]

\* An agent acts when it runs and waits for no child and no tool.
Acting(a) ==
  /\ a \in DOMAIN agents /\ agents[a].run = "running"
  /\ \A u \in using : u[1] # a
  /\ \A b \in Under(a) : agents[b].abandoned /\ ~agents[a].abandoned
  /\ a = Lead => call = NoCall

\* Mutant of Threads: a task holds its thread from the moment it is handed in.
ThreadsHeld(b) ==
  {c \in DOMAIN agents : Len(c) = 1 /\ agents[c].abandoned = agents[b].abandoned}

\* The threads of the pool a child waits for.
Threads(b) ==
  {c \in DOMAIN agents : /\ Len(c) = 1 /\ agents[c].run = "running"
                         /\ agents[c].abandoned = agents[b].abandoned}

Start(b) ==
  /\ agents[b].run = "queued"
  /\ \A c \in DOMAIN agents : agents[c].run = "queued" => c[1] >= b[1]
  /\ Cardinality(Threads(b)) < config.width
  /\ agents' = [agents EXCEPT ![b].run = "running"]
  /\ UNCHANGED <<config, using, call, digests, guard, turns, interrupts>>

\* What a child comes to: its answer, or an error of its making or of its run,
\* which is a text as well.
Results(task) == [of : {task}, what : {"text"}]

\* Mutant of Deliver: the results in the order in which they come.
DeliverAsCompleted(results, i, r) ==
  [results EXCEPT ![Min({j \in DOMAIN results : results[j] = Pending})] = r]

Deliver(results, i, r) == [results EXCEPT ![i] = r]

\* run_subagent returns: what the child came to is put into its slot.
Return(b) ==
  /\ b # Lead /\ Acting(b)
  /\ agents' = Restrict(agents, DOMAIN agents \ {b})
  /\ \E r \in Results(agents[b].task) :
       IF call # NoCall /\ b \in Range(call.names)
         THEN call' = [call EXCEPT !.results = Deliver(@, SlotOf(call.names, b), r)]
         ELSE UNCHANGED call
  /\ UNCHANGED <<config, using, digests, guard, turns, interrupts>>

\* spawn_agent, by the lead or by a child, up to the depth and the breadth.
Spawn(a) ==
  /\ Acting(a) /\ agents[a].left > 0
  /\ Len(a) < MaxSubagentDepth /\ agents[a].spawns < MaxSubagentFanout
  /\ LET b == NewNames(a, 1)[1]
     IN  agents' = [c \in DOMAIN agents \cup {b} |->
                      IF c = b THEN Child(a, FALSE, "subtask", "running")
                      ELSE IF c = a THEN [agents[a] EXCEPT !.spawns = @ + 1, !.left = @ - 1]
                      ELSE agents[c]]
  /\ UNCHANGED <<config, using, call, digests, guard, turns, interrupts>>

\* What an agent may write: the tools that the gate knows as MUTATING edit the
\* workspace, which plan mode denies, and propose mode to all but the lead,
\* whose list the user signs.  The gate takes every other tool for a reader:
\* remember, project_todos and the tools of MCP servers write in any mode.
Writes(a) ==
  IF agents[a].perms = "work" \/ (a = Lead /\ agents[a].perms = "propose")
    THEN {"edit", "note"} ELSE {"note"}

\* A call of such a tool, from its beginning to its end.
Begin(a) ==
  /\ Acting(a) /\ agents[a].left > 0
  /\ agents' = [agents EXCEPT ![a].left = @ - 1]
  /\ \E kind \in Writes(a) : using' = using \cup {<<a, kind>>}
  /\ UNCHANGED <<config, call, digests, guard, turns, interrupts>>

End(a) ==
  /\ \E u \in using : u[1] = a
  /\ using' = {u \in using : u[1] # a}
  /\ UNCHANGED <<config, agents, call, digests, guard, turns, interrupts>>

-----------------------------------------------------------------------------
(* The orchestrators, which only the lead may call.                        *)

Orchestrates(kind) == Acting(Lead) /\ agents[Lead].left > 0 /\ kind \notin guard

Review(plan) ==
  LET units == ReviewUnits(plan)
  IN  /\ Orchestrates("review") /\ units # <<>>
      /\ FanOut("review", plan, Kept(units, MaxReviewAreas),
                Over(units, MaxReviewAreas), <<>>, <<>>, <<>>)
      /\ UNCHANGED <<config, using, digests, guard, turns, interrupts>>

FanOutPhase(spec, todo, dropped, sections) ==
  LET jobs == Head(todo).jobs
  IN  FanOut("workflow", spec, Kept(jobs, MaxSubagentFanout),
             Over(jobs, MaxSubagentFanout), Tail(todo), dropped, sections)

Workflow(spec) ==
  LET phases == PlanPhases(spec)
  IN  /\ Orchestrates("workflow") /\ phases # <<>> /\ ~config.async
      /\ FanOutPhase(spec, Kept(phases, MaxWorkflowPhases),
                     Over(phases, MaxWorkflowPhases), <<>>)
      /\ UNCHANGED <<config, using, digests, guard, turns, interrupts>>

\* Under CODE_WORKFLOWS_ASYNC the workflow becomes a background task, which is
\* handed the phases up to the cap; the registry may refuse it, and then it may
\* be asked for again.
Submit(spec) ==
  LET phases == PlanPhases(spec)
  IN  /\ Orchestrates("workflow") /\ phases # <<>> /\ config.async
      /\ guard' = guard \cup {"workflow"}
      /\ digests' = Append(digests, [kind |-> "submitted", asked |-> spec,
                                     sections |-> <<>>, dropped |-> <<>>,
                                     handed |-> Kept(phases, MaxWorkflowPhases)])
      /\ UNCHANGED <<config, agents, using, call, turns, interrupts>>

\* run_skill cuts the concerns at the cap and is not guarded.
Skill ==
  /\ Orchestrates("skill") /\ Concerns # <<>>
  /\ FanOut("skill", <<>>, Kept(Concerns, MaxReviewAreas), <<>>, <<>>, <<>>, <<>>)
  /\ UNCHANGED <<config, using, digests, guard, turns, interrupts>>

\* The digest of a phase: the labels under which its results are told, each
\* with the result in its slot, and those it names as not run.
Section == [told |-> Range(call.tasks), over |-> Range(call.over)]

Complete == \A i \in DOMAIN call.results : call.results[i] # Pending

Reduce ==
  /\ call # NoCall /\ Complete /\ ~call.closing
  /\ LET sections == Append(call.sections, Section)
     IN  IF call.todo # <<>>
           THEN /\ FanOutPhase(call.asked, call.todo, call.dropped, sections)
                /\ UNCHANGED <<digests, guard>>
           ELSE /\ digests' = Append(digests, [kind |-> call.kind, asked |-> call.asked,
                                               sections |-> sections, dropped |-> call.dropped,
                                               handed |-> <<>>])
                /\ guard' = guard \cup ({call.kind} \ {"skill"})
                /\ call' = NoCall
                /\ agents' = [agents EXCEPT ![Lead].left = @ - 1]
  /\ UNCHANGED <<config, using, turns, interrupts>>

-----------------------------------------------------------------------------
(* Turns and their interruption.                                           *)

Idle == agents[Lead].run = "idle"

StartTurn ==
  /\ Idle /\ turns < MaxTurns /\ turns' = turns + 1
  /\ agents' = [agents EXCEPT ![Lead].run = "running", ![Lead].spawns = 0,
                              ![Lead].left = MaxSteps]
  /\ digests' = <<>> /\ guard' = {}
  /\ UNCHANGED <<config, using, call, interrupts>>

EndTurn ==
  /\ Acting(Lead)
  /\ agents' = [agents EXCEPT ![Lead].run = "idle"]
  /\ UNCHANGED <<config, using, call, digests, guard, turns, interrupts>>

\* Ctrl-C unwinds the main thread, in which the lead and, unless they have
\* threads of their own, its children run.  Leaving a pool waits for all its
\* tasks, those that have not begun included ...
Pooled == call # NoCall /\ Parallel(call.tasks)

Unwind(S) ==
  /\ agents' = [a \in DOMAIN agents \ S |->
                  IF a = Lead THEN [agents[a] EXCEPT !.run = "idle"]
                  ELSE [agents[a] EXCEPT !.abandoned = TRUE]]
  /\ using' = {u \in using : u[1] \notin S \cup {Lead}}
  /\ call' = NoCall

Interrupt ==
  /\ ~Idle /\ interrupts < MaxInterrupts /\ interrupts' = interrupts + 1
  /\ IF Pooled /\ ~call.closing
       THEN call' = [call EXCEPT !.closing = TRUE] /\ UNCHANGED <<agents, using>>
       ELSE Unwind(IF Pooled THEN {} ELSE {b \in Under(Lead) : ~agents[b].abandoned})
  /\ UNCHANGED <<config, digests, guard, turns>>

\* ... and a pool that was left so gives its results to nobody.
Closed ==
  /\ call # NoCall /\ call.closing /\ Complete
  /\ Unwind({})
  /\ UNCHANGED <<config, digests, guard, turns, interrupts>>

-----------------------------------------------------------------------------
Init ==
  /\ config \in Configs
  /\ agents = [a \in {Lead} |->
                 [perms |-> config.mode, task |-> "request", run |-> "idle",
                  spawns |-> 0, left |-> 0, abandoned |-> FALSE]]
  /\ using = {} /\ call = NoCall /\ digests = <<>> /\ guard = {}
  /\ turns = 0 /\ interrupts = 0

\* What the agents do of their own accord, and what ends.
Work(a) == Start(a) \/ Return(a) \/ End(a)

Next ==
  \/ \E a \in DOMAIN agents : Work(a) \/ Spawn(a) \/ Begin(a)
  \/ \E plan \in Plans : Review(plan)
  \/ \E spec \in Workflows : Workflow(spec) \/ Submit(spec)
  \/ Skill \/ Reduce \/ StartTurn \/ EndTurn \/ Interrupt \/ Closed

Spec == Init /\ [][Next]_vars

\* Every agent has a bounded number of steps and every call of a model an
\* end (Gateway), so one that can go on does.
FairSpec ==
  /\ Spec /\ WF_vars(Reduce) /\ WF_vars(Closed)
  /\ WF_vars(\E a \in DOMAIN agents : Work(a))
-----------------------------------------------------------------------------
(* Properties.                                                             *)

\* No two calls that edit the workspace are ever under way at once: an agent
\* waits for its tools and its children, and children that run side by side,
\* what they spawn, and what an interrupt left running are denied the tools
\* that edit ("concurrent children can't race the filesystem", subagent.py and
\* permissions.py).  That holds of the tools the gate knows as MUTATING: two
\* notes, or a note and an edit, may well be written side by side.
OneWriter ==
  \A u, v \in using : u[2] = "edit" /\ v[2] = "edit" => u = v

\* What a digest gives a summary of or names as left out.
Spoken(d) == UNION {section.told \cup section.over : section \in Range(d.sections)}

\* A root file that was in the task of the bucket, which the digest speaks of.
Filed(d, f) == Bucket \in Spoken(d) /\ f \in Range(Listed(d.asked))

\* A digest leaves nothing out without a word: a review speaks of every folder
\* and of every area of the plan, or of the root files in whose list it is; a
\* workflow of every job of every phase or of the phase.  Two cuts are silent:
\* the root files that an unplanned review does not list, and the phases that a
\* workflow in the background is not handed (review_repo, run_workflow; also
\* run_skill cuts its concerns silently).
NothingSkipped ==
  \A d \in Range(digests) :
    /\ d.kind = "review" =>
         /\ \A dir \in Range(Dirs) : \E u \in Spoken(d) \ {Bucket} : Top[u] = dir
         /\ \A u \in Range(d.asked) \ {Vague} : u \in Spoken(d) \/ Filed(d, u)
         /\ Range(d.asked) \subseteq {Vague} =>
              \A f \in Range(RootFiles) : Filed(d, f) \/ f \in Range(Over(RootFiles, MaxListed))
    /\ d.kind = "workflow" =>
         \A phase \in Range(PlanPhases(d.asked)) :
           phase \in Range(d.dropped) \/ Range(phase.jobs) \subseteq Spoken(d)
    /\ d.kind = "submitted" =>
         \A phase \in Range(PlanPhases(d.asked)) :
           \/ phase \in Range(d.handed)
           \/ phase \in Range(Over(PlanPhases(d.asked), MaxWorkflowPhases))

\* The results are the tasks', each in the place of its own, however the
\* children are scheduled (fanout's "POSITIONALLY ALIGNED").
Map == INSTANCE OrderedMap WITH tasks <- call.tasks, results <- call.results
ImplementsOrderedMap == Map!Spec

\* Every fan-out comes to an end.
FanOutReturns == call # NoCall ~> call = NoCall
=============================================================================
