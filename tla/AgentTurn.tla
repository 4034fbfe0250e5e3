----------------------------- MODULE AgentTurn -----------------------------
(***************************************************************************)
(* The turns of one agent (src/src/agent.py, Agent.run): a bounded loop of *)
(* model decisions.  A decision either acts (tool calls, each permission-  *)
(* gated, followed by the narration and stall guards) or answers, and an   *)
(* answer is accepted only by a chain of gates: completion, touched-file   *)
(* check, goal bar, acceptance, grounding.  A gate that fails re-prompts a *)
(* bounded number of times and then ends the turn under its own label.     *)
(*                                                                         *)
(* A task's files are either sound or not: a touched file's check passes   *)
(* when it is sound.  The bar of a goal is any command: it may change what *)
(* it likes and exit as it likes, and so may anybody else who works on the *)
(* tree (Outside).  The text of an answer is reduced to what grounding     *)
(* tells apart.  The effort policy, hooks, pins and the messages           *)
(* themselves are left out.                                                *)
(***************************************************************************)
EXTENDS Naturals, FiniteSets

CONSTANTS
  File,          \* the files a task is about
  Named,         \* those whose name alone says they are files (an extension)
  Verifiable,    \* those whose extension has a verifier
  Runnable,      \* those whose verifier is installed
  Item,          \* acceptance items of a spec
  Flags,         \* the opt-in features that are on
  MaxSteps,      \* CODE_MAX_STEPS
  MaxCalls,      \* bound: tool calls in one decision
  Retries,       \* re-prompts allowed to each gate and guard
  MaxIterations, \* CODE_GOAL_MAX_ITERATIONS
  Headroom,      \* CODE_GOAL_STEP_HEADROOM
  MaxDenials,    \* CODE_GUARDIAN_MAX_DENIALS, 0 is off
  NarrationMax,  \* CODE_NARRATION_STALL_MAX
  StallMax       \* CODE_STALL_MAX, 0 is off

AllFlags == {"completion", "manifest", "touched", "label", "goal", "acceptance",
             "grounding", "anti_collapse", "print_is_reply", "full_answer",
             "narration_guard", "deliver_digest"}

Bounded == {"completion", "touched", "acceptance", "grounding", "fragment",
            "narration", "stall"}

\* grounding.problems reads a false answer as contradicted by its sources, and
\* a success claim as unbacked until a check has passed.
Answers == {"plain", "success", "false"}

\* What a turn may deliver: an answer of the model, or what the children of a
\* review reported, under a heading (_review_digest_body).
Delivered == Answers \cup {"digest"}

\* One print statement, or several in one command.  "read" stands for every
\* call that leaves alone what the gates read.
Prints  == {"print", "prints"}
Tools   == Prints \cup {"read", "review", "write", "delete", "shell", "check",
                        "plan", "pursue", "propose", "spec", "mark"}
Labels  == {"final", "nudge_exhausted", "max_steps", "degenerate", "no_output",
            "unverified_completion", "verify_failed_edits", "goal_unmet",
            "acceptance_unmet", "ungrounded_completion", "denial_loop",
            "narration_stall", "stall"}

ASSUME TurnAssumption ==
  /\ Named \subseteq File
  /\ Verifiable \subseteq File
  /\ Runnable \subseteq File
  /\ Flags \subseteq AllFlags
  /\ MaxSteps \in Nat \ {0}
  /\ MaxCalls \in Nat \ {0}
  /\ Retries \in [Bounded -> Nat]
  /\ MaxIterations \in Nat \ {0}
  /\ {Headroom, MaxDenials, NarrationMax, StallMax} \subseteq Nat

\* "No goal", "no manifest", "no spec" is the empty set; a present one is the
\* set that holds it.
Goal     == [used : 0..MaxIterations, max : 1..MaxIterations]
Manifest == [items : SUBSET File, approved : BOOLEAN]
Contract == [unmet : SUBSET Item, approved : BOOLEAN]
Optional(S) == {{}} \cup {{s} : s \in S}

Places == {"idle", "ask", "call", "narration", "stall",
           "completion", "touched", "goal", "acceptance", "grounding"}

\* What a turn leaves in the trajectory that the training filter reads.
Record == [type : {"permission", "verification", "manifest", "spec"}, ok : BOOLEAN]

VARIABLES
  pc, step,        \* where the turn is, and the index of its step
  exists, sound,   \* the files on disk, and those of them a check would pass
  stirred,         \* history: the files that the bar or somebody outside of the
                   \* turn changed since the answer in hand was given
  plan,            \* ctx.plan_items: the files of the steps marked completed
  ledger,          \* ctx.mutations
  manifest, goal, spec,        \* ctx.manifest, ctx.goal, ctx.spec
  verified,        \* ctx._verified_ok
  answer,          \* the closing text the gates are judging
  original,        \* ground_original: the first answer grounding challenged
  reviewed,        \* ctx._reviewed_digest is there
  used,            \* the retries spent on each gate and guard
  calls,           \* the calls of this decision run so far
  quiet, noop,     \* were they all one print?  all nothing but prints?
  progress,        \* step_made_progress
  seen,            \* ctx._seen_calls, by tool
  denials, narrations, stalls, \* ctx._denial_streak, _narration_streak, _stall_streak
  acted,           \* tool_calls > 0
  records,         \* what this turn has logged
  terminated,      \* RunResult.terminated of the last turn
  done,            \* history: the tools that succeeded in this turn, and how it ended
  promised,        \* history: items of the spec last approved in this turn, unmarked
  checked          \* history: did a check really run and pass in this turn?

world  == <<exists, sound, stirred>>
task   == <<plan, ledger, manifest, goal, spec, verified>>
text   == <<answer, original, reviewed>>
act    == <<calls, quiet, noop, progress>>
guards == <<seen, denials, narrations, stalls>>
ghosts == <<done, promised, checked>>
vars   == <<pc, step, world, task, text, used, act, guards, acted, records,
            terminated, ghosts>>

On(flag) == flag \in Flags
-----------------------------------------------------------------------------
(* What the gates read.                                                    *)

\* _unverified_items: plan steps marked done that the disk does not back up.
\* A step whose file the ledger does not know is skipped unless it names a
\* real file target (_is_checkable_target).
Unbacked ==
  {f \in plan : \/ ledger[f] = "none" /\ f \in exists \cup Named
                \/ ledger[f] = "delete" /\ f \in exists
                \/ ledger[f] = "write" /\ f \notin exists}

\* _unapplied_manifest: items of an approved manifest no edit has touched.
Unapplied ==
  {f \in File : /\ \E m \in manifest : m.approved /\ f \in m.items
                /\ ledger[f] = "none"}

\* verify_edits.select and its runner: a verifier that cannot start passes.
Touched == {f \in Verifiable : ledger[f] = "write"}
Failing == {f \in Touched \cap Runnable : f \notin sound}

\* _unmet_acceptance of a spec.
Unmet == UNION {s.unmet : s \in spec}

\* grounding.problems.
Ungrounded(a) == a = "false" \/ (a = "success" /\ ~verified)

\* What the completion gate challenges.
Undone ==
  (IF On("completion") THEN Unbacked ELSE {})
    \cup (IF On("manifest") THEN Unapplied ELSE {})
-----------------------------------------------------------------------------
(* Leaving a step, and leaving the turn.                                   *)

\* Mutant of NextStep: a `continue` that the step budget does not see.
NextStepFree ==
  /\ pc' = "ask"
  /\ UNCHANGED step

NextStep ==
  /\ pc' = "ask"
  /\ step' = step + 1

\* Mutant of Resolved: a declined manifest is logged as if it had been approved.
ResolvedBlindly ==
  {[type |-> "manifest", ok |-> On("manifest") => Unapplied = {}] : m \in manifest}
    \cup {[type |-> "spec", ok |-> s.approved /\ Unmet = {}] : s \in spec}

\* _finish: the manifest and the spec of the turn are logged once, here.
Resolved ==
  {[type |-> "manifest",
    ok |-> m.approved /\ (On("manifest") => Unapplied = {})] : m \in manifest}
    \cup {[type |-> "spec", ok |-> s.approved /\ Unmet = {}] : s \in spec}

End(label, logged) ==
  /\ pc' = "idle"
  /\ terminated' = label
  /\ records' = logged \cup Resolved
  /\ UNCHANGED step

\* A failed gate or guard: re-prompt while it has retries, else end the turn.
Reprompt(gate, label) ==
  \/ /\ used[gate] < Retries[gate]
     /\ used' = [used EXCEPT ![gate] = @ + 1]
     /\ NextStep
     /\ UNCHANGED <<records, terminated>>
  \/ /\ used[gate] >= Retries[gate]
     /\ End(label, records)
     /\ UNCHANGED used

Pass(gate) ==
  /\ pc' = gate
  /\ UNCHANGED <<step, used, records, terminated>>

\* Mutant of ResetTask: the evidence of the last turn still counts.
ResetTaskButEvidence ==
  /\ plan' = {} /\ ledger' = [f \in File |-> "none"]
  /\ manifest' = {} /\ goal' = {} /\ spec' = {}
  /\ UNCHANGED verified

\* The plan, the ledger, the consents and the bar are per task.
ResetTask ==
  /\ plan' = {} /\ ledger' = [f \in File |-> "none"]
  /\ manifest' = {} /\ goal' = {} /\ spec' = {}
  /\ verified' = FALSE

\* The start of Agent.run.  Between turns the user may change files.
StartTurn ==
  /\ pc = "idle"
  /\ pc' = "ask"
  /\ step' = 0
  /\ exists' \in SUBSET File
  /\ sound' \in SUBSET exists'
  /\ stirred' = {}
  /\ ResetTask
  /\ answer' = "plain" /\ original' = "none" /\ reviewed' = FALSE
  /\ used' = [gate \in Bounded |-> 0]
  /\ seen' = {}
  /\ denials' = 0 /\ narrations' = 0 /\ stalls' = 0
  /\ acted' = FALSE
  /\ records' = {}
  /\ terminated' = "none"
  /\ done' = {} /\ promised' = {} /\ checked' = FALSE
  /\ UNCHANGED act

\* An exception or Ctrl-C leaves run() without _finish.
Raise ==
  /\ pc # "idle"
  /\ pc' = "idle"
  /\ terminated' = "error"
  /\ UNCHANGED <<step, world, task, text, used, act, guards, acted, records,
                 ghosts>>

\* The files that a step has changed, or made another file of.
Stirs ==
  stirred' = stirred \cup {f \in File : \/ (f \in exists) # (f \in exists')
                                         \/ (f \in sound) # (f \in sound')}

\* One file is written, removed, broken or mended.
Changes(f) ==
  \/ exists' = exists \cup {f} /\ sound' \in {sound \cup {f}, sound \ {f}}
  \/ exists' = exists \ {f} /\ sound' = sound \ {f}

\* The user's editor, a background task, a watcher: the tree is nobody's.
Outside(f) ==
  /\ pc # "idle"
  /\ Changes(f)
  /\ Stirs
  /\ UNCHANGED <<pc, step, task, text, used, act, guards, acted, records,
                 terminated, ghosts>>
-----------------------------------------------------------------------------
(* One model decision.                                                     *)

Asking == pc = "ask" /\ step < MaxSteps

\* A decision whose only calls are prints is the reply itself; a header alone
\* is asked to be completed.
Printed ==
  /\ Asking
  /\ On("print_is_reply")
  /\ \/ /\ On("full_answer")
        /\ used["fragment"] < Retries["fragment"]
        /\ used' = [used EXCEPT !["fragment"] = @ + 1]
        /\ NextStep
        /\ UNCHANGED <<records, terminated, done>>
     \/ /\ End("final", records)
        /\ done' = done \cup {"printed"}
        /\ UNCHANGED used
  /\ UNCHANGED <<world, task, text, act, guards, acted, promised, checked>>

\* A repetition loop, no usable action, or an empty reply.
Broken ==
  /\ Asking
  /\ \E label \in {"degenerate", "nudge_exhausted"}
                    \cup (IF On("manifest") THEN {"no_output"} ELSE {}) :
       End(label, records)
  /\ UNCHANGED <<world, task, text, used, act, guards, acted, ghosts>>

Nudged ==
  /\ Asking
  /\ NextStep
  /\ UNCHANGED <<world, task, text, used, act, guards, acted, records,
                 terminated, ghosts>>

Answer ==
  /\ Asking
  /\ answer' \in Answers
  /\ stirred' = {}
  /\ Pass("completion")
  /\ UNCHANGED <<exists, sound, task, original, reviewed, act, guards, acted, ghosts>>

Act ==
  /\ Asking
  /\ pc' = "call"
  /\ calls' = 0
  /\ quiet' = TRUE /\ noop' = TRUE /\ progress' = FALSE
  /\ UNCHANGED <<step, world, task, text, used, guards, acted, records,
                 terminated, ghosts>>

\* The step budget is spent: one last tool-less call, whatever it yields.
Synthesize ==
  /\ pc = "ask"
  /\ step = MaxSteps
  /\ End("max_steps", records)
  /\ UNCHANGED <<world, task, text, used, act, guards, acted, ghosts>>
-----------------------------------------------------------------------------
(* The calls of a decision.                                                *)

Calling == pc = "call" /\ calls < MaxCalls

\* A call of an earlier turn is never a repeat; one of this turn may be.
Ran(tool, allowed, ok) ==
  /\ calls' = calls + 1
  /\ acted' = TRUE
  /\ quiet' = (quiet /\ tool = "print")
  /\ noop' = (noop /\ tool \in Prints)
  /\ On("print_is_reply") /\ calls' = MaxCalls => ~noop'   \* see Printed
  /\ IF StallMax = 0
     THEN UNCHANGED <<progress, seen>>
     ELSE /\ seen' = seen \cup {tool}
          /\ \E novel \in IF tool \in seen THEN BOOLEAN ELSE {TRUE} :
               progress' = (progress \/ (allowed /\ ok /\ novel /\ tool \notin Prints))
  /\ reviewed' = (reviewed \/ (tool = "review" /\ allowed /\ ok))
  /\ UNCHANGED <<pc, step, answer, original, used, narrations, stalls, terminated>>

\* A call the permission engine allowed.
Run(tool, ok) ==
  /\ Calling
  /\ Ran(tool, TRUE, ok)
  /\ denials' = 0
  /\ done' = IF ok THEN done \cup {tool} ELSE done
  /\ UNCHANGED records

\* A denied call; past MaxDenials in a row the turn ends before it is counted.
Denied(tool) ==
  /\ Calling
  /\ LET streak == IF MaxDenials > 0 THEN denials + 1 ELSE 0
         logged == records \cup {[type |-> "permission", ok |-> FALSE]}
     IN  /\ denials' = streak
         /\ IF MaxDenials > 0 /\ streak >= MaxDenials
            THEN /\ End("denial_loop", logged)
                 /\ UNCHANGED <<act, seen, acted, text, used, narrations, stalls>>
            ELSE /\ Ran(tool, FALSE, FALSE)
                 /\ records' = logged
  /\ done' = done \cup {"denied"}
  /\ UNCHANGED <<world, task, promised, checked>>

\* A call that changes nothing the gates read, or that failed before it did.
NoEffect(tool) ==
  /\ \E ok \in BOOLEAN : Run(tool, ok)
  /\ UNCHANGED <<world, task, promised, checked>>

\* write_file, edit_file and apply_patch record the path in the ledger.
Write(f) ==
  /\ Run("write", TRUE)
  /\ exists' = exists \cup {f}
  /\ sound' \in {sound \cup {f}, sound \ {f}}
  /\ ledger' = [ledger EXCEPT ![f] = "write"]
  /\ UNCHANGED <<stirred, plan, manifest, goal, spec, verified, promised, checked>>

Delete(f) ==
  /\ f \in exists
  /\ Run("delete", TRUE)
  /\ exists' = exists \ {f} /\ sound' = sound \ {f}
  /\ ledger' = [ledger EXCEPT ![f] = "delete"]
  /\ UNCHANGED <<stirred, plan, manifest, goal, spec, verified, promised, checked>>

\* run_command changes files behind the ledger's back.
Shell(f) ==
  /\ Run("shell", TRUE)
  /\ Changes(f)
  /\ UNCHANGED <<stirred, task, promised, checked>>

\* A run_command that is a check, and that succeeds.
Check ==
  /\ Run("check", TRUE)
  /\ verified' = TRUE
  /\ checked' = TRUE
  /\ UNCHANGED <<world, plan, ledger, manifest, goal, spec, promised>>

UpdatePlan(files) ==
  /\ Run("plan", TRUE)
  /\ plan' = files
  /\ UNCHANGED <<world, ledger, manifest, goal, spec, verified, promised, checked>>

\* The operator's ceiling always wins; a second goal replaces the first.
Pursue(n) ==
  /\ On("goal")
  /\ Run("pursue", TRUE)
  /\ goal' = {[used |-> 0, max |-> n]}
  /\ UNCHANGED <<world, plan, ledger, manifest, spec, verified, promised, checked>>

\* A manifest replaces the one before it, approved or not.
Propose(files, approved) ==
  /\ Run("propose", approved)
  /\ manifest' = {[items |-> files, approved |-> approved]}
  /\ UNCHANGED <<world, plan, ledger, goal, spec, verified, promised, checked>>

\* So does a spec.
WriteSpec(items, approved) ==
  /\ On("acceptance")
  /\ Run("spec", approved)
  /\ spec' = {[unmet |-> items, approved |-> approved]}
  /\ promised' = IF approved THEN items ELSE promised
  /\ UNCHANGED <<world, plan, ledger, manifest, goal, verified, checked>>

MarkDone(item) ==
  /\ \E s \in spec : s.approved
  /\ Run("mark", TRUE)
  /\ spec' = {[s EXCEPT !.unmet = @ \ {item}] : s \in spec}
  /\ promised' = promised \ {item}
  /\ UNCHANGED <<world, plan, ledger, manifest, goal, verified, checked>>

Call ==
  \/ \E tool \in Prints \cup {"read", "review"} : NoEffect(tool) \/ Denied(tool)
  \/ \E f \in File : Write(f) \/ Delete(f) \/ Shell(f)
  \/ Check
  \/ \E files \in SUBSET File : UpdatePlan(files)
  \/ \E n \in 1..MaxIterations : Pursue(n)
  \/ \E files \in (SUBSET File) \ {{}}, approved \in BOOLEAN : Propose(files, approved)
  \/ \E items \in (SUBSET Item) \ {{}}, approved \in BOOLEAN : WriteSpec(items, approved)
  \/ \E item \in Item : MarkDone(item)

\* A decision of nothing but prints is a reply when prints are (Printed).
CallsDone ==
  /\ pc = "call"
  /\ calls > 0
  /\ ~(On("print_is_reply") /\ noop)
  /\ pc' = "narration"
  /\ UNCHANGED <<step, world, task, text, used, act, guards, acted, records,
                 terminated, done, promised, checked>>

\* The narration guard; its nudge skips the stall guard.
NarrationGuard ==
  /\ pc = "narration"
  /\ LET streak == IF On("narration_guard") /\ quiet THEN narrations + 1 ELSE 0
     IN  IF On("narration_guard") /\ streak >= NarrationMax
         THEN /\ Reprompt("narration", "narration_stall")
              /\ narrations' = IF used["narration"] < Retries["narration"]
                               THEN 0 ELSE streak
         ELSE /\ Pass("stall")
              /\ narrations' = streak
  /\ UNCHANGED <<world, task, text, act, seen, denials, stalls, acted, ghosts>>

StallGuard ==
  /\ pc = "stall"
  /\ LET streak == IF StallMax > 0 /\ ~progress THEN stalls + 1 ELSE 0
     IN  IF StallMax > 0 /\ streak >= StallMax
         THEN /\ Reprompt("stall", "stall")
              /\ stalls' = IF used["stall"] < Retries["stall"] THEN 0 ELSE streak
         ELSE /\ NextStep
              /\ stalls' = streak
              /\ UNCHANGED <<used, records, terminated>>
  /\ UNCHANGED <<world, task, text, act, seen, denials, narrations, acted, ghosts>>
-----------------------------------------------------------------------------
(* The gates an answer goes through.                                       *)

CompletionGate ==
  /\ pc = "completion"
  /\ IF Undone = {} THEN Pass("touched")
     ELSE Reprompt("completion", "unverified_completion")
  /\ UNCHANGED <<world, task, text, act, guards, acted, ghosts>>

\* Only the final result is logged, never the one a re-prompt follows.
CheckLog ==
  {[type |-> "verification", ok |-> f \notin Failing] :
     f \in IF On("label") THEN Touched ELSE {}}

TouchedGate ==
  /\ pc = "touched"
  /\ IF ~On("touched")
     THEN Pass("goal") /\ UNCHANGED <<verified, checked>>
     ELSE IF Failing # {} /\ used["touched"] < Retries["touched"]
     THEN Reprompt("touched", "verify_failed_edits") /\ UNCHANGED <<verified, checked>>
     ELSE IF Failing # {}
     THEN /\ End("verify_failed_edits", records \cup CheckLog)
          /\ UNCHANGED <<used, verified, checked>>
     ELSE /\ pc' = "goal"
          /\ records' = records \cup CheckLog
          /\ verified' = (verified \/ Touched # {})
          /\ checked' = (checked \/ Touched \cap Runnable # {})
          /\ UNCHANGED <<step, used, terminated>>
  /\ UNCHANGED <<world, plan, ledger, manifest, goal, spec, text, act, guards,
                 acted, done, promised>>

\* goal.run_bar: a command of the model's choice, and its own verdict.
RunBar ==
  /\ exists' \in SUBSET File
  /\ sound' \in SUBSET exists'
  /\ Stirs

\* The bar has passed, or may not be tried again.
BarResolved(passed) ==
  /\ goal' = {}
  /\ LET logged == records \cup {[type |-> "verification", ok |-> passed]}
     IN  IF passed
         THEN /\ pc' = "acceptance"
              /\ records' = logged
              /\ UNCHANGED <<step, terminated>>
         ELSE End("goal_unmet", logged)
  /\ verified' = (verified \/ passed)
  /\ checked' = (checked \/ passed)
  /\ UNCHANGED used

\* A failing bar is retried while it has iterations and the turn has steps.
BarRetried(g) ==
  /\ goal' = {[g EXCEPT !.used = @ + 1]}
  /\ NextStep
  /\ UNCHANGED <<used, records, terminated, verified, checked>>

GoalGate ==
  /\ pc = "goal"
  /\ IF goal = {}
     THEN Pass("acceptance") /\ UNCHANGED <<world, goal, verified, checked>>
     ELSE /\ RunBar
          /\ \E g \in goal, passed \in BOOLEAN :
               IF ~passed /\ g.used + 1 < g.max /\ MaxSteps - step > Headroom
               THEN BarRetried(g)
               ELSE BarResolved(passed)
  /\ UNCHANGED <<plan, ledger, manifest, spec, text, act, guards, acted,
                 done, promised>>

\* Mutant of AcceptanceGate: out of retries, the unmet items are let through.
AcceptanceGateLenient ==
  /\ pc = "acceptance"
  /\ IF /\ On("acceptance") /\ (\E s \in spec : s.approved) /\ Unmet # {}
        /\ used["acceptance"] < Retries["acceptance"]
     THEN Reprompt("acceptance", "acceptance_unmet")
     ELSE Pass("grounding")
  /\ UNCHANGED <<world, task, text, act, guards, acted, ghosts>>

AcceptanceGate ==
  /\ pc = "acceptance"
  /\ IF On("acceptance") /\ (\E s \in spec : s.approved) /\ Unmet # {}
     THEN Reprompt("acceptance", "acceptance_unmet")
     ELSE Pass("grounding")
  /\ UNCHANGED <<world, task, text, act, guards, acted, ghosts>>

\* A correction that shrank the answer to a receipt gives way to the answer
\* that was challenged, if that one is grounded by now; and a receipt of a
\* review to what the review found, which nobody judges.
GroundingGate ==
  /\ pc = "grounding"
  /\ IF On("grounding") /\ Ungrounded(answer)
     THEN /\ Reprompt("grounding", "ungrounded_completion")
          /\ original' = IF /\ On("anti_collapse")
                            /\ original = "none"
                            /\ used["grounding"] < Retries["grounding"]
                         THEN answer ELSE original
          /\ UNCHANGED answer
     ELSE /\ End("final", records)
          /\ answer' \in {answer} \cup
               {a \in {original} : a # "none" /\ ~Ungrounded(a)} \cup
               {a \in {"digest"} : On("deliver_digest") /\ reviewed}
          /\ UNCHANGED <<used, original>>
  /\ UNCHANGED <<world, task, reviewed, act, guards, acted, ghosts>>

Gate ==
  \/ CompletionGate
  \/ TouchedGate
  \/ GoalGate
  \/ AcceptanceGate
  \/ GroundingGate
-----------------------------------------------------------------------------
Init ==
  /\ pc = "idle" /\ step = 0
  /\ exists = {} /\ sound = {} /\ stirred = {}
  /\ plan = {} /\ ledger = [f \in File |-> "none"]
  /\ manifest = {} /\ goal = {} /\ spec = {}
  /\ verified = FALSE
  /\ answer = "plain" /\ original = "none" /\ reviewed = FALSE
  /\ used = [gate \in Bounded |-> 0]
  /\ calls = 0 /\ quiet = TRUE /\ noop = TRUE /\ progress = FALSE
  /\ seen = {} /\ denials = 0 /\ narrations = 0 /\ stalls = 0
  /\ acted = FALSE /\ records = {} /\ terminated = "none"
  /\ done = {} /\ promised = {} /\ checked = FALSE

InTurn ==
  \/ Printed \/ Broken \/ Nudged \/ Answer \/ Act \/ Synthesize
  \/ Call \/ CallsDone \/ NarrationGuard \/ StallGuard
  \/ Gate

Next == StartTurn \/ Raise \/ InTurn \/ \E f \in File : Outside(f)

Spec == Init /\ [][Next]_vars

\* A turn runs on its caller's thread until it returns; nothing makes the user
\* start another, or anybody change a file.
FairSpec == Spec /\ WF_vars(InTurn)
-----------------------------------------------------------------------------
(* Properties.                                                             *)

ControlOK ==
  /\ pc \in Places
  /\ step \in 0..MaxSteps
  /\ used \in [Bounded -> Nat]
  /\ records \subseteq Record
  /\ terminated \in Labels \cup {"none", "error"}

DataOK ==
  /\ exists \subseteq File /\ sound \subseteq exists /\ plan \subseteq File
  /\ ledger \in [File -> {"none", "write", "delete"}]
  /\ manifest \in Optional(Manifest)
  /\ goal \in Optional(Goal)
  /\ spec \in Optional(Contract)
  /\ stirred \subseteq File
  /\ {answer, original} \subseteq Delivered \cup {"none"}

CallOK ==
  /\ calls \in 0..MaxCalls
  /\ seen \subseteq Tools
  /\ denials \in Nat /\ narrations \in Nat /\ stalls \in Nat
  /\ done \subseteq Tools \cup {"printed", "denied"}
  /\ promised \subseteq Item

TruthOK ==
  /\ verified \in BOOLEAN /\ checked \in BOOLEAN /\ acted \in BOOLEAN
  /\ reviewed \in BOOLEAN
  /\ quiet \in BOOLEAN /\ noop \in BOOLEAN /\ progress \in BOOLEAN

TypeOK == ControlOK /\ DataOK /\ CallOK /\ TruthOK

\* outcomes.classify, and what cli.py stamps on a turn that raised.
Outcome ==
  CASE terminated = "error" -> "error"
    [] terminated = "nudge_exhausted" -> "protocol_stalled"
    [] terminated \notin {"nudge_exhausted", "error", "final", "max_steps"} -> terminated
    [] terminated \in {"final", "max_steps"} /\ ~acted -> "no_action"
    [] terminated = "max_steps" /\ acted -> "max_steps"
    [] terminated = "final" /\ acted -> "completed"

\* convert.trainable_turns: the turns that become training examples.
Kept == Outcome = "completed" /\ \A r \in records : r.ok

\* An answer accepted as final, unless it was printed, satisfies every gate
\* that is on AT THE END of the turn: a gate re-prompted in between, by itself
\* or by a later one, never lets an earlier one go stale, and what a bar that
\* failed or somebody outside has changed before this very answer is seen by
\* its gates.  Two things escape them, and nothing else does: the files that
\* the bar or somebody outside changes after the answer is given, behind the
\* gate that has looked; and the digest of a review of this turn, put in the
\* place of a receipt after grounding (agent.py, the chain of gates of run).
FinalIsBacked ==
  terminated = "final" /\ "printed" \notin done =>
    /\ On("completion") => Unbacked \subseteq stirred
    /\ On("manifest") => Unapplied = {}
    /\ On("touched") => Failing \subseteq stirred
    /\ goal = {}
    /\ On("acceptance") => \A s \in spec : s.approved => s.unmet = {}
    /\ \/ On("grounding") => answer \in Answers /\ ~Ungrounded(answer)
       \/ answer = "digest" /\ On("deliver_digest") /\ reviewed

\* A turn kept for training had no call denied, met every item of the spec the
\* user last approved, and applied the change-list it proposed, which was
\* approved; a printed reply and a declined second proposal included
\* (train/convert.py over what _finish logs).
KeptIsDelivered ==
  Kept =>
    /\ "denied" \notin done
    /\ promised = {}
    /\ \A m \in manifest : m.approved /\ (On("manifest") => Unapplied = {})

\* Every turn returns, whatever the model, the tools and the gates do.
TurnEnds == pc # "idle" ~> pc = "idle"

\* The evidence that backs a claim of success is a check that ran and passed in
\* this turn, wherever every verifier is installed: nothing that the turn before
\* left behind and no failed check or bar counts (agent.py, _verified_ok).
VerifiedByACheck == Verifiable \subseteq Runnable /\ verified => checked
=============================================================================
