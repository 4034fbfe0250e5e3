------------------------------- MODULE Planner -------------------------------
(***************************************************************************)
(* A turn of the agent around the gateway: how a reply becomes a decision  *)
(* in the two tool modes (src/src/planner.py), what JsonPlanner's budget   *)
(* of nudges does over several tasks with one planner object, and how the  *)
(* effort of the next call is chosen (src/src/effort.py, effort_online.py, *)
(* and the loop of src/src/agent.py).                                      *)
(*                                                                         *)
(* A level of effort is its rank on the ladder: low 0, medium 1, high 2.   *)
(* NoEffort stands for none, Beyond for a pinned value off the ladder.     *)
(***************************************************************************)
EXTENDS Gateway

CONSTANTS
  Threshold,  \* config.EFFORT_THRESHOLD
  MaxSteps,   \* config.MAX_STEPS
  MaxTurns,   \* bound: tasks given to one agent
  MaxReasks   \* bound: re-prompts by the gates in one turn

NoEffort == -1
High == 2
Beyond == 3
MaxNudges == 3

ASSUME PlannerAssumption ==
  /\ Threshold \in Nat \ {0}
  /\ \A c \in Configs : /\ c.floor \in 0 .. High /\ c.cap \in 0 .. High
                        /\ c.default \in NoEffort .. High /\ c.pin \in NoEffort .. Beyond

VARIABLES
  running,    \* a task is being worked on
  turns,      \* tasks begun
  step,       \* model calls of this task
  nudges,     \* JsonPlanner.nudges
  effort,     \* Model.effort
  asked,      \* ctx.effort
  fails,      \* consecutive failures of the worst tool
  reasks,     \* re-prompts by the gates this task
  escalated,  \* Agent._escalated
  learned,    \* the online learner's count and wins
  peak        \* history: the strongest effort sent in this task

plannerVars == <<running, turns, step, nudges, effort, asked, fails,
                 reasks, escalated, learned, peak>>
vars == <<gatewayVars, plannerVars>>

Greater(a, b) == IF a >= b THEN a ELSE b

Lesser(a, b) == IF a <= b THEN a ELSE b

(***************************************************************************)
(* effort.py                                                               *)
(***************************************************************************)

Bump(level) == Lesser(level + 1, High)

Capped(level) == Lesser(level, conf.cap)

(* A call of the top-level agent, whose model is built without an effort   *)
(* of its own, starts from the configured floor.                           *)
Baseline == conf.floor

Helped == learned.n >= 2 /\ 2 * learned.wins >= learned.n

(* The off policy stays on the baseline; the reactive one honours the      *)
(* request and adds a rung on struggle; the online one also adds it for a  *)
(* kind of task that escalating helped before.                             *)
Decide ==
  LET struggling == fails + reasks >= Threshold
      bumped == struggling \/ (conf.policy = "online" /\ Helped)
      target == Greater(asked, IF bumped THEN Bump(Baseline) ELSE Baseline)
  IN  IF conf.policy = "off" THEN Baseline ELSE Capped(target)

\* Mutant of PinOverridesLadder: every pin is taken for a rung.
PinIsARung == FALSE

(* A pin that the ladder cannot express switches the ladder off.           *)
PinOverridesLadder == conf.pin = Beyond

(* What a request carries: the model's own effort, else the pinned value,  *)
(* else the global default.                                                *)
Sent(e) == IF e # NoEffort THEN e ELSE IF conf.pin # NoEffort THEN conf.pin ELSE conf.default

Adaptive == "adaptive" \in conf.on /\ ~PinOverridesLadder

NextEffort ==
  IF Adaptive /\ Decide > Greater(effort, Baseline) THEN Decide ELSE effort

(***************************************************************************)
(* The turn                                                                *)
(***************************************************************************)

Init ==
  /\ GatewayInit
  /\ running = FALSE /\ turns = 0 /\ step = 0 /\ nudges = 0
  /\ effort = NoEffort /\ asked = NoEffort /\ fails = 0 /\ reasks = 0
  /\ escalated = FALSE /\ learned = [n |-> 0, wins |-> 0]
  /\ peak = Sent(NoEffort)

StartTurn ==
  /\ ~running /\ phase = "idle" /\ turns < MaxTurns
  /\ running' = TRUE /\ turns' = turns + 1 /\ step' = 0
  /\ nudges' = 0
  /\ effort' = NoEffort /\ asked' = NoEffort /\ fails' = 0 /\ reasks' = 0
  /\ escalated' = FALSE /\ peak' = Sent(NoEffort)
  /\ UNCHANGED <<gatewayVars, learned>>

Ask ==
  /\ running /\ step < MaxSteps
  /\ Complete
  /\ step' = step + 1
  /\ effort' = NextEffort
  /\ escalated' = (escalated \/ NextEffort # effort)
  /\ peak' = Greater(peak, Sent(NextEffort))
  /\ UNCHANGED <<running, turns, nudges, asked, fails, reasks, learned>>

(* The task ends: every ordinary exit feeds the learner, when the task     *)
(* was escalated and the policy learns.                                    *)
End(how) ==
  /\ running' = FALSE
  /\ learned' = IF escalated /\ conf.policy = "online" /\ how \notin {"error", "interrupted"}
                THEN [n |-> learned.n + 1, wins |-> learned.wins + (IF how = "final" THEN 1 ELSE 0)]
                ELSE learned
  /\ UNCHANGED <<turns, step, effort, asked, fails, reasks, escalated, peak>>

(* The reply has been read.                                                *)
Consume ==
  /\ running /\ phase = "returned"
  /\ phase' = "idle"
  /\ UNCHANGED <<conf, attempt, warmed, served, arrived, probe, reply, lastly, logged>>

Native == "native" \in conf.on

Acts == IF Native THEN reply.calls # <<>> ELSE reply.text = "action"

Finishes == IF Native THEN reply.calls = <<>> ELSE reply.text = "finish"

Slips == ~Native /\ reply.text \in {"none", "prose"}

(* The tools run: each may fail (counted up to the threshold, and only     *)
(* where it is looked at), and escalate_effort, offered unless the policy  *)
(* is off, keeps the higher of its requests.  An action gives JsonPlanner  *)
(* its nudges back.                                                        *)
Act ==
  /\ Acts /\ Consume
  /\ nudges' = (IF Native THEN nudges ELSE 0)
  /\ IF Adaptive
     THEN \/ fails' \in {0, Lesser(fails + 1, Threshold)} /\ UNCHANGED asked
          \/ /\ conf.policy # "off" /\ fails' = 0
             /\ \E level \in 0 .. High : asked' = Greater(asked, level)
     ELSE UNCHANGED <<fails, asked>>
  /\ UNCHANGED <<running, turns, step, effort, reasks, escalated, learned, peak>>

(* NativePlanner's own sign of a dropped reply; with CODE_VERIFY_MANIFEST  *)
(* it ends the task as no_output.                                          *)
Flagged(m) == Native /\ m.text = "none" /\ m.calls = <<>>

Unheard == "verify_manifest" \in conf.on /\ Flagged(reply)

(* An answer: a gate may send it back, else the task ends with it.         *)
Finish ==
  /\ Finishes /\ ~Unheard /\ Consume
  /\ \/ End("final")
     \/ /\ reasks < MaxReasks /\ reasks' = reasks + 1
        /\ UNCHANGED <<running, turns, step, effort, asked, fails, escalated, learned, peak>>
  /\ UNCHANGED nudges

NoOutput ==
  /\ Unheard /\ Consume
  /\ End("no_output")
  /\ UNCHANGED nudges

(* Not an action: a nudge while there are some, then the honest end.       *)
Slip ==
  /\ Slips /\ Consume
  /\ IF nudges < MaxNudges
     THEN /\ nudges' = nudges + 1
          /\ UNCHANGED <<running, turns, step, effort, asked, fails, reasks, escalated,
                         learned, peak>>
     ELSE End("nudge_exhausted") /\ UNCHANGED nudges

OutOfSteps ==
  /\ running /\ phase = "idle" /\ step = MaxSteps
  /\ End("max_steps")
  /\ UNCHANGED <<gatewayVars, nudges>>

(* The exception leaves run; the driver reports it and goes on.            *)
Broken ==
  /\ running /\ phase \in {"raised", "interrupted"}
  /\ phase' = "idle"
  /\ End(IF phase = "raised" THEN "error" ELSE "interrupted")
  /\ UNCHANGED <<conf, attempt, warmed, served, arrived, probe, reply, lastly, logged,
                 nudges>>

TurnStep == Ask \/ Act \/ Finish \/ NoOutput \/ Slip \/ OutOfSteps \/ Broken

Next ==
  \/ StartTurn \/ TurnStep
  \/ (GatewayStep \/ Interrupt) /\ UNCHANGED plannerVars

Spec == Init /\ [][Next]_vars

FairSpec == Spec /\ WF_vars(TurnStep) /\ GatewayFairness

-----------------------------------------------------------------------------
(* In a task the effort a request carries never falls: a request, a        *)
(* struggle or what was learned can only make the model think harder, and  *)
(* a pin off the ladder stands (agent.py, the loop; effort.py, Policy).    *)
ThinksNoLess == running => Sent(effort) >= peak
=============================================================================
