-------------------------- MODULE AgentTurn_proofs --------------------------
(***************************************************************************)
(* Proofs about AgentTurn, for every set of flags, every budget and every  *)
(* number of retries, and about Tools, the calls of a turn and what they   *)
(* establish, for every sequence of scenarios.                             *)
(***************************************************************************)
EXTENDS AgentTurn, Tools, TLAPS, FiniteSetTheorems, WellFoundedInduction

\* A turn inside a step still has that step in its budget.
StepOK == pc \notin {"idle", "ask"} => step < MaxSteps

TypeInv == TypeOK /\ StepOK

LEMMA RecordType ==
  ASSUME NEW b \in BOOLEAN,
         NEW t \in {"permission", "verification", "manifest", "spec"}
  PROVE  [type |-> t, ok |-> b] \in Record
BY DEF Record

LEMMA ResolvedType == Resolved \subseteq Record
<1>1. ASSUME NEW m \in manifest
      PROVE  (m.approved /\ (On("manifest") => Unapplied = {})) \in BOOLEAN
  BY Zenon
<1>2. ASSUME NEW s \in spec
      PROVE  (s.approved /\ Unmet = {}) \in BOOLEAN
  BY Zenon
<1>3. {[type |-> "manifest",
        ok |-> m.approved /\ (On("manifest") => Unapplied = {})] : m \in manifest}
        \subseteq Record
  BY <1>1, RecordType, Zenon
<1>4. {[type |-> "spec", ok |-> s.approved /\ Unmet = {}] : s \in spec}
        \subseteq Record
  BY <1>2, RecordType, Zenon
<1> QED
  BY <1>3, <1>4, Zenon DEF Resolved

LEMMA CheckLogType == CheckLog \subseteq Record
<1>1. ASSUME NEW f
      PROVE  (f \notin Failing) \in BOOLEAN
  BY Zenon
<1>2. \A S : {[type |-> "verification", ok |-> f \notin Failing] : f \in S}
               \subseteq Record
  BY <1>1, RecordType, Zenon
<1> QED
  BY <1>2, Zenon DEF CheckLog

-----------------------------------------------------------------------------
(* What the ways out of a step do to the control variables.                *)

LEMMA EndType ==
  ASSUME ControlOK, NEW label \in Labels, NEW logged, logged \subseteq Record,
         End(label, logged), UNCHANGED used
  PROVE  ControlOK' /\ StepOK'
BY ResolvedType DEF End, ControlOK, StepOK, Places

LEMMA NextStepType ==
  ASSUME ControlOK, step < MaxSteps, NextStep,
         used' \in [Bounded -> Nat], UNCHANGED <<records, terminated>>
  PROVE  ControlOK' /\ StepOK'
BY TurnAssumption DEF NextStep, ControlOK, StepOK, Places

LEMMA PassType ==
  ASSUME ControlOK, step < MaxSteps, NEW gate \in Places, Pass(gate)
  PROVE  ControlOK' /\ StepOK'
BY DEF Pass, ControlOK, StepOK

LEMMA RepromptType ==
  ASSUME ControlOK, step < MaxSteps, NEW gate \in Bounded, NEW label \in Labels,
         Reprompt(gate, label)
  PROVE  ControlOK' /\ StepOK'
<1>1. CASE NextStep /\ used' = [used EXCEPT ![gate] = @ + 1]
           /\ UNCHANGED <<records, terminated>>
  <2>1. used' \in [Bounded -> Nat]
    BY <1>1 DEF ControlOK
  <2> QED
    BY <1>1, <2>1, NextStepType
<1>2. CASE End(label, records) /\ UNCHANGED used
  <2>1. records \subseteq Record
    BY DEF ControlOK
  <2> QED
    BY <1>2, <2>1, EndType
<1> QED
  BY <1>1, <1>2 DEF Reprompt

-----------------------------------------------------------------------------
(* Type correctness, one lemma for each action.                            *)

LEMMA StartTurnType == TypeInv /\ StartTurn => TypeInv'
<1> SUFFICES ASSUME ControlOK, DataOK, CallOK, TruthOK, StepOK, StartTurn
             PROVE  TypeInv'
  BY DEF TypeInv, TypeOK
<1>1. ControlOK' /\ StepOK'
  BY TurnAssumption DEF ControlOK, StepOK, Places, Bounded, Labels, StartTurn
<1>2. DataOK'
  BY DEF DataOK, Optional, Goal, Answers, Delivered, StartTurn, ResetTask, act
<1>3. CallOK'
  BY DEF CallOK, Tools, StartTurn, ResetTask, act
<1>4. TruthOK'
  BY DEF TruthOK, StartTurn, ResetTask, act
<1> QED
  BY <1>1, <1>2, <1>3, <1>4 DEF TypeInv, TypeOK

LEMMA RaiseType == TypeInv /\ Raise => TypeInv'
<1> SUFFICES ASSUME ControlOK, DataOK, CallOK, TruthOK, StepOK, Raise
             PROVE  TypeInv'
  BY DEF TypeInv, TypeOK
<1>1. ControlOK' /\ StepOK'
  BY DEF ControlOK, StepOK, Places, Bounded, Labels, Raise
<1>2. DataOK'
  BY DEF DataOK, Optional, Goal, Answers, Delivered, Raise, world, task, text, act, guards, ghosts
<1>3. CallOK'
  BY DEF CallOK, Tools, Raise, world, task, text, act, guards, ghosts
<1>4. TruthOK'
  BY DEF TruthOK, Raise, world, task, text, act, guards, ghosts
<1> QED
  BY <1>1, <1>2, <1>3, <1>4 DEF TypeInv, TypeOK

LEMMA OutsideType == TypeInv /\ (\E f \in File : Outside(f)) => TypeInv'
<1> SUFFICES ASSUME ControlOK, DataOK, CallOK, TruthOK, StepOK,
                    NEW f \in File, Outside(f)
             PROVE  TypeInv'
  BY DEF TypeInv, TypeOK
<1>1. ControlOK' /\ StepOK'
  BY DEF ControlOK, StepOK, Outside
<1>2. DataOK'
  <2>1. exists' \subseteq File /\ sound' \subseteq exists' /\ stirred' \subseteq File
    BY DEF DataOK, Outside, Changes, Stirs
  <2> QED
    BY <2>1 DEF DataOK, Outside, task, text
<1>3. CallOK'
  BY DEF CallOK, Outside, act, guards, ghosts
<1>4. TruthOK'
  BY DEF TruthOK, Outside, task, text, act, ghosts
<1> QED
  BY <1>1, <1>2, <1>3, <1>4 DEF TypeInv, TypeOK

LEMMA PrintedType == TypeInv /\ Printed => TypeInv'
<1> SUFFICES ASSUME ControlOK, DataOK, CallOK, TruthOK, StepOK, Printed
             PROVE  TypeInv'
  BY DEF TypeInv, TypeOK
<1>1. ControlOK' /\ StepOK'
  <2>1. step < MaxSteps /\ records \subseteq Record /\ "final" \in Labels
        /\ [used EXCEPT !["fragment"] = @ + 1] \in [Bounded -> Nat]
    BY TurnAssumption DEF ControlOK, Bounded, Labels, Printed, Asking
  <2>2. CASE NextStep
    BY <2>1, <2>2, NextStepType DEF Printed, NextStep, End
  <2>3. CASE End("final", records)
    BY <2>1, <2>3, EndType DEF Printed, NextStep, End
  <2> QED
    BY <2>2, <2>3 DEF Printed
<1>2. DataOK'
  BY DEF DataOK, Optional, Goal, Answers, Delivered, Printed, Asking, world, task, text, act, guards
<1>3. CallOK'
  BY DEF CallOK, Tools, Printed, Asking, world, task, text, act, guards
<1>4. TruthOK'
  BY DEF TruthOK, Printed, Asking, world, task, text, act, guards
<1> QED
  BY <1>1, <1>2, <1>3, <1>4 DEF TypeInv, TypeOK

LEMMA BrokenType == TypeInv /\ Broken => TypeInv'
<1> SUFFICES ASSUME ControlOK, DataOK, CallOK, TruthOK, StepOK, Broken
             PROVE  TypeInv'
  BY DEF TypeInv, TypeOK
<1>1. ControlOK' /\ StepOK'
  <2>1. records \subseteq Record
    BY DEF ControlOK
  <2>2. PICK label \in {"degenerate", "nudge_exhausted", "no_output"} :
          End(label, records)
    BY DEF Broken
  <2> QED
    BY <2>1, <2>2, EndType DEF Broken, Labels
<1>2. DataOK'
  BY DEF DataOK, Optional, Goal, Answers, Delivered, Broken, Asking, world, task, text, act, guards, ghosts
<1>3. CallOK'
  BY DEF CallOK, Tools, Broken, Asking, world, task, text, act, guards, ghosts
<1>4. TruthOK'
  BY DEF TruthOK, Broken, Asking, world, task, text, act, guards, ghosts
<1> QED
  BY <1>1, <1>2, <1>3, <1>4 DEF TypeInv, TypeOK

LEMMA NudgedType == TypeInv /\ Nudged => TypeInv'
<1> SUFFICES ASSUME ControlOK, DataOK, CallOK, TruthOK, StepOK, Nudged
             PROVE  TypeInv'
  BY DEF TypeInv, TypeOK
<1>1. ControlOK' /\ StepOK'
  <2>1. step < MaxSteps /\ used \in [Bounded -> Nat]
    BY TurnAssumption DEF ControlOK, Nudged, Asking
  <2> QED
    BY <2>1, NextStepType DEF Nudged
<1>2. DataOK'
  BY DEF DataOK, Optional, Goal, Answers, Delivered, Nudged, Asking, world, task, text, act, guards, ghosts
<1>3. CallOK'
  BY DEF CallOK, Tools, Nudged, Asking, world, task, text, act, guards, ghosts
<1>4. TruthOK'
  BY DEF TruthOK, Nudged, Asking, world, task, text, act, guards, ghosts
<1> QED
  BY <1>1, <1>2, <1>3, <1>4 DEF TypeInv, TypeOK

LEMMA AnswerType == TypeInv /\ Answer => TypeInv'
<1> SUFFICES ASSUME ControlOK, DataOK, CallOK, TruthOK, StepOK, Answer
             PROVE  TypeInv'
  BY DEF TypeInv, TypeOK
<1>1. ControlOK' /\ StepOK'
  BY DEF ControlOK, StepOK, Places, Bounded, Labels, Answer, Asking, Pass
<1>2. DataOK'
  BY DEF DataOK, Optional, Goal, Answers, Delivered, Answer, Asking, Pass, world, task, act, guards, ghosts
<1>3. CallOK'
  BY DEF CallOK, Tools, Answer, Asking, Pass, world, task, act, guards, ghosts
<1>4. TruthOK'
  BY DEF TruthOK, Answer, Asking, Pass, world, task, act, guards, ghosts
<1> QED
  BY <1>1, <1>2, <1>3, <1>4 DEF TypeInv, TypeOK

LEMMA ActType == TypeInv /\ Act => TypeInv'
<1> SUFFICES ASSUME ControlOK, DataOK, CallOK, TruthOK, StepOK, Act
             PROVE  TypeInv'
  BY DEF TypeInv, TypeOK
<1>1. ControlOK' /\ StepOK'
  BY DEF ControlOK, StepOK, Places, Bounded, Labels, Act, Asking
<1>2. DataOK'
  BY DEF DataOK, Optional, Goal, Answers, Delivered, Act, Asking, world, task, text, guards, ghosts
<1>3. CallOK'
  BY TurnAssumption DEF CallOK, Tools, Act, Asking, world, task, text, guards, ghosts
<1>4. TruthOK'
  BY DEF TruthOK, Act, Asking, world, task, text, guards, ghosts
<1> QED
  BY <1>1, <1>2, <1>3, <1>4 DEF TypeInv, TypeOK

LEMMA SynthesizeType == TypeInv /\ Synthesize => TypeInv'
<1> SUFFICES ASSUME ControlOK, DataOK, CallOK, TruthOK, StepOK, Synthesize
             PROVE  TypeInv'
  BY DEF TypeInv, TypeOK
<1>1. ControlOK' /\ StepOK'
  <2>1. records \subseteq Record /\ "max_steps" \in Labels
    BY DEF ControlOK, Labels
  <2> QED
    BY <2>1, EndType DEF Synthesize
<1>2. DataOK'
  BY DEF DataOK, Optional, Goal, Answers, Delivered, Synthesize, world, task, text, act, guards, ghosts
<1>3. CallOK'
  BY DEF CallOK, Tools, Synthesize, world, task, text, act, guards, ghosts
<1>4. TruthOK'
  BY DEF TruthOK, Synthesize, world, task, text, act, guards, ghosts
<1> QED
  BY <1>1, <1>2, <1>3, <1>4 DEF TypeInv, TypeOK

LEMMA CallsDoneType == TypeInv /\ CallsDone => TypeInv'
<1> SUFFICES ASSUME ControlOK, DataOK, CallOK, TruthOK, StepOK, CallsDone
             PROVE  TypeInv'
  BY DEF TypeInv, TypeOK
<1>1. ControlOK' /\ StepOK'
  BY DEF ControlOK, StepOK, Places, Bounded, Labels, CallsDone
<1>2. DataOK'
  BY DEF DataOK, Optional, Goal, Answers, Delivered, CallsDone, world, task, text, act, guards
<1>3. CallOK'
  BY DEF CallOK, Tools, CallsDone, world, task, text, act, guards
<1>4. TruthOK'
  BY DEF TruthOK, CallsDone, world, task, text, act, guards
<1> QED
  BY <1>1, <1>2, <1>3, <1>4 DEF TypeInv, TypeOK

LEMMA NarrationGuardType == TypeInv /\ NarrationGuard => TypeInv'
<1> SUFFICES ASSUME ControlOK, DataOK, CallOK, TruthOK, StepOK, NarrationGuard
             PROVE  TypeInv'
  BY DEF TypeInv, TypeOK
<1>1. ControlOK' /\ StepOK'
  <2>1. step < MaxSteps /\ "narration" \in Bounded /\ "narration_stall" \in Labels
    BY DEF StepOK, Bounded, Labels, NarrationGuard
  <2> QED
    BY <2>1, RepromptType, PassType DEF NarrationGuard, Places
<1>2. DataOK'
  BY DEF DataOK, Optional, Goal, Answers, Delivered, NarrationGuard, Pass, world, task, text, act, ghosts
<1>3. CallOK'
  BY DEF CallOK, Tools, NarrationGuard, Pass, world, task, text, act, ghosts
<1>4. TruthOK'
  BY DEF TruthOK, NarrationGuard, Pass, world, task, text, act, ghosts
<1> QED
  BY <1>1, <1>2, <1>3, <1>4 DEF TypeInv, TypeOK

LEMMA StallGuardType == TypeInv /\ StallGuard => TypeInv'
<1> SUFFICES ASSUME ControlOK, DataOK, CallOK, TruthOK, StepOK, StallGuard
             PROVE  TypeInv'
  BY DEF TypeInv, TypeOK
<1>1. ControlOK' /\ StepOK'
  <2>1. step < MaxSteps /\ used \in [Bounded -> Nat]
        /\ "stall" \in Bounded /\ "stall" \in Labels
    BY DEF ControlOK, StepOK, Bounded, Labels, StallGuard
  <2> QED
    BY <2>1, RepromptType, NextStepType DEF StallGuard
<1>2. DataOK'
  BY DEF DataOK, Optional, Goal, Answers, Delivered, StallGuard, world, task, text, act, ghosts
<1>3. CallOK'
  BY DEF CallOK, Tools, StallGuard, world, task, text, act, ghosts
<1>4. TruthOK'
  BY DEF TruthOK, StallGuard, world, task, text, act, ghosts
<1> QED
  BY <1>1, <1>2, <1>3, <1>4 DEF TypeInv, TypeOK

LEMMA CompletionGateType == TypeInv /\ CompletionGate => TypeInv'
<1> SUFFICES ASSUME ControlOK, DataOK, CallOK, TruthOK, StepOK, CompletionGate
             PROVE  TypeInv'
  BY DEF TypeInv, TypeOK
<1>1. ControlOK' /\ StepOK'
  <2>1. step < MaxSteps /\ "completion" \in Bounded /\ "unverified_completion" \in Labels
    BY DEF StepOK, Bounded, Labels, CompletionGate
  <2> QED
    BY <2>1, RepromptType, PassType DEF CompletionGate, Places
<1>2. DataOK'
  BY DEF DataOK, Optional, Goal, Answers, Delivered, CompletionGate, Pass, world, task, text, act, guards, ghosts
<1>3. CallOK'
  BY DEF CallOK, Tools, CompletionGate, Pass, world, task, text, act, guards, ghosts
<1>4. TruthOK'
  BY DEF TruthOK, CompletionGate, Pass, world, task, text, act, guards, ghosts
<1> QED
  BY <1>1, <1>2, <1>3, <1>4 DEF TypeInv, TypeOK

LEMMA TouchedGateType == TypeInv /\ TouchedGate => TypeInv'
<1> SUFFICES ASSUME ControlOK, DataOK, CallOK, TruthOK, StepOK, TouchedGate
             PROVE  TypeInv'
  BY DEF TypeInv, TypeOK
<1>1. ControlOK' /\ StepOK'
  <2>1. step < MaxSteps /\ "touched" \in Bounded /\ "verify_failed_edits" \in Labels
    BY DEF StepOK, Bounded, Labels, TouchedGate
  <2>2. records \cup CheckLog \subseteq Record
    BY CheckLogType DEF ControlOK
  <2>3. CASE Pass("goal")
    BY <2>1, <2>3, PassType DEF Places
  <2>4. CASE Reprompt("touched", "verify_failed_edits")
    BY <2>1, <2>4, RepromptType
  <2>5. CASE End("verify_failed_edits", records \cup CheckLog) /\ UNCHANGED used
    BY <2>1, <2>2, <2>5, EndType
  <2>6. CASE pc' = "goal" /\ records' = records \cup CheckLog
             /\ UNCHANGED <<step, used, terminated>>
    BY <2>1, <2>2, <2>6 DEF ControlOK, StepOK, Places
  <2> QED
    BY <2>3, <2>4, <2>5, <2>6 DEF TouchedGate
<1>2. DataOK'
  <2>1. /\ UNCHANGED <<exists, sound, stirred, plan, ledger, manifest, goal, spec>>
        /\ UNCHANGED <<answer, original>>
    BY DEF TouchedGate, world, text
  <2> QED
    BY <2>1 DEF DataOK
<1>3. CallOK'
  BY DEF CallOK, Tools, TouchedGate, Pass, text, act, guards
<1>4. TruthOK'
  BY DEF TruthOK, TouchedGate, Pass, text, act, guards
<1> QED
  BY <1>1, <1>2, <1>3, <1>4 DEF TypeInv, TypeOK

LEMMA GoalGateType == TypeInv /\ GoalGate => TypeInv'
<1> SUFFICES ASSUME ControlOK, DataOK, CallOK, TruthOK, StepOK, GoalGate
             PROVE  TypeInv'
  BY DEF TypeInv, TypeOK
<1>0. \/ Pass("acceptance") /\ UNCHANGED <<world, goal, verified, checked>>
      \/ /\ RunBar
         /\ \/ \E g \in goal : g.used + 1 < g.max /\ BarRetried(g)
            \/ \E passed \in BOOLEAN : BarResolved(passed)
  BY Zenon DEF GoalGate
<1>1. ControlOK' /\ StepOK'
  <2>1. step < MaxSteps /\ "goal_unmet" \in Labels /\ used \in [Bounded -> Nat]
    BY DEF ControlOK, StepOK, Labels, GoalGate
  <2>2. CASE Pass("acceptance")
    BY <2>1, <2>2, PassType DEF Places
  <2>3. ASSUME NEW g, BarRetried(g)
        PROVE  ControlOK' /\ StepOK'
    BY <2>1, <2>3, NextStepType DEF BarRetried
  <2>4. ASSUME NEW passed \in BOOLEAN, BarResolved(passed)
        PROVE  ControlOK' /\ StepOK'
    <3> DEFINE logged == records \cup {[type |-> "verification", ok |-> passed]}
    <3>1. logged \subseteq Record
      BY RecordType DEF ControlOK
    <3> HIDE DEF logged
    <3>2. CASE End("goal_unmet", logged) /\ UNCHANGED used
      BY <2>1, <3>1, <3>2, EndType
    <3>3. CASE pc' = "acceptance" /\ records' = logged
               /\ UNCHANGED <<step, used, terminated>>
      BY <2>1, <3>1, <3>3 DEF ControlOK, StepOK, Places
    <3> QED
      BY <2>4, <3>2, <3>3 DEF BarResolved, logged
  <2> QED
    BY <1>0, <2>2, <2>3, <2>4
<1>2. DataOK'
  <2>1. UNCHANGED <<plan, ledger, manifest, spec, answer, original>>
    BY DEF GoalGate, text
  <2>2. exists' \subseteq File /\ sound' \subseteq exists' /\ stirred' \subseteq File
    BY <1>0 DEF RunBar, Stirs, DataOK, world
  <2>3. goal' \in Optional(Goal)
    <3>1. ASSUME NEW g \in goal, g.used + 1 < g.max, BarRetried(g)
          PROVE  goal' \in Optional(Goal)
      <4>1. g \in Goal
        BY <3>1 DEF DataOK, Optional
      <4>2. [g EXCEPT !.used = @ + 1] \in Goal
        BY <3>1, <4>1, TurnAssumption DEF Goal
      <4> QED
        BY <3>1, <4>2 DEF Optional, BarRetried
    <3>2. ASSUME NEW passed, BarResolved(passed)
          PROVE  goal' \in Optional(Goal)
      BY <3>2 DEF BarResolved, Optional
    <3>3. CASE UNCHANGED goal
      BY <3>3 DEF DataOK
    <3> QED
      BY <1>0, <3>1, <3>2, <3>3
  <2> QED
    BY <2>1, <2>2, <2>3 DEF DataOK
<1>3. CallOK'
  BY DEF CallOK, GoalGate, text, act, guards
<1>4. TruthOK'
  <2>1. verified' \in BOOLEAN /\ checked' \in BOOLEAN
    BY <1>0 DEF BarRetried, BarResolved, TruthOK
  <2> QED
    BY <2>1 DEF TruthOK, GoalGate, text, act, guards
<1> QED
  BY <1>1, <1>2, <1>3, <1>4 DEF TypeInv, TypeOK

LEMMA AcceptanceGateType == TypeInv /\ AcceptanceGate => TypeInv'
<1> SUFFICES ASSUME ControlOK, DataOK, CallOK, TruthOK, StepOK, AcceptanceGate
             PROVE  TypeInv'
  BY DEF TypeInv, TypeOK
<1>1. ControlOK' /\ StepOK'
  <2>1. step < MaxSteps /\ "acceptance" \in Bounded /\ "acceptance_unmet" \in Labels
    BY DEF StepOK, Bounded, Labels, AcceptanceGate
  <2> QED
    BY <2>1, RepromptType, PassType DEF AcceptanceGate, Places
<1>2. DataOK'
  BY DEF DataOK, Optional, Goal, Answers, Delivered, AcceptanceGate, Pass, world, task, text, act, guards, ghosts
<1>3. CallOK'
  BY DEF CallOK, Tools, AcceptanceGate, Pass, world, task, text, act, guards, ghosts
<1>4. TruthOK'
  BY DEF TruthOK, AcceptanceGate, Pass, world, task, text, act, guards, ghosts
<1> QED
  BY <1>1, <1>2, <1>3, <1>4 DEF TypeInv, TypeOK

LEMMA GroundingGateType == TypeInv /\ GroundingGate => TypeInv'
<1> SUFFICES ASSUME ControlOK, DataOK, CallOK, TruthOK, StepOK, GroundingGate
             PROVE  TypeInv'
  BY DEF TypeInv, TypeOK
<1>1. ControlOK' /\ StepOK'
  <2>1. step < MaxSteps /\ "grounding" \in Bounded
        /\ {"final", "ungrounded_completion"} \subseteq Labels /\ records \subseteq Record
    BY DEF ControlOK, StepOK, Bounded, Labels, GroundingGate
  <2> QED
    BY <2>1, RepromptType, EndType DEF GroundingGate
<1>2. DataOK'
  <2>1. UNCHANGED <<world, task>>
    BY DEF GroundingGate
  <2>2. {answer', original'} \subseteq {answer, original, "digest"}
    BY Zenon DEF GroundingGate
  <2> QED
    BY <2>1, <2>2 DEF DataOK, Delivered, world, task
<1>3. CallOK'
  BY DEF CallOK, Tools, GroundingGate, Pass, world, task, act, guards, ghosts
<1>4. TruthOK'
  BY DEF TruthOK, GroundingGate, Pass, world, task, act, guards, ghosts
<1> QED
  BY <1>1, <1>2, <1>3, <1>4 DEF TypeInv, TypeOK

-----------------------------------------------------------------------------
(* The calls.                                                              *)

\* What running any call does to everything but the task and the world.
RunOK ==
  /\ calls' \in 0..MaxCalls
  /\ seen' \subseteq Tools
  /\ denials' \in Nat /\ narrations' \in Nat /\ stalls' \in Nat
  /\ done' \subseteq Tools \cup {"printed", "denied"}
  /\ {answer', original'} \subseteq Delivered \cup {"none"}
  /\ acted' \in BOOLEAN /\ quiet' \in BOOLEAN /\ noop' \in BOOLEAN
  /\ progress' \in BOOLEAN /\ reviewed' \in BOOLEAN

LEMMA RanTruth ==
  ASSUME TruthOK, NEW tool, NEW allowed, NEW ok, Ran(tool, allowed, ok)
  PROVE  /\ acted' \in BOOLEAN /\ quiet' \in BOOLEAN /\ noop' \in BOOLEAN
         /\ progress' \in BOOLEAN /\ reviewed' \in BOOLEAN
<1>1. acted' \in BOOLEAN
  BY Zenon DEF Ran
<1>2. quiet' \in BOOLEAN
  BY Zenon DEF Ran
<1>3. noop' \in BOOLEAN
  BY Zenon DEF Ran
<1>4. progress' \in BOOLEAN
  <2>1. CASE StallMax = 0
    BY <2>1 DEF Ran, TruthOK
  <2>2. CASE StallMax # 0
    <3>1. PICK novel :
            progress' = (progress \/ (allowed /\ ok /\ novel /\ tool \notin Prints))
      BY <2>2, Zenon DEF Ran
    <3> QED
      BY <3>1, Zenon
  <2> QED
    BY <2>1, <2>2
<1>5. reviewed' \in BOOLEAN
  BY Zenon DEF Ran
<1> QED
  BY <1>1, <1>2, <1>3, <1>4, <1>5

LEMMA RanCounts ==
  ASSUME NEW tool, NEW allowed, NEW ok, Ran(tool, allowed, ok)
  PROVE  calls' = calls + 1 /\ seen' \in {seen, seen \cup {tool}}
<1>1. calls' = calls + 1
  BY Zenon DEF Ran
<1>2. seen' = seen \/ seen' = seen \cup {tool}
  BY Zenon DEF Ran
<1> QED
  BY <1>1, <1>2

LEMMA RunType ==
  ASSUME TypeInv, NEW tool \in Tools, NEW ok \in BOOLEAN, Run(tool, ok)
  PROVE  ControlOK' /\ StepOK' /\ RunOK
<1>1. ControlOK' /\ StepOK'
  BY DEF TypeInv, TypeOK, ControlOK, StepOK, Run, Ran, Calling
<1>2. /\ denials' \in Nat /\ narrations' \in Nat /\ stalls' \in Nat
          /\ {answer', original'} \subseteq Delivered \cup {"none"}
  BY DEF TypeInv, TypeOK, CallOK, DataOK, Run, Ran, text
<1>5. calls' \in 0..MaxCalls /\ seen' \subseteq Tools
  <2>1. calls' = calls + 1 /\ seen' \in {seen, seen \cup {tool}}
    BY RanCounts, Zenon DEF Run
  <2>2. calls \in 0..MaxCalls /\ calls < MaxCalls /\ seen \subseteq Tools
    BY DEF TypeInv, TypeOK, CallOK, Run, Calling
  <2> QED
    BY <2>1, <2>2, TurnAssumption
<1>3. done' \subseteq Tools \cup {"printed", "denied"}
  BY DEF TypeInv, TypeOK, CallOK, Run
<1>4. /\ acted' \in BOOLEAN /\ quiet' \in BOOLEAN /\ noop' \in BOOLEAN
      /\ progress' \in BOOLEAN /\ reviewed' \in BOOLEAN
  BY RanTruth DEF TypeInv, TypeOK, Run
<1> QED
  BY <1>1, <1>2, <1>3, <1>4, <1>5 DEF RunOK

LEMMA DeniedType ==
  ASSUME TypeInv, NEW tool \in Tools, Denied(tool)
  PROVE  TypeInv'
<1> DEFINE logged == records \cup {[type |-> "permission", ok |-> FALSE]}
<1>1. logged \subseteq Record
  BY RecordType DEF TypeInv, TypeOK, ControlOK
<1>2. "denial_loop" \in Labels
  BY DEF Labels
<1>3. denials' \in Nat
  BY TurnAssumption DEF Denied, TypeInv, TypeOK, CallOK
<1>4. done' \subseteq Tools \cup {"printed", "denied"} /\ promised' \subseteq Item
  BY DEF Denied, TypeInv, TypeOK, CallOK
<1> HIDE DEF logged
<1>5. CASE /\ End("denial_loop", logged)
           /\ UNCHANGED <<act, seen, acted, text, used, narrations, stalls>>
  <2>1. ControlOK' /\ StepOK'
    BY <1>1, <1>2, <1>5, EndType DEF TypeInv, TypeOK
  <2>2. DataOK'
    BY <1>5 DEF Denied, TypeInv, TypeOK, DataOK, world, task, text
  <2>3. CallOK'
    BY <1>3, <1>4, <1>5 DEF TypeInv, TypeOK, CallOK, act
  <2>4. TruthOK'
    BY <1>5 DEF Denied, TypeInv, TypeOK, TruthOK, act, task, text
  <2> QED
    BY <2>1, <2>2, <2>3, <2>4 DEF TypeInv, TypeOK
<1>6. CASE Ran(tool, FALSE, FALSE) /\ records' = logged
  <2>1. ControlOK' /\ StepOK'
    BY <1>1, <1>6 DEF TypeInv, TypeOK, ControlOK, StepOK, Ran
  <2>2. DataOK'
    BY <1>6 DEF Denied, Ran, TypeInv, TypeOK, DataOK, world, task, text
  <2>3. CallOK'
    <3>1. calls' \in 0..MaxCalls /\ seen' \subseteq Tools
      <4>1. calls' = calls + 1 /\ seen' \in {seen, seen \cup {tool}}
        BY <1>6, RanCounts, Zenon
      <4>2. calls \in 0..MaxCalls /\ calls < MaxCalls /\ seen \subseteq Tools
        BY DEF TypeInv, TypeOK, CallOK, Denied, Calling
      <4> QED
        BY <4>1, <4>2, TurnAssumption
    <3>2. narrations' \in Nat /\ stalls' \in Nat
      BY <1>6 DEF Ran, TypeInv, TypeOK, CallOK
    <3> QED
      BY <1>3, <1>4, <3>1, <3>2 DEF CallOK
  <2>4. TruthOK'
    <3>1. TruthOK
      BY DEF TypeInv, TypeOK
    <3>2. verified' \in BOOLEAN /\ checked' \in BOOLEAN
      BY <3>1 DEF Denied, TruthOK, task
    <3> QED
      BY <1>6, <3>1, <3>2, RanTruth DEF TruthOK
  <2> QED
    BY <2>1, <2>2, <2>3, <2>4 DEF TypeInv, TypeOK
<1> QED
  BY <1>5, <1>6 DEF Denied, logged

\* What a call must leave of the task and the world to be well typed.
TaskTyped ==
  /\ exists' \subseteq File /\ sound' \subseteq exists' /\ stirred' \subseteq File
  /\ plan' \subseteq File
  /\ ledger' \in [File -> {"none", "write", "delete"}]
  /\ manifest' \in Optional(Manifest) /\ goal' \in Optional(Goal)
  /\ spec' \in Optional(Contract) /\ promised' \subseteq Item
  /\ verified' \in BOOLEAN /\ checked' \in BOOLEAN

LEMMA RunTypeInv ==
  ASSUME TypeInv, NEW tool \in Tools, NEW ok \in BOOLEAN, Run(tool, ok), TaskTyped
  PROVE  TypeInv'
<1>1. ControlOK' /\ StepOK' /\ RunOK
  BY RunType
<1> QED
  BY <1>1 DEF RunOK, TaskTyped, TypeInv, TypeOK, DataOK, CallOK, TruthOK

LEMMA CallType == TypeInv /\ Call => TypeInv'
<1> SUFFICES ASSUME TypeInv, Call
             PROVE  TypeInv'
  OBVIOUS
<1>a. /\ exists \subseteq File /\ sound \subseteq exists /\ stirred \subseteq File
      /\ plan \subseteq File
      /\ ledger \in [File -> {"none", "write", "delete"}]
      /\ manifest \in Optional(Manifest) /\ goal \in Optional(Goal)
      /\ spec \in Optional(Contract) /\ promised \subseteq Item
      /\ verified \in BOOLEAN /\ checked \in BOOLEAN
  BY DEF TypeInv, TypeOK, DataOK, CallOK, TruthOK
<1>1. ASSUME NEW tool \in Prints \cup {"read", "review"}, NoEffect(tool)
      PROVE  TypeInv'
  <2>1. TaskTyped
    BY <1>a, <1>1 DEF TaskTyped, NoEffect, world, task
  <2>2. tool \in Tools /\ \E ok \in BOOLEAN : Run(tool, ok)
    BY <1>1 DEF NoEffect, Tools
  <2> QED
    BY <2>1, <2>2, RunTypeInv
<1>2. ASSUME NEW tool \in Prints \cup {"read", "review"}, Denied(tool)
      PROVE  TypeInv'
  <2>1. tool \in Tools
    BY DEF Tools
  <2> QED
    BY <1>2, <2>1, DeniedType
<1>3. ASSUME NEW f \in File, Write(f)
      PROVE  TypeInv'
  <2>1. TaskTyped
    BY <1>a, <1>3 DEF TaskTyped, Write
  <2>2. "write" \in Tools /\ Run("write", TRUE)
    BY <1>3 DEF Write, Tools
  <2> QED
    BY <2>1, <2>2, RunTypeInv
<1>4. ASSUME NEW f \in File, Delete(f)
      PROVE  TypeInv'
  <2>1. TaskTyped
    BY <1>a, <1>4 DEF TaskTyped, Delete
  <2>2. "delete" \in Tools /\ Run("delete", TRUE)
    BY <1>4 DEF Delete, Tools
  <2> QED
    BY <2>1, <2>2, RunTypeInv
<1>5. ASSUME NEW f \in File, Shell(f)
      PROVE  TypeInv'
  <2>1. TaskTyped
    BY <1>a, <1>5 DEF TaskTyped, Shell, Changes, task
  <2>2. "shell" \in Tools /\ Run("shell", TRUE)
    BY <1>5 DEF Shell, Tools
  <2> QED
    BY <2>1, <2>2, RunTypeInv
<1>6. CASE Check
  <2>1. TaskTyped
    <3>1. verified' \in BOOLEAN /\ checked' \in BOOLEAN
      BY <1>6, Zenon DEF Check
    <3> QED
      BY <1>a, <1>6, <3>1 DEF TaskTyped, Check, world
  <2>2. "check" \in Tools /\ Run("check", TRUE)
    BY <1>6 DEF Check, Tools
  <2> QED
    BY <2>1, <2>2, RunTypeInv
<1>7. ASSUME NEW named \in SUBSET File, UpdatePlan(named)
      PROVE  TypeInv'
  <2>1. TaskTyped
    BY <1>a, <1>7 DEF TaskTyped, UpdatePlan, world
  <2>2. "plan" \in Tools /\ Run("plan", TRUE)
    BY <1>7 DEF UpdatePlan, Tools
  <2> QED
    BY <2>1, <2>2, RunTypeInv
<1>8. ASSUME NEW n \in 1..MaxIterations, Pursue(n)
      PROVE  TypeInv'
  <2>1. {[used |-> 0, max |-> n]} \in Optional(Goal)
    BY TurnAssumption DEF Optional, Goal
  <2>2. TaskTyped
    BY <1>a, <1>8, <2>1 DEF TaskTyped, Pursue, world
  <2>3. "pursue" \in Tools /\ Run("pursue", TRUE)
    BY <1>8 DEF Pursue, Tools
  <2> QED
    BY <2>2, <2>3, RunTypeInv
<1>9. ASSUME NEW named \in SUBSET File, NEW approved \in BOOLEAN,
             Propose(named, approved)
      PROVE  TypeInv'
  <2>1. {[items |-> named, approved |-> approved]} \in Optional(Manifest)
    BY DEF Optional, Manifest
  <2>2. TaskTyped
    BY <1>a, <1>9, <2>1 DEF TaskTyped, Propose, world
  <2>3. "propose" \in Tools /\ Run("propose", approved)
    BY <1>9 DEF Propose, Tools
  <2> QED
    BY <2>2, <2>3, RunTypeInv
<1>10. ASSUME NEW items \in SUBSET Item, NEW approved \in BOOLEAN,
              WriteSpec(items, approved)
       PROVE  TypeInv'
  <2>1. {[unmet |-> items, approved |-> approved]} \in Optional(Contract)
    BY DEF Optional, Contract
  <2>2. promised' \subseteq Item
    BY <1>a, <1>10 DEF WriteSpec
  <2>3. TaskTyped
    BY <1>a, <1>10, <2>1, <2>2 DEF TaskTyped, WriteSpec, world
  <2>4. "spec" \in Tools /\ Run("spec", approved)
    BY <1>10 DEF WriteSpec, Tools
  <2> QED
    BY <2>3, <2>4, RunTypeInv
<1>11. ASSUME NEW item \in Item, MarkDone(item)
       PROVE  TypeInv'
  <2>1. PICK s \in Contract : spec = {s}
    BY <1>a, <1>11 DEF MarkDone, Optional
  <2>2. [s EXCEPT !.unmet = @ \ {item}] \in Contract
    BY DEF Contract
  <2>3. spec' = {[s EXCEPT !.unmet = @ \ {item}]}
    BY <1>11, <2>1 DEF MarkDone
  <2>4. spec' \in Optional(Contract)
    BY <2>2, <2>3, Zenon DEF Optional
  <2>5. promised' \subseteq Item
    BY <1>a, <1>11 DEF MarkDone
  <2>6. TaskTyped
    BY <1>a, <1>11, <2>4, <2>5 DEF TaskTyped, MarkDone, world
  <2>7. "mark" \in Tools /\ Run("mark", TRUE)
    BY <1>11 DEF MarkDone, Tools
  <2> QED
    BY <2>6, <2>7, RunTypeInv
<1> QED
  BY <1>1, <1>2, <1>3, <1>4, <1>5, <1>6, <1>7, <1>8, <1>9, <1>10, <1>11 DEF Call

LEMMA TypeInit == Init => TypeInv
<1> SUFFICES ASSUME Init
             PROVE  TypeInv
  OBVIOUS
<1>1. ControlOK /\ StepOK
  BY TurnAssumption DEF Init, ControlOK, StepOK, Places, Bounded
<1>2. DataOK
  BY DEF Init, DataOK, Optional, Answers, Delivered
<1>3. CallOK
  BY TurnAssumption DEF Init, CallOK
<1>4. TruthOK
  BY Zenon DEF Init, TruthOK
<1> QED
  BY <1>1, <1>2, <1>3, <1>4 DEF TypeInv, TypeOK

LEMMA TypeStep == TypeInv /\ [Next]_vars => TypeInv'
<1> SUFFICES ASSUME TypeInv, [Next]_vars
             PROVE  TypeInv'
  OBVIOUS
<1>1. CASE Next
  BY <1>1, StartTurnType, RaiseType, PrintedType, BrokenType, NudgedType,
     AnswerType, ActType, SynthesizeType, CallType, CallsDoneType,
     NarrationGuardType, StallGuardType, CompletionGateType, TouchedGateType,
     GoalGateType, AcceptanceGateType, GroundingGateType, OutsideType, Zenon
     DEF Next, InTurn, Gate
<1>2. CASE UNCHANGED vars
  <2>1. /\ UNCHANGED <<pc, step, used, records, terminated, exists, sound, stirred, plan>>
        /\ UNCHANGED <<ledger, manifest, goal, spec, answer, original, calls, seen>>
        /\ UNCHANGED <<denials, narrations, stalls, done, promised>>
        /\ UNCHANGED <<verified, checked, acted, quiet, noop, progress, reviewed>>
    BY <1>2 DEF vars, world, task, text, act, guards, ghosts
  <2>2. ControlOK' /\ StepOK'
    BY <2>1 DEF TypeInv, TypeOK, ControlOK, StepOK
  <2>3. DataOK' /\ CallOK' /\ TruthOK'
    BY <2>1 DEF TypeInv, TypeOK, DataOK, CallOK, TruthOK
  <2> QED
    BY <2>2, <2>3 DEF TypeInv, TypeOK
<1> QED
  BY <1>1, <1>2

LEMMA TypeInvariant == Spec => []TypeInv
BY TypeInit, TypeStep, PTL DEF Spec

\* Every variable of the turn keeps its type, and the step counter its budget,
\* whatever the flags, the retries and the model's decisions.
THEOREM TypeCorrect == Spec => []TypeOK
<1>1. TypeInv => TypeOK
  BY DEF TypeInv
<1> QED
  BY <1>1, TypeInvariant, PTL

-----------------------------------------------------------------------------
(* FinalIsBacked.  The invariant behind it says, of each place in the      *)
(* chain of gates, what the gates before it have established: what they    *)
(* judged is as it was, but for the files stirred since.                   *)

Chain == {"touched", "goal", "acceptance", "grounding"}

SpecMet == On("acceptance") => \A s \in spec : s.approved => s.unmet = {}

\* What the completion gate has let through, and what the next one has.
PlanMet ==
  /\ On("completion") => Unbacked \subseteq stirred
  /\ On("manifest") => Unapplied = {}

EditsMet == On("touched") => Failing \subseteq stirred

AnswerMet ==
  \/ On("grounding") => answer \in Answers /\ ~Ungrounded(answer)
  \/ answer = "digest" /\ On("deliver_digest") /\ reviewed

Judged ==
  /\ pc \in Chain => PlanMet
  /\ pc \in {"goal", "acceptance", "grounding"} => EditsMet
  /\ pc \in {"acceptance", "grounding"} => goal = {}
  /\ pc = "grounding" => SpecMet

Acting == pc # "idle" => terminated = "none"

BackedInv == Judged /\ Acting /\ FinalIsBacked

\* Within a turn the answer in hand is one of the model's own.
Offered ==
  /\ pc # "idle" => answer \in Answers
  /\ original \in Answers \cup {"none"}

LEMMA OfferedStep == Offered /\ [Next]_vars => Offered'
<1> SUFFICES ASSUME Offered, [Next]_vars
             PROVE  Offered'
  OBVIOUS
<1>1. ASSUME UNCHANGED <<answer, original>>, pc' # "idle" => pc # "idle"
      PROVE  Offered'
  BY <1>1 DEF Offered
<1>2. CASE StartTurn
  BY <1>2 DEF StartTurn, Offered, Answers
<1>3. CASE Raise \/ Printed \/ Broken \/ Nudged \/ Act \/ Synthesize
  BY <1>1, <1>3 DEF Raise, Printed, Broken, Nudged, Act, Synthesize, Asking, text
<1>4. CASE Answer
  BY <1>4 DEF Answer, Asking, Offered
<1>5. CASE Call
  <2>1. ASSUME NEW tool, NEW allowed, NEW ok, Calling, Ran(tool, allowed, ok)
        PROVE  Offered'
    BY <1>1, <2>1 DEF Ran, Calling
  <2>2. ASSUME NEW tool, Denied(tool)
        PROVE  Offered'
    <3>1. CASE UNCHANGED text
      BY <1>1, <2>2, <3>1 DEF Denied, Calling, text
    <3>2. CASE Ran(tool, FALSE, FALSE)
      BY <2>1, <2>2, <3>2 DEF Denied
    <3> QED
      BY <2>2, <3>1, <3>2 DEF Denied
  <2>3. \/ \E tool, ok : Run(tool, ok)
        \/ \E tool : Denied(tool)
    BY <1>5 DEF Call, NoEffect, Write, Delete, Shell, Check, UpdatePlan, Pursue,
           Propose, WriteSpec, MarkDone
  <2> QED
    BY <2>1, <2>2, <2>3 DEF Run
<1>6. CASE CallsDone \/ NarrationGuard \/ StallGuard
  BY <1>1, <1>6 DEF CallsDone, NarrationGuard, StallGuard, text
<1>7. CASE CompletionGate \/ TouchedGate \/ GoalGate \/ AcceptanceGate
  BY <1>1, <1>7 DEF CompletionGate, TouchedGate, GoalGate, AcceptanceGate, text
<1>8. CASE GroundingGate
  BY <1>8 DEF GroundingGate, Reprompt, End, Offered
<1>9. CASE UNCHANGED vars \/ \E f \in File : Outside(f)
  BY <1>1, <1>9 DEF vars, text, Outside
<1> QED
  BY <1>2, <1>3, <1>4, <1>5, <1>6, <1>7, <1>8, <1>9 DEF Next, InTurn, Gate

LEMMA OfferedAlways == Spec => []Offered
<1>1. Init => Offered
  BY DEF Init, Offered, Answers
<1> QED
  BY <1>1, OfferedStep, PTL DEF Spec

LEMMA FinalIs ==
  FinalIsBacked <=>
    (terminated = "final" /\ "printed" \notin done =>
       PlanMet /\ EditsMet /\ goal = {} /\ SpecMet /\ AnswerMet)
BY DEF FinalIsBacked, PlanMet, EditsMet, SpecMet, AnswerMet

\* Outside the chain only the ending of the turn matters.
LEMMA OffChain ==
  ASSUME pc' \notin Chain,
         pc' # "idle" => terminated' = "none",
         terminated' = "final" => "printed" \in done'
  PROVE  BackedInv'
BY DEF BackedInv, Judged, Acting, FinalIsBacked, Chain

LEMMA BackedByEnd ==
  ASSUME NEW label, NEW logged, End(label, logged), label # "final"
  PROVE  BackedInv'
BY OffChain DEF End, Chain

LEMMA BackedByReprompt ==
  ASSUME Acting, pc # "idle", NEW gate, NEW label, label # "final",
         Reprompt(gate, label)
  PROVE  BackedInv'
BY OffChain, BackedByEnd DEF Reprompt, NextStep, Acting, Chain

\* Where what the gates judge is left alone, so is the judgement.
LEMMA Rejudged ==
  ASSUME UNCHANGED <<world, plan, ledger, manifest, spec>>
  PROVE  /\ Undone' = Undone /\ Failing' = Failing
         /\ PlanMet => PlanMet'
         /\ EditsMet => EditsMet'
         /\ SpecMet => SpecMet'
<1>1. Unbacked' = Unbacked
  BY DEF Unbacked, world
<1>2. Unapplied' = Unapplied
  BY DEF Unapplied
<1>3. Failing' = Failing
  BY DEF Failing, Touched, world
<1>4. stirred' = stirred
  BY DEF world
<1> QED
  BY <1>1, <1>2, <1>3, <1>4 DEF Undone, SpecMet, PlanMet, EditsMet

\* Where only the tree changes, what changes is stirred.
LEMMA Stirred ==
  ASSUME TypeInv, Stirs, UNCHANGED <<plan, ledger, manifest, spec>>
  PROVE  /\ PlanMet => PlanMet'
         /\ EditsMet => EditsMet'
         /\ SpecMet => SpecMet'
<1>1. stirred \subseteq stirred'
  BY DEF Stirs
<1>2. Unbacked' \subseteq Unbacked \cup stirred'
  <2> SUFFICES ASSUME NEW f \in Unbacked', f \notin stirred'
               PROVE  f \in Unbacked
    OBVIOUS
  <2>1. f \in plan /\ f \in File
    BY DEF Unbacked, TypeInv, TypeOK, DataOK
  <2>2. f \in exists <=> f \in exists'
    BY <2>1 DEF Stirs
  <2> QED
    BY <2>1, <2>2 DEF Unbacked
<1>3. Failing' \subseteq Failing \cup stirred'
  <2> SUFFICES ASSUME NEW f \in Failing', f \notin stirred'
               PROVE  f \in Failing
    OBVIOUS
  <2>1. f \in Touched \cap Runnable /\ f \in File
    BY TurnAssumption DEF Failing, Touched
  <2>2. f \in sound <=> f \in sound'
    BY <2>1 DEF Stirs
  <2> QED
    BY <2>1, <2>2 DEF Failing
<1>4. Unapplied' = Unapplied
  BY DEF Unapplied
<1> QED
  BY <1>1, <1>2, <1>3, <1>4 DEF SpecMet, PlanMet, EditsMet

LEMMA CallBacked == BackedInv /\ Call => BackedInv'
<1> SUFFICES ASSUME BackedInv, Call
             PROVE  BackedInv'
  OBVIOUS
<1>1. ASSUME NEW tool, NEW ok, Run(tool, ok)
      PROVE  BackedInv'
  BY <1>1, OffChain DEF Run, Ran, Calling, BackedInv, Acting, Chain
<1>2. ASSUME NEW tool, Denied(tool)
      PROVE  BackedInv'
  <2> DEFINE logged == records \cup {[type |-> "permission", ok |-> FALSE]}
  <2>1. CASE End("denial_loop", logged)
    BY <2>1, BackedByEnd
  <2>2. CASE Ran(tool, FALSE, FALSE)
    BY <1>2, <2>2, OffChain DEF Denied, Ran, Calling, BackedInv, Acting, Chain
  <2> QED
    BY <1>2, <2>1, <2>2 DEF Denied
<1>3. \/ \E tool, ok : Run(tool, ok)
      \/ \E tool : Denied(tool)
  BY DEF Call, NoEffect, Write, Delete, Shell, Check, UpdatePlan, Pursue,
         Propose, WriteSpec, MarkDone
<1> QED
  BY <1>1, <1>2, <1>3

LEMMA GateBacked == TypeInv /\ Offered /\ BackedInv /\ Gate => BackedInv'
<1> SUFFICES ASSUME TypeInv, Offered, BackedInv, Gate
             PROVE  BackedInv'
  OBVIOUS
<1>a. Acting /\ Judged
  BY DEF BackedInv
<1>1. CASE CompletionGate
  <2>1. CASE Undone = {} /\ Pass("touched")
    <3>1. PlanMet
      BY <2>1 DEF Undone, PlanMet
    <3>2. PlanMet'
      BY <1>1, <3>1, Rejudged DEF CompletionGate, task
    <3> QED
      BY <1>a, <1>1, <2>1, <3>2
         DEF CompletionGate, Pass, BackedInv, Judged, Acting, FinalIsBacked,
             Chain, text
  <2>2. CASE Reprompt("completion", "unverified_completion")
    BY <1>a, <1>1, <2>2, BackedByReprompt DEF CompletionGate
  <2> QED
    BY <1>1, <2>1, <2>2 DEF CompletionGate
<1>2. CASE TouchedGate
  <2>1. UNCHANGED <<world, plan, ledger, manifest, spec, answer>>
    BY <1>2 DEF TouchedGate, text
  <2>2. PlanMet' /\ Failing' = Failing
    BY <1>a, <1>2, <2>1, Rejudged DEF TouchedGate, Judged, Chain
  <2>3. CASE pc' = "goal" /\ (On("touched") => Failing = {}) /\ UNCHANGED terminated
    <3>1. EditsMet'
      BY <2>2, <2>3 DEF EditsMet
    <3> QED
      BY <1>a, <1>2, <2>1, <2>2, <2>3, <3>1
         DEF TouchedGate, BackedInv, Judged, Acting, FinalIsBacked, Chain
  <2>4. CASE Reprompt("touched", "verify_failed_edits")
    BY <1>a, <1>2, <2>4, BackedByReprompt DEF TouchedGate
  <2>5. CASE End("verify_failed_edits", records \cup CheckLog)
    BY <2>5, BackedByEnd
  <2> QED
    BY <1>2, <2>3, <2>4, <2>5 DEF TouchedGate, Pass
<1>3. CASE GoalGate
  <2>1. UNCHANGED <<plan, ledger, manifest, spec, answer>> /\ (Stirs \/ UNCHANGED world)
    BY <1>3 DEF GoalGate, RunBar, text
  <2>2. PlanMet' /\ EditsMet'
    BY <1>a, <1>3, <2>1, Rejudged, Stirred DEF GoalGate, Judged, Chain
  <2>3. CASE pc' = "acceptance" /\ goal' = {} /\ UNCHANGED terminated
    BY <1>a, <1>3, <2>1, <2>2, <2>3
       DEF GoalGate, BackedInv, Judged, Acting, FinalIsBacked, Chain
  <2>4. CASE NextStep /\ UNCHANGED terminated
    BY <1>a, <1>3, <2>4, OffChain DEF GoalGate, NextStep, Acting, Chain
  <2>5. ASSUME NEW logged, End("goal_unmet", logged)
        PROVE  BackedInv'
    BY <2>5, BackedByEnd
  <2> QED
    BY <1>3, <2>3, <2>4, <2>5 DEF GoalGate, Pass, BarRetried, BarResolved
<1>4. CASE AcceptanceGate
  <2>1. UNCHANGED <<world, plan, ledger, manifest, spec, goal, answer>>
    BY <1>4 DEF AcceptanceGate, task, text
  <2>2. PlanMet' /\ EditsMet' /\ goal' = {}
    BY <1>a, <1>4, <2>1, Rejudged DEF AcceptanceGate, Judged, Chain
  <2>3. CASE Reprompt("acceptance", "acceptance_unmet")
    BY <1>a, <1>4, <2>3, BackedByReprompt DEF AcceptanceGate
  <2>4. CASE Pass("grounding")
            /\ ~(On("acceptance") /\ (\E s \in spec : s.approved) /\ Unmet # {})
    <3>1. SpecMet
      BY <2>4 DEF SpecMet, Unmet
    <3> QED
      BY <1>a, <1>4, <2>1, <2>2, <2>4, <3>1, Rejudged
         DEF AcceptanceGate, Pass, BackedInv, Judged, Acting, FinalIsBacked, Chain
  <2> QED
    BY <1>4, <2>3, <2>4 DEF AcceptanceGate
<1>5. CASE GroundingGate
  <2>1. UNCHANGED <<world, plan, ledger, manifest, spec, goal, verified, reviewed>>
    BY <1>5 DEF GroundingGate, task
  <2>2. PlanMet' /\ EditsMet' /\ goal' = {} /\ SpecMet'
    BY <1>a, <1>5, <2>1, Rejudged DEF GroundingGate, Judged, Chain
  <2>3. CASE Reprompt("grounding", "ungrounded_completion")
    BY <1>a, <1>5, <2>3, BackedByReprompt DEF GroundingGate
  <2>4. CASE /\ End("final", records)
             /\ ~(On("grounding") /\ Ungrounded(answer))
             /\ answer' \in {answer} \cup
                  {a \in {original} : a # "none" /\ ~Ungrounded(a)} \cup
                  {a \in {"digest"} : On("deliver_digest") /\ reviewed}
    <3>1. answer \in Answers /\ original \in Answers \cup {"none"}
      BY <1>5 DEF Offered, GroundingGate
    <3>2. AnswerMet'
      BY <2>1, <2>4, <3>1 DEF AnswerMet, Ungrounded
    <3>3. FinalIsBacked'
      BY <2>2, <3>2, FinalIs DEF FinalIsBacked, PlanMet, EditsMet, SpecMet, AnswerMet
    <3> QED
      BY <2>4, <3>3 DEF End, BackedInv, Judged, Acting, Chain
  <2> QED
    BY <1>5, <2>3, <2>4 DEF GroundingGate
<1> QED
  BY <1>1, <1>2, <1>3, <1>4, <1>5 DEF Gate

LEMMA BackedStep == TypeInv /\ Offered /\ BackedInv /\ [Next]_vars => BackedInv'
<1> SUFFICES ASSUME TypeInv, Offered, BackedInv, [Next]_vars
             PROVE  BackedInv'
  OBVIOUS
<1>a. Acting
  BY DEF BackedInv
<1>1. CASE StartTurn
  BY <1>1, OffChain DEF StartTurn, Chain
<1>2. CASE Raise
  BY <1>2, OffChain DEF Raise, Chain
<1>3. CASE Printed
  BY <1>a, <1>3, OffChain DEF Printed, Asking, NextStep, End, Acting, Chain
<1>4. CASE Broken
  <2>1. PICK label : label # "final" /\ End(label, records)
    BY <1>4 DEF Broken
  <2> QED
    BY <2>1, BackedByEnd
<1>5. CASE Nudged
  BY <1>a, <1>5, OffChain DEF Nudged, Asking, NextStep, Acting, Chain
<1>6. CASE Answer
  BY <1>a, <1>6, OffChain DEF Answer, Asking, Pass, Acting, Chain
<1>7. CASE Act
  BY <1>a, <1>7, OffChain DEF Act, Asking, Acting, Chain
<1>8. CASE Synthesize
  BY <1>8, BackedByEnd DEF Synthesize
<1>9. CASE Call
  BY <1>9, CallBacked
<1>10. CASE CallsDone
  BY <1>a, <1>10, OffChain DEF CallsDone, Acting, Chain
<1>11. CASE NarrationGuard
  BY <1>a, <1>11, OffChain, BackedByReprompt DEF NarrationGuard, Pass, Acting, Chain
<1>12. CASE StallGuard
  BY <1>a, <1>12, OffChain, BackedByReprompt DEF StallGuard, NextStep, Acting, Chain
<1>13. CASE Gate
  BY <1>13, GateBacked
<1>14. CASE UNCHANGED vars \/ \E f \in File : Outside(f)
  <2>1. /\ UNCHANGED <<plan, ledger, manifest, spec>>
        /\ UNCHANGED <<pc, terminated, done, goal, answer, verified, reviewed>>
        /\ UNCHANGED world \/ Stirs
    BY <1>14 DEF vars, task, text, ghosts, Outside
  <2>2. (PlanMet => PlanMet') /\ (EditsMet => EditsMet') /\ (SpecMet => SpecMet')
    BY <2>1, Rejudged, Stirred
  <2>3. AnswerMet => AnswerMet'
    BY <2>1 DEF AnswerMet, Ungrounded
  <2>4. Judged'
    BY <2>1, <2>2 DEF BackedInv, Judged
  <2>5. FinalIsBacked'
    BY <2>1, <2>2, <2>3
       DEF BackedInv, FinalIsBacked, PlanMet, EditsMet, SpecMet, AnswerMet
  <2> QED
    BY <1>a, <2>1, <2>4, <2>5 DEF BackedInv, Acting
<1> QED
  BY <1>1, <1>2, <1>3, <1>4, <1>5, <1>6, <1>7, <1>8, <1>9, <1>10, <1>11, <1>12,
     <1>13, <1>14 DEF Next, InTurn

\* An answer accepted as final through the gates satisfies every gate that is
\* on when the turn ends, whatever was re-prompted and redone in between.
THEOREM FinalBacked == Spec => []FinalIsBacked
<1>1. Init => BackedInv
  BY DEF Init, BackedInv, Judged, Acting, FinalIsBacked, Chain
<1>2. BackedInv => FinalIsBacked
  BY DEF BackedInv
<1> QED
  BY <1>1, <1>2, TypeInvariant, OfferedAlways, BackedStep, PTL DEF Spec

-----------------------------------------------------------------------------
(* KeptIsDelivered.  What the filter sees in the records is tied to what   *)
(* the turn did: a denial is logged when it happens, the manifest and the  *)
(* spec when a turn returns, and an approved spec is the one last promised.*)

Denial == [type |-> "permission", ok |-> FALSE]

Promise ==
  /\ spec = {} => promised = {}
  /\ \A s \in spec : s.approved => promised = s.unmet

Logged ==
  /\ terminated \in Labels => Resolved \subseteq records
  /\ "denied" \in done => Denial \in records

KeptInv == Promise /\ Logged /\ Acting

LEMMA KeptImplied == TypeInv /\ KeptInv => KeptIsDelivered
<1> SUFFICES ASSUME TypeInv, KeptInv, Kept
             PROVE  /\ "denied" \notin done
                    /\ promised = {}
                    /\ \A m \in manifest :
                         m.approved /\ (On("manifest") => Unapplied = {})
  BY DEF KeptIsDelivered
<1>1. terminated = "final"
  BY DEF Kept, Outcome, TypeInv, TypeOK, ControlOK, Labels
<1>2. Resolved \subseteq records
  BY <1>1 DEF KeptInv, Logged, Labels
<1>3. "denied" \notin done
  <2>1. Denial \notin records
    BY DEF Kept, Denial
  <2> QED
    BY <2>1 DEF KeptInv, Logged
<1>4. ASSUME NEW m \in manifest
      PROVE  m.approved /\ (On("manifest") => Unapplied = {})
  <2> DEFINE b == m.approved /\ (On("manifest") => Unapplied = {})
  <2>1. [type |-> "manifest", ok |-> b] \in records
    BY <1>2, Zenon DEF Resolved
  <2> HIDE DEF b
  <2>2. b
    BY <2>1 DEF Kept
  <2> QED
    BY <2>2 DEF b
<1>5. ASSUME NEW s \in spec
      PROVE  s.approved /\ Unmet = {}
  <2> DEFINE b == s.approved /\ Unmet = {}
  <2>1. [type |-> "spec", ok |-> b] \in records
    BY <1>2, Zenon DEF Resolved
  <2> HIDE DEF b
  <2>2. b
    BY <2>1 DEF Kept
  <2> QED
    BY <2>2 DEF b
<1>6. promised = {}
  <2>1. CASE spec = {}
    BY <2>1 DEF KeptInv, Promise
  <2>2. ASSUME NEW s \in spec
        PROVE  promised = {}
    BY <1>5, <2>2 DEF KeptInv, Promise, Unmet
  <2> QED
    BY <2>1, <2>2
<1> QED
  BY <1>3, <1>4, <1>6

\* Steps that leave the consents alone and log nothing less than before.
LEMMA KeptBy ==
  ASSUME KeptInv, UNCHANGED <<manifest, spec, ledger, promised>>,
         records \subseteq records',
         "denied" \in done' => "denied" \in done,
         pc' # "idle" => terminated' = "none",
         terminated' \in Labels => Resolved \subseteq records'
  PROVE  KeptInv'
<1>1. Unapplied' = Unapplied /\ Unmet' = Unmet
  BY DEF Unapplied, Unmet
<1>2. Resolved' = Resolved
  BY <1>1 DEF Resolved
<1>3. Promise'
  BY DEF KeptInv, Promise
<1>4. Logged'
  BY <1>2 DEF KeptInv, Logged
<1> QED
  BY <1>3, <1>4 DEF KeptInv, Acting

LEMMA KeptByEnd ==
  ASSUME KeptInv, UNCHANGED <<manifest, spec, ledger, promised>>,
         "denied" \in done' => "denied" \in done,
         NEW label, NEW logged, records \subseteq logged, End(label, logged)
  PROVE  KeptInv'
BY KeptBy DEF End

LEMMA KeptByReprompt ==
  ASSUME KeptInv, UNCHANGED <<manifest, spec, ledger, promised, done>>,
         pc # "idle", NEW gate, NEW label, Reprompt(gate, label)
  PROVE  KeptInv'
<1>1. CASE NextStep /\ UNCHANGED <<records, terminated>>
  <2>1. terminated' = "none" /\ terminated' \notin Labels
    BY <1>1 DEF KeptInv, Acting, Labels
  <2> QED
    BY <1>1, <2>1, KeptBy
<1>2. CASE End(label, records)
  BY <1>2, KeptByEnd
<1> QED
  BY <1>1, <1>2 DEF Reprompt

\* Steps that go on with the turn.
LEMMA KeptByGoingOn ==
  ASSUME KeptInv, UNCHANGED <<manifest, spec, ledger, promised, done, terminated>>,
         pc # "idle", records \subseteq records'
  PROVE  KeptInv'
<1>1. terminated' = "none" /\ terminated' \notin Labels
  BY DEF KeptInv, Acting, Labels
<1> QED
  BY <1>1, KeptBy

LEMMA KeptByRun ==
  ASSUME KeptInv, NEW tool, tool # "denied", NEW ok, Run(tool, ok), Promise'
  PROVE  KeptInv'
<1>1. terminated' = "none" /\ terminated' \notin Labels /\ Acting'
  BY DEF Run, Ran, Calling, KeptInv, Acting, Labels
<1>2. ("denied" \in done' => "denied" \in done) /\ UNCHANGED records
  BY DEF Run
<1> QED
  BY <1>1, <1>2 DEF KeptInv, Logged

LEMMA CallKept == TypeInv /\ KeptInv /\ Call => KeptInv'
<1> SUFFICES ASSUME TypeInv, KeptInv, Call
             PROVE  KeptInv'
  OBVIOUS
<1>a. Promise
  BY DEF KeptInv
<1>1. ASSUME NEW tool \in Prints \cup {"read", "review"}, NoEffect(tool)
      PROVE  KeptInv'
  <2>1. tool # "denied" /\ \E ok : Run(tool, ok)
    BY <1>1 DEF NoEffect, Prints
  <2>2. Promise'
    BY <1>a, <1>1 DEF NoEffect, Promise, task
  <2> QED
    BY <2>1, <2>2, KeptByRun
<1>2. ASSUME NEW tool, Denied(tool)
      PROVE  KeptInv'
  <2> DEFINE logged == records \cup {[type |-> "permission", ok |-> FALSE]}
  <2>1. Denial \in logged /\ records \subseteq logged
    BY DEF Denial
  <2> HIDE DEF logged
  <2>2. UNCHANGED <<manifest, spec, ledger, promised>>
    BY <1>2 DEF Denied, task
  <2>3. Promise'
    BY <1>a, <2>2 DEF Promise
  <2>4. CASE End("denial_loop", logged)
    <3>1. Unapplied' = Unapplied /\ Unmet' = Unmet
      BY <2>2 DEF Unapplied, Unmet
    <3>2. Resolved' = Resolved
      BY <2>2, <3>1 DEF Resolved
    <3> QED
      BY <2>1, <2>3, <2>4, <3>2 DEF End, KeptInv, Logged, Acting
  <2>5. CASE Ran(tool, FALSE, FALSE) /\ records' = logged
    <3>1. terminated' = "none" /\ terminated' \notin Labels /\ Acting'
      BY <1>2, <2>5 DEF Denied, Ran, Calling, KeptInv, Acting, Labels
    <3> QED
      BY <2>1, <2>3, <2>5, <3>1 DEF KeptInv, Logged
  <2> QED
    BY <1>2, <2>4, <2>5 DEF Denied, logged
<1>3. ASSUME NEW f, Write(f) \/ Delete(f) \/ Shell(f)
      PROVE  KeptInv'
  <2>1. Run("write", TRUE) \/ Run("delete", TRUE) \/ Run("shell", TRUE)
    BY <1>3 DEF Write, Delete, Shell
  <2>2. Promise'
    BY <1>a, <1>3 DEF Write, Delete, Shell, Promise, task
  <2> QED
    BY <2>1, <2>2, KeptByRun
<1>4. ASSUME NEW named, NEW n, Check \/ UpdatePlan(named) \/ Pursue(n)
      PROVE  KeptInv'
  <2>1. Run("check", TRUE) \/ Run("plan", TRUE) \/ Run("pursue", TRUE)
    BY <1>4 DEF Check, UpdatePlan, Pursue
  <2>2. Promise'
    BY <1>a, <1>4 DEF Check, UpdatePlan, Pursue, Promise
  <2> QED
    BY <2>1, <2>2, KeptByRun
<1>5. ASSUME NEW named, NEW approved, Propose(named, approved)
      PROVE  KeptInv'
  <2>1. Promise'
    BY <1>a, <1>5 DEF Propose, Promise
  <2> QED
    BY <1>5, <2>1, KeptByRun DEF Propose
<1>6. ASSUME NEW items, NEW approved \in BOOLEAN, WriteSpec(items, approved)
      PROVE  KeptInv'
  <2>1. CASE approved
    <3>1. spec' = {[unmet |-> items, approved |-> TRUE]} /\ promised' = items
      BY <1>6, <2>1, Zenon DEF WriteSpec
    <3>2. spec' # {} /\ \A s \in spec' : s.unmet = items
      BY <3>1
    <3>3. Promise'
      BY <3>1, <3>2 DEF Promise
    <3> QED
      BY <1>6, <3>3, KeptByRun DEF WriteSpec
  <2>2. CASE ~approved
    <3>1. spec' = {[unmet |-> items, approved |-> FALSE]}
      BY <1>6, <2>2, Zenon DEF WriteSpec
    <3>2. spec' # {} /\ \A s \in spec' : ~s.approved
      BY <3>1
    <3>3. Promise'
      BY <3>2 DEF Promise
    <3> QED
      BY <1>6, <3>3, KeptByRun DEF WriteSpec
  <2> QED
    BY <2>1, <2>2
<1>7. ASSUME NEW item, MarkDone(item)
      PROVE  KeptInv'
  <2>1. PICK s \in Contract : spec = {s}
    BY <1>7 DEF MarkDone, TypeInv, TypeOK, DataOK, Optional
  <2>2. s.approved /\ promised = s.unmet
    BY <1>a, <1>7, <2>1 DEF MarkDone, Promise
  <2>3. spec' = {[s EXCEPT !.unmet = @ \ {item}]} /\ promised' = promised \ {item}
    BY <1>7, <2>1 DEF MarkDone
  <2>4. Promise'
    BY <2>2, <2>3 DEF Promise, Contract
  <2> QED
    BY <1>7, <2>4, KeptByRun DEF MarkDone
<1> QED
  BY <1>1, <1>2, <1>3, <1>4, <1>5, <1>6, <1>7 DEF Call

LEMMA KeptStep == TypeInv /\ KeptInv /\ [Next]_vars => KeptInv'
<1> SUFFICES ASSUME TypeInv, KeptInv, [Next]_vars
             PROVE  KeptInv'
  OBVIOUS
<1>1. CASE StartTurn
  <2>1. Promise' /\ Logged' /\ Acting'
    BY <1>1 DEF StartTurn, ResetTask, Promise, Logged, Acting, Labels
  <2> QED
    BY <2>1 DEF KeptInv
<1>2. CASE Raise
  <2>1. terminated' \notin Labels
    BY <1>2 DEF Raise, Labels
  <2> QED
    BY <1>2, <2>1, KeptBy DEF Raise, task, ghosts
<1>3. CASE Printed
  <2>1. UNCHANGED <<manifest, spec, ledger, promised>>
        /\ ("denied" \in done' => "denied" \in done)
    BY <1>3 DEF Printed, task
  <2>2. CASE End("final", records)
    BY <2>1, <2>2, KeptByEnd
  <2>3. CASE NextStep /\ UNCHANGED <<records, terminated, done>>
    BY <1>3, <2>1, <2>3, KeptByGoingOn DEF Printed, Asking
  <2> QED
    BY <1>3, <2>2, <2>3 DEF Printed
<1>4. CASE Broken
  <2>1. PICK label : End(label, records)
    BY <1>4 DEF Broken
  <2> QED
    BY <1>4, <2>1, KeptByEnd DEF Broken, task, ghosts
<1>5. CASE Nudged
  BY <1>5, KeptByGoingOn DEF Nudged, Asking, task, ghosts
<1>6. CASE Answer
  BY <1>6, KeptByGoingOn DEF Answer, Asking, Pass, task, ghosts
<1>7. CASE Act
  BY <1>7, KeptByGoingOn DEF Act, Asking, task, ghosts
<1>8. CASE Synthesize
  BY <1>8, KeptByEnd DEF Synthesize, task, ghosts
<1>9. CASE Call
  BY <1>9, CallKept
<1>10. CASE CallsDone
  BY <1>10, KeptByGoingOn DEF CallsDone, task
<1>11. CASE NarrationGuard
  <2>1. UNCHANGED <<manifest, spec, ledger, promised, done>> /\ pc # "idle"
    BY <1>11 DEF NarrationGuard, task, ghosts
  <2>2. CASE Reprompt("narration", "narration_stall")
    BY <2>1, <2>2, KeptByReprompt
  <2>3. CASE Pass("stall")
    BY <2>1, <2>3, KeptByGoingOn DEF Pass
  <2> QED
    BY <1>11, <2>2, <2>3 DEF NarrationGuard
<1>12. CASE StallGuard
  <2>1. UNCHANGED <<manifest, spec, ledger, promised, done>> /\ pc # "idle"
    BY <1>12 DEF StallGuard, task, ghosts
  <2>2. CASE Reprompt("stall", "stall")
    BY <2>1, <2>2, KeptByReprompt
  <2>3. CASE NextStep /\ UNCHANGED <<records, terminated>>
    BY <2>1, <2>3, KeptByGoingOn
  <2> QED
    BY <1>12, <2>2, <2>3 DEF StallGuard
<1>13. CASE Gate
  <2>1. UNCHANGED <<manifest, spec, ledger, promised, done>> /\ pc # "idle"
    BY <1>13 DEF Gate, CompletionGate, TouchedGate, GoalGate, AcceptanceGate,
                 GroundingGate, task, ghosts
  <2>2. ASSUME NEW gate, NEW label, Reprompt(gate, label)
        PROVE  KeptInv'
    BY <2>1, <2>2, KeptByReprompt
  <2>3. ASSUME NEW label, NEW logged, records \subseteq logged, End(label, logged)
        PROVE  KeptInv'
    BY <2>1, <2>3, KeptByEnd
  <2>4. CASE records \subseteq records' /\ UNCHANGED terminated
    BY <2>1, <2>4, KeptByGoingOn
  <2>5. \/ \E gate, label : Reprompt(gate, label)
        \/ \E label, logged : records \subseteq logged /\ End(label, logged)
        \/ records \subseteq records' /\ UNCHANGED terminated
    <3>1. CASE CompletionGate
      BY <3>1 DEF CompletionGate, Pass
    <3>2. CASE TouchedGate
      BY <3>2 DEF TouchedGate, Pass
    <3>3. CASE GoalGate
      <4>1. CASE Pass("acceptance")
        BY <4>1 DEF Pass
      <4>2. ASSUME NEW g, BarRetried(g)
            PROVE  records \subseteq records' /\ UNCHANGED terminated
        BY <4>2 DEF BarRetried
      <4>3. ASSUME NEW passed, BarResolved(passed)
            PROVE  \/ \E label, logged : records \subseteq logged /\ End(label, logged)
                   \/ records \subseteq records' /\ UNCHANGED terminated
        <5> DEFINE logged == records \cup {[type |-> "verification", ok |-> passed]}
        <5>1. records \subseteq logged
          OBVIOUS
        <5> HIDE DEF logged
        <5> QED
          BY <4>3, <5>1 DEF BarResolved, logged
      <4> QED
        BY <3>3, <4>1, <4>2, <4>3 DEF GoalGate
    <3>4. CASE AcceptanceGate
      BY <3>4 DEF AcceptanceGate, Pass
    <3>5. CASE GroundingGate
      BY <3>5 DEF GroundingGate
    <3> QED
      BY <1>13, <3>1, <3>2, <3>3, <3>4, <3>5 DEF Gate
  <2> QED
    BY <2>2, <2>3, <2>4, <2>5
<1>14. CASE UNCHANGED vars \/ \E f \in File : Outside(f)
  <2>1. /\ UNCHANGED <<manifest, spec, ledger, promised, done>>
        /\ UNCHANGED <<records, pc, terminated>>
    BY <1>14 DEF vars, task, ghosts, Outside
  <2> QED
    BY <2>1, KeptBy DEF KeptInv, Logged, Acting
<1> QED
  BY <1>1, <1>2, <1>3, <1>4, <1>5, <1>6, <1>7, <1>8, <1>9, <1>10, <1>11, <1>12,
     <1>13, <1>14 DEF Next, InTurn

\* A turn the training filter keeps has delivered what the user approved in
\* it and tried nothing that was denied, whichever way it ended.
THEOREM KeptDelivered == Spec => []KeptIsDelivered
<1>1. Init => KeptInv
  BY DEF Init, KeptInv, Promise, Logged, Acting, Labels
<1> QED
  BY <1>1, TypeInvariant, KeptStep, KeptImplied, PTL DEF Spec
-----------------------------------------------------------------------------
(* The evidence of a check.  Three steps touch it: a new turn drops it, a  *)
(* check that ran gives it, and so do the two gates that run verifiers.    *)

Evidence == <<verified, checked>>

LEMMA TouchedEvidence ==
  ASSUME TypeInv, VerifiedByACheck, TouchedGate
  PROVE  VerifiedByACheck'
<1>1. CASE UNCHANGED Evidence
  BY <1>1 DEF VerifiedByACheck, Evidence
<1>2. CASE /\ verified' = (verified \/ Touched # {})
           /\ checked' = (checked \/ Touched \cap Runnable # {})
  <2>1. Verifiable \subseteq Runnable => Touched \cap Runnable = Touched
    BY DEF Touched
  <2> QED
    BY <1>2, <2>1 DEF VerifiedByACheck
<1> QED
  BY <1>1, <1>2 DEF TouchedGate, Evidence

LEMMA CallEvidence ==
  ASSUME VerifiedByACheck, Call
  PROVE  VerifiedByACheck'
<1>1. CASE UNCHANGED Evidence
  BY <1>1 DEF VerifiedByACheck, Evidence
<1>2. CASE Check
  BY <1>2 DEF Check, VerifiedByACheck
<1>3. ASSUME NEW tool, NoEffect(tool) \/ Denied(tool) PROVE UNCHANGED Evidence
  BY <1>3 DEF NoEffect, Denied, task, Evidence
<1>4. ASSUME NEW f \in File, Write(f) \/ Delete(f) \/ Shell(f) PROVE UNCHANGED Evidence
  BY <1>4 DEF Write, Delete, Shell, task, Evidence
<1>5. ASSUME NEW named, UpdatePlan(named) PROVE UNCHANGED Evidence
  BY <1>5 DEF UpdatePlan, Evidence
<1>6. ASSUME NEW n, Pursue(n) PROVE UNCHANGED Evidence
  BY <1>6 DEF Pursue, Evidence
<1>7. ASSUME NEW named, NEW approved, Propose(named, approved) PROVE UNCHANGED Evidence
  BY <1>7 DEF Propose, Evidence
<1>8. ASSUME NEW items, NEW approved, WriteSpec(items, approved) PROVE UNCHANGED Evidence
  BY <1>8 DEF WriteSpec, Evidence
<1>9. ASSUME NEW item, MarkDone(item) PROVE UNCHANGED Evidence
  BY <1>9 DEF MarkDone, Evidence
<1> QED
  BY <1>1, <1>2, <1>3, <1>4, <1>5, <1>6, <1>7, <1>8, <1>9 DEF Call

LEMMA EvidenceStep ==
  ASSUME TypeInv, VerifiedByACheck, [Next]_vars
  PROVE  VerifiedByACheck'
<1>1. CASE UNCHANGED Evidence
  BY <1>1 DEF VerifiedByACheck, Evidence
<1>2. CASE StartTurn
  BY <1>2 DEF StartTurn, ResetTask, VerifiedByACheck
<1>3. CASE Call
  BY <1>3, CallEvidence
<1>4. CASE TouchedGate
  BY <1>4, TouchedEvidence
<1>5. CASE GoalGate
  BY <1>5 DEF GoalGate, BarRetried, BarResolved, VerifiedByACheck
<1>6. CASE Raise \/ Printed \/ Broken \/ Nudged \/ Answer \/ Act \/ Synthesize
  BY <1>1, <1>6 DEF Raise, Printed, Broken, Nudged, Answer, Act, Synthesize, task, ghosts, Evidence
<1>7. CASE CallsDone \/ NarrationGuard \/ StallGuard
  BY <1>1, <1>7 DEF CallsDone, NarrationGuard, StallGuard, task, ghosts, Evidence
<1>8. CASE CompletionGate \/ AcceptanceGate \/ GroundingGate
  BY <1>1, <1>8 DEF CompletionGate, AcceptanceGate, GroundingGate, task, ghosts, Evidence
<1>9. CASE UNCHANGED vars \/ \E f \in File : Outside(f)
  BY <1>1, <1>9 DEF vars, task, ghosts, Outside, Evidence
<1> QED
  BY <1>2, <1>3, <1>4, <1>5, <1>6, <1>7, <1>8, <1>9 DEF Next, InTurn, Gate

\* Where every verifier is installed, the evidence that backs a claim of
\* success is a check that ran and passed in this turn (_verified_ok).
THEOREM EvidenceIsOfThisTurn == Spec => []VerifiedByACheck
<1>1. Init => VerifiedByACheck
  BY DEF Init, VerifiedByACheck
<1>2. TypeInv /\ VerifiedByACheck /\ [Next]_vars => VerifiedByACheck'
  BY EvidenceStep
<1> QED
  BY <1>1, <1>2, TypeInvariant, PTL DEF Spec

-----------------------------------------------------------------------------
(***************************************************************************)
(* Tools: spawns.  Contained speaks of a spawn that is over.  What carries  *)
(* it is what a spawn holds at every place of its way: which handles are   *)
(* open, whether its process was born, and whether a job holds what it      *)
(* started.                                                                *)
(***************************************************************************)

\* A spawn, and the places of its two ways.
Stops == {"token", "job", "pipe", "create", "assign", "resume", "read", "wait", "drain", "close",
           "popen", "talk", "kill", "reap", "ended"}
Outs == {"none", "unavailable", "refused", "ran", "timeout", "error", "broken", "interrupted"}
Proc == [via : Vias, at : Stops, held : SUBSET Handles, kid : {"none", "held", "runs", "over"},
         heir : BOOLEAN, caged : BOOLEAN, timed : BOOLEAN, out : Outs]

Opened  == {"token", "job", "read", "write", "nul"}
Started == Opened \cup {"thread", "process"}

\* What a spawn holds at each place of the sandboxed way.
Unborn(p) == p.kid = "none" /\ ~p.heir /\ ~p.caged

Boxed(p) ==
  /\ p.via \in {"probe", "job"}
  /\ \/ p.at = "token" /\ p.held = {} /\ Unborn(p)
     \/ p.at = "job" /\ p.held = {"token"} /\ Unborn(p)
     \/ p.at = "pipe" /\ p.held = {"token", "job"} /\ Unborn(p)
     \/ p.at = "create" /\ p.held = Opened /\ Unborn(p)
     \/ p.at \in {"assign", "resume"} /\ p.held = Started /\ p.kid = "held" /\ ~p.heir
     \/ p.at \in {"read", "wait", "drain", "close"} /\ p.held \subseteq Started \ {"write", "nul"}

\* A plain spawn and a hook hold no handle.
Piped(p) ==
  /\ p.via \in {"plain", "hook"} /\ p.at \in {"popen", "talk", "kill", "reap"}
  /\ p.at = "popen" => p.kid = "none" /\ ~p.heir

\* What a spawn that is over has left behind.
Tidy(p) ==
  /\ p.out \in {"unavailable", "refused"} => p.held = {} /\ p.kid = "none"
  /\ p.out \in {"ran", "timeout"} /\ p.via \in {"probe", "job"} =>
       /\ p.held \subseteq {"read"}
       /\ p.held # {} => p.kid # "over" \/ p.heir
       /\ p.caged => p.kid = "over" /\ ~p.heir

Ended(p) == p \in Proc /\ p.at = "ended" /\ Tidy(p)

ProcInv == proc = Idle \/ (proc \in Proc /\ (Boxed(proc) \/ Piped(proc))) \/ Ended(proc)
LeftInv == left = Idle \/ Ended(left)
BoxInv  == host.windows /\ host.sandbox /\ host.required => ~(Busy /\ proc.via = "plain")

AvailInv == avail \in {"unknown", "yes", "no"}

ShellInv == AvailInv /\ ProcInv /\ LeftInv /\ BoxInv

LEMMA SpawnedIs ==
  ASSUME NEW via \in Vias, NEW at \in Stops
  PROVE  /\ Spawned(via, at) \in Proc
         /\ Spawned(via, at).via = via /\ Spawned(via, at).at = at
         /\ Spawned(via, at).held = {} /\ Spawned(via, at).kid = "none"
         /\ Spawned(via, at).out = "none"
         /\ ~Spawned(via, at).heir /\ ~Spawned(via, at).caged
<1>1. Spawned(via, at) \in Proc
  BY DEF Spawned, Proc, Outs
<1> QED
  BY <1>1 DEF Spawned

\* The ways a spawn begins.
LEMMA Begun ==
  /\ Spawned("probe", "token") \in Proc /\ Boxed(Spawned("probe", "token"))
  /\ Spawned("job", "token") \in Proc /\ Boxed(Spawned("job", "token"))
  /\ Spawned("plain", "popen") \in Proc /\ Piped(Spawned("plain", "popen"))
  /\ Spawned("hook", "popen") \in Proc /\ Piped(Spawned("hook", "popen"))
  /\ Ended([Spawned("job", "ended") EXCEPT !.out = "refused"])
  /\ [Spawned("job", "ended") EXCEPT !.out = "refused"].via = "job"
<1>1. {"probe", "job", "plain", "hook"} = Vias /\ {"token", "popen", "ended"} \subseteq Stops
  BY DEF Vias, Stops
<1>2. ASSUME NEW via \in {"probe", "job"}
      PROVE  Spawned(via, "token") \in Proc /\ Boxed(Spawned(via, "token"))
  BY <1>1, <1>2, SpawnedIs DEF Boxed, Unborn
<1>3. ASSUME NEW via \in {"plain", "hook"}
      PROVE  Spawned(via, "popen") \in Proc /\ Piped(Spawned(via, "popen"))
  BY <1>1, <1>3, SpawnedIs DEF Piped
<1>4. Ended([Spawned("job", "ended") EXCEPT !.out = "refused"])
  <2> DEFINE s == Spawned("job", "ended")
  <2>1. s \in Proc /\ s.at = "ended" /\ s.held = {} /\ s.kid = "none"
        /\ ~s.heir /\ ~s.caged
    BY SpawnedIs DEF Vias, Stops
  <2> HIDE DEF s
  <2>2. [s EXCEPT !.out = "refused"] \in Proc
    BY <2>1 DEF Proc, Outs
  <2> DEFINE r == [s EXCEPT !.out = "refused"]
  <2>3. r \in Proc /\ r.at = "ended" /\ r.held = {} /\ r.kid = "none"
        /\ ~r.heir /\ ~r.caged
    BY <2>1, <2>2 DEF Proc
  <2> HIDE DEF r
  <2>4. Ended(r)
    BY <2>3 DEF Ended, Tidy
  <2> QED
    BY <2>4 DEF s, r
<1>5. [Spawned("job", "ended") EXCEPT !.out = "refused"].via = "job"
  BY DEF Spawned
<1> QED
  BY <1>2, <1>3, <1>4, <1>5

LEMMA BeginCommandKept ==
  ASSUME ShellInv, BeginCommand, host' = host
  PROVE  ShellInv'
<1>1. LeftInv' /\ AvailInv'
  BY DEF ShellInv, LeftInv, AvailInv, BeginCommand, Ended, Tidy
<1>2. ProcInv' /\ BoxInv'
  <2>1. CASE proc' = Spawned("probe", "token")
    BY <2>1, Begun DEF ProcInv, BoxInv, Boxed
  <2>2. CASE proc' = Spawned("job", "token")
    BY <2>2, Begun DEF ProcInv, BoxInv, Boxed
  <2>3. CASE proc' = [Spawned("job", "ended") EXCEPT !.out = "refused"]
    <3>1. Ended(proc') /\ proc'.via = "job"
      BY <2>3, Begun
    <3> QED
      BY <3>1 DEF ProcInv, BoxInv, Ended
  <2>4. CASE /\ proc' = Spawned("plain", "popen")
             /\ ~(host.windows /\ host.sandbox /\ host.required)
    BY <2>4, Begun DEF ProcInv, BoxInv
  <2> QED
    BY <2>1, <2>2, <2>3, <2>4 DEF BeginCommand
<1> QED
  BY <1>1, <1>2 DEF ShellInv

LEMMA BeginHookKept ==
  ASSUME ShellInv, BeginHook, host' = host
  PROVE  ShellInv'
<1>1. LeftInv' /\ AvailInv'
  BY DEF ShellInv, LeftInv, AvailInv, BeginHook, Ended, Tidy
<1>2. ProcInv'
  BY Begun DEF BeginHook, ProcInv
<1>3. BoxInv'
  BY DEF BeginHook, BoxInv, Spawned
<1> QED
  BY <1>1, <1>2, <1>3 DEF ShellInv


LEMMA UnderWay ==
  ASSUME ShellInv, Busy, proc.at # "ended"
  PROVE  proc \in Proc /\ (Boxed(proc) \/ Piped(proc))
BY DEF ShellInv, ProcInv, Ended, Busy, Idle

\* A step within a spawn.
LEMMA WithinKept ==
  ASSUME ShellInv, host' = host, Busy, proc.at # "ended",
         UNCHANGED <<avail, left>>, proc' \in Proc, proc'.via = proc.via, proc'.at # "ended",
         Boxed(proc') \/ Piped(proc')
  PROVE  ShellInv'
<1>1. LeftInv' /\ AvailInv'
  BY DEF ShellInv, LeftInv, AvailInv, Ended, Tidy
<1>2. ProcInv'
  BY DEF ProcInv
<1>3. BoxInv'
  BY DEF ShellInv, BoxInv
<1> QED
  BY <1>1, <1>2, <1>3 DEF ShellInv

\* A spawn that is over.
LEMMA DoneKept ==
  ASSUME ShellInv, host' = host, avail' \in {"unknown", "yes", "no"},
         proc' = left', Ended(proc'),
         proc'.via = "plain" => Busy /\ proc.via = "plain"
  PROVE  ShellInv'
BY DEF ShellInv, LeftInv, AvailInv, ProcInv, BoxInv, Ended, Tidy, Busy

\* What is over, when nothing was held back.
LEMMA EndedIs ==
  ASSUME NEW p \in Proc, NEW out \in Outs,
         Tidy([p EXCEPT !.at = "ended", !.out = out])
  PROVE  /\ Ended([p EXCEPT !.at = "ended", !.out = out])
         /\ [p EXCEPT !.at = "ended", !.out = out].via = p.via
<1>1. "ended" \in Stops
  BY DEF Stops
<1> QED
  BY <1>1 DEF Ended, Proc

LEMMA UnavailableKept ==
  ASSUME ShellInv, host' = host, avail' = avail, Busy, proc.at # "ended",
         Unavailable({}), proc.kid = "none"
  PROVE  ShellInv'
<1> DEFINE p == [proc EXCEPT !.held = {}]
           q == [p EXCEPT !.at = "ended", !.out = "unavailable"]
<1>1. proc \in Proc
  BY UnderWay
<1>2. p \in Proc /\ p.via = proc.via /\ p.kid = "none" /\ p.held = {}
  BY <1>1 DEF Proc
<1>3. proc' = q /\ left' = q
  BY DEF Unavailable, Done
<1> HIDE DEF p
<1>4. Tidy(q)
  BY <1>2 DEF Tidy, Proc
<1>5. "unavailable" \in Outs
  BY DEF Outs
<1>6. Ended(q) /\ q.via = p.via
  BY <1>2, <1>4, <1>5, EndedIs
<1> QED
  BY <1>2, <1>3, <1>6, DoneKept DEF ShellInv, AvailInv


\* The steps of the sandboxed way, one after another.
LEMMA OpeningKept ==
  ASSUME ShellInv, host' = host, Busy, OpenToken \/ MakeJob \/ MakePipe \/ CreateProcess
  PROVE  ShellInv'
<1>1. proc.at \in {"token", "job", "pipe", "create"}
  BY DEF OpenToken, MakeJob, MakePipe, CreateProcess
<1>2. proc \in Proc /\ Boxed(proc)
  BY <1>1, UnderWay DEF Piped
<1>3. Unborn(proc)
  BY <1>1, <1>2 DEF Boxed
<1>4. CASE Unavailable({})
  BY <1>1, <1>3, <1>4, UnavailableKept DEF OpenToken, MakeJob, MakePipe, CreateProcess, Unborn
<1>5. CASE OpenToken
  <2>1. CASE Unavailable({})
    BY <1>4, <2>1
  <2>2. CASE proc' = [proc EXCEPT !.at = "job", !.held = {"token"}] /\ UNCHANGED left
    <3>1. proc' \in Proc /\ proc'.via = proc.via /\ proc'.at = "job"
      BY <1>2, <2>2 DEF Proc, Stops, Handles
    <3>2. Boxed(proc')
      BY <1>2, <1>3, <2>2 DEF Boxed, Unborn, Proc
    <3> QED
      BY <1>1, <1>5, <2>2, <3>1, <3>2, WithinKept DEF OpenToken
  <2> QED
    BY <1>5, <2>1, <2>2 DEF OpenToken
<1>6. CASE MakeJob
  <2>0. proc.held = {"token"}
    BY <1>2, <1>6 DEF MakeJob, Boxed
  <2>1. CASE Unavailable(proc.held \ {"token"})
    <3>1. proc.held \ {"token"} = {}
      BY <2>0
    <3> QED
      BY <1>4, <2>1, <3>1
  <2>2. CASE proc' = [proc EXCEPT !.at = "pipe", !.held = @ \cup {"job"}] /\ UNCHANGED left
    <3>1. proc' \in Proc /\ proc'.via = proc.via /\ proc'.at = "pipe"
      BY <1>2, <2>2 DEF Proc, Stops, Handles
    <3>2. Boxed(proc')
      BY <1>2, <1>3, <2>0, <2>2 DEF Boxed, Unborn, Proc
    <3> QED
      BY <1>1, <1>6, <2>2, <3>1, <3>2, WithinKept DEF MakeJob
  <2> QED
    BY <1>6, <2>1, <2>2 DEF MakeJob
<1>7. CASE MakePipe
  <2>0. proc.held = {"token", "job"}
    BY <1>2, <1>7 DEF MakePipe, Boxed
  <2>1. CASE Unavailable(proc.held \ {"token", "job"})
    <3>1. proc.held \ {"token", "job"} = {}
      BY <2>0
    <3> QED
      BY <1>4, <2>1, <3>1
  <2>2. CASE /\ proc' = [proc EXCEPT !.at = "create", !.held = @ \cup {"read", "write", "nul"}]
             /\ UNCHANGED left
    <3>1. proc' \in Proc /\ proc'.via = proc.via /\ proc'.at = "create"
      BY <1>2, <2>2 DEF Proc, Stops, Handles
    <3>2. proc'.held = Opened
      BY <1>2, <2>0, <2>2 DEF Proc, Opened
    <3>3. Boxed(proc')
      BY <1>2, <1>3, <2>2, <3>2 DEF Boxed, Unborn, Proc
    <3> QED
      BY <1>1, <1>7, <2>2, <3>1, <3>3, WithinKept DEF MakePipe
  <2> QED
    BY <1>7, <2>1, <2>2 DEF MakePipe
<1>8. CASE CreateProcess
  <2>0. proc.held = Opened
    BY <1>2, <1>8 DEF CreateProcess, Boxed
  <2>1. CASE Unavailable(proc.held \ {"write", "read", "nul", "token", "job"})
    <3>1. proc.held \ {"write", "read", "nul", "token", "job"} = {}
      BY <2>0 DEF Opened
    <3> QED
      BY <1>4, <2>1, <3>1
  <2>2. CASE /\ proc' = [proc EXCEPT !.at = "assign", !.kid = "held",
                                     !.held = @ \cup {"thread", "process"}]
             /\ UNCHANGED left
    <3>1. proc' \in Proc /\ proc'.via = proc.via /\ proc'.at = "assign"
      BY <1>2, <2>2 DEF Proc, Stops, Handles
    <3>2. proc'.held = Started
      BY <1>2, <2>0, <2>2 DEF Proc, Started
    <3>3. Boxed(proc')
      BY <1>2, <1>3, <2>2, <3>2 DEF Boxed, Unborn, Proc
    <3> QED
      BY <1>1, <1>8, <2>2, <3>1, <3>3, WithinKept DEF CreateProcess
  <2> QED
    BY <1>8, <2>1, <2>2 DEF CreateProcess
<1> QED
  BY <1>5, <1>6, <1>7, <1>8

LEMMA RunningKept ==
  ASSUME ShellInv, host' = host, Busy,
         AssignToJob \/ Resume \/ OpenReader \/ (proc.via \in {"probe", "job"} /\ (WaitForKid \/ Drain))
  PROVE  ShellInv'
<1>1. proc.at \in {"assign", "resume", "read", "wait", "drain"} /\ avail' = avail
  BY DEF AssignToJob, Resume, OpenReader, WaitForKid, Drain
<1>2. proc \in Proc /\ Boxed(proc) /\ proc.via \in {"probe", "job"}
  BY <1>1, UnderWay DEF Piped, Boxed
<1>3. CASE AssignToJob
  <2>1. PICK ended \in BOOLEAN : proc' = [proc EXCEPT !.at = "resume", !.caged = ended]
    BY <1>3 DEF AssignToJob
  <2>2. proc' \in Proc /\ proc'.via = proc.via /\ proc'.at = "resume"
    BY <1>2, <2>1 DEF Proc, Stops
  <2>3. Boxed(proc')
    BY <1>2, <1>3, <2>1 DEF AssignToJob, Boxed, Proc
  <2> QED
    BY <1>1, <1>3, <2>2, <2>3, WithinKept DEF AssignToJob
<1>4. CASE Resume
  <2>1. PICK kid \in {"held", "runs"} :
          proc' = [proc EXCEPT !.at = "read", !.kid = kid, !.held = @ \ {"write", "nul"}]
    BY <1>4 DEF Resume
  <2>2. proc' \in Proc /\ proc'.via = proc.via /\ proc'.at = "read"
    BY <1>2, <2>1 DEF Proc, Stops
  <2>3. proc'.held \subseteq Started \ {"write", "nul"}
    BY <1>2, <1>4, <2>1 DEF Resume, Proc, Boxed
  <2>4. Boxed(proc')
    BY <1>2, <2>2, <2>3 DEF Boxed
  <2> QED
    BY <1>1, <1>4, <2>2, <2>4, WithinKept DEF Resume
<1>5. CASE OpenReader
  <2>1. CASE Step("wait") /\ UNCHANGED left
    <3>1. proc' \in Proc /\ proc'.via = proc.via /\ proc'.at = "wait" /\ proc'.held = proc.held
      BY <1>2, <2>1 DEF Step, Proc, Stops
    <3>2. Boxed(proc')
      BY <1>2, <1>5, <3>1 DEF OpenReader, Boxed
    <3> QED
      BY <1>1, <2>1, <3>1, <3>2, WithinKept
  <2>2. CASE Done(proc, "broken")
    <3> DEFINE q == [proc EXCEPT !.at = "ended", !.out = "broken"]
    <3>1. Tidy(q)
      BY <1>2 DEF Tidy, Proc
    <3>2. Ended(q) /\ q.via = proc.via
      BY <1>2, <3>1, EndedIs DEF Outs
    <3> QED
      BY <1>1, <1>2, <2>2, <3>2, DoneKept DEF Done, ShellInv, AvailInv
  <2> QED
    BY <1>5, <2>1, <2>2 DEF OpenReader
<1>6. CASE WaitForKid
  <2>1. proc' \in Proc /\ proc'.via = proc.via /\ proc'.at = "drain" /\ proc'.held = proc.held
    BY <1>2, <1>6 DEF WaitForKid, Step, Proc, Stops
  <2>2. Boxed(proc')
    BY <1>2, <1>6, <2>1 DEF WaitForKid, Boxed
  <2> QED
    BY <1>1, <1>6, <2>1, <2>2, WithinKept DEF WaitForKid
<1>7. CASE Drain
  <2>1. /\ proc' \in Proc /\ proc'.via = proc.via /\ proc'.at = "close"
        /\ proc'.held \subseteq proc.held
    BY <1>2, <1>7 DEF Drain, Proc, Stops
  <2>2. Boxed(proc')
    BY <1>2, <1>7, <2>1 DEF Drain, Boxed
  <2> QED
    BY <1>1, <1>7, <2>1, <2>2, WithinKept DEF Drain
<1> QED
  BY <1>3, <1>4, <1>5, <1>6, <1>7


LEMMA CloseAllKept ==
  ASSUME ShellInv, host' = host, Busy, CloseAll
  PROVE  ShellInv'
<1>1. proc \in Proc /\ Boxed(proc) /\ proc.at = "close"
  BY UnderWay DEF CloseAll, Piped
<1>2. proc.held \subseteq Started \ {"write", "nul"} /\ proc.via \in {"probe", "job"}
  BY <1>1 DEF Boxed
<1> DEFINE p == [proc EXCEPT !.held = @ \ {"thread", "process", "token", "job"},
                             !.kid = IF proc.caged THEN "over" ELSE @,
                             !.heir = @ /\ ~proc.caged]
           q == [p EXCEPT !.held = IF PipeEnded(p) THEN {} ELSE @]
           out == IF p.timed THEN "timeout" ELSE "ran"
<1>3. p \in Proc /\ p.via = proc.via /\ p.held \subseteq {"read"} /\ (p.caged => p.kid = "over" /\ ~p.heir)
  BY <1>1, <1>2 DEF Proc, Started, Opened
<1>4. Done(q, out) /\ avail' = avail
  BY DEF CloseAll
<1> HIDE DEF p
<1>5. q \in Proc /\ q.via = proc.via /\ q.held \subseteq {"read"} /\ (q.caged => q.kid = "over" /\ ~q.heir)
      /\ (q.held # {} => q.kid # "over" \/ q.heir)
  BY <1>3 DEF Proc, PipeEnded
<1>6. out \in Outs /\ out \in {"ran", "timeout"}
  BY DEF Outs
<1> HIDE DEF q, out
<1>7. Tidy([q EXCEPT !.at = "ended", !.out = out])
  BY <1>5, <1>6 DEF Tidy, Proc
<1>8. Ended([q EXCEPT !.at = "ended", !.out = out])
      /\ [q EXCEPT !.at = "ended", !.out = out].via = q.via
  BY <1>5, <1>6, <1>7, EndedIs
<1> QED
  BY <1>2, <1>4, <1>5, <1>8, DoneKept DEF Done, ShellInv, AvailInv

\* A spawn that takes the place of another one.
LEMMA InsteadKept ==
  ASSUME ShellInv, host' = host, avail' \in {"unknown", "yes", "no"}, left' = left,
         proc' \in Proc, Boxed(proc') \/ Piped(proc'),
         proc'.via = "plain" => ~(host.windows /\ host.sandbox /\ host.required)
  PROVE  ShellInv'
<1>1. LeftInv'
  BY DEF ShellInv, LeftInv, Ended, Tidy
<1>2. ProcInv' /\ BoxInv' /\ AvailInv'
  BY DEF ShellInv, ProcInv, BoxInv, AvailInv
<1> QED
  BY <1>1, <1>2 DEF ShellInv

LEMMA NoSandboxKept ==
  ASSUME ShellInv, host' = host, avail' \in {"unknown", "yes", "no"}, NoSandbox
  PROVE  ShellInv'
<1>1. CASE host.required /\ Done(Spawned("job", "token"), "refused")
  <2> DEFINE s == Spawned("job", "token")
             q == [s EXCEPT !.at = "ended", !.out = "refused"]
  <2>1. s \in Proc /\ s.via = "job" /\ s.held = {} /\ s.kid = "none"
    BY SpawnedIs DEF Vias, Stops
  <2>2. proc' = q /\ left' = q
    BY <1>1 DEF Done
  <2> HIDE DEF s
  <2>3. Tidy(q)
    BY <2>1 DEF Tidy, Proc
  <2>4. "refused" \in Outs
    BY DEF Outs
  <2>5. Ended(q) /\ q.via = s.via
    BY <2>1, <2>3, <2>4, EndedIs
  <2> QED
    BY <2>1, <2>2, <2>5, DoneKept
<1>2. CASE ~host.required /\ proc' = Spawned("plain", "popen") /\ UNCHANGED left
  BY <1>2, Begun, InsteadKept
<1> QED
  BY <1>1, <1>2 DEF NoSandbox

LEMMA AfterKept ==
  ASSUME ShellInv, host' = host, AfterProbe \/ AfterSpawn
  PROVE  ShellInv'
<1>1. CASE NoSandbox /\ avail' \in {"unknown", "yes", "no"}
  BY <1>1, NoSandboxKept
<1>2. CASE proc' = Spawned("job", "token") /\ UNCHANGED left /\ avail' = "yes"
  BY <1>2, Begun, InsteadKept DEF Boxed
<1>3. CASE AfterProbe
  BY <1>1, <1>2, <1>3 DEF AfterProbe
<1>4. CASE AfterSpawn
  BY <1>1, <1>4 DEF AfterSpawn, ShellInv, AvailInv
<1> QED
  BY <1>3, <1>4

\* A plain spawn or a hook that is over.
LEMMA LetGo ==
  ASSUME ShellInv, host' = host, avail' = avail, Busy, NEW p \in Proc, NEW out \in Outs,
         Done(p, out), p.via = proc.via,
         out = "interrupted" \/ (out \in {"ran", "error", "timeout"} /\ p.via \in {"plain", "hook"})
  PROVE  ShellInv'
<1> DEFINE q == [p EXCEPT !.at = "ended", !.out = out]
<1>1. Tidy(q)
  BY DEF Tidy, Proc
<1>2. Ended(q) /\ q.via = p.via
  BY <1>1, EndedIs
<1> QED
  BY <1>2, DoneKept DEF Done, ShellInv, AvailInv

LEMMA PlainKept ==
  ASSUME ShellInv, host' = host, Busy, PlainStep
  PROVE  ShellInv'
<1>1. proc \in Proc /\ Piped(proc)
  BY UnderWay DEF PlainStep, Popen, Communicate, KillKid, ReapKid, KillTree, Boxed
<1>2. /\ proc.via \in {"plain", "hook"}
      /\ proc.at \in {"popen", "talk", "kill", "reap"} /\ avail' = avail
      /\ {"error", "ran", "timeout"} \subseteq Outs
  BY <1>1 DEF Piped, PlainStep, Popen, Communicate, KillKid, ReapKid, KillTree, Outs
<1>3. CASE Popen
  <2>1. CASE proc' = [proc EXCEPT !.at = "talk", !.kid = "runs"] /\ UNCHANGED left
    <3>1. proc' \in Proc /\ proc'.via = proc.via /\ proc'.at = "talk" /\ Piped(proc')
      BY <1>1, <1>2, <2>1 DEF Proc, Stops, Piped
    <3> QED
      BY <1>2, <2>1, <3>1, WithinKept
  <2>2. CASE Done(proc, "error")
    BY <1>1, <1>2, <2>2, LetGo
  <2> QED
    BY <1>3, <2>1, <2>2 DEF Popen
<1>4. CASE Communicate
  <2>1. CASE proc' = [proc EXCEPT !.at = "kill", !.timed = TRUE] /\ UNCHANGED left
    <3>1. proc' \in Proc /\ proc'.via = proc.via /\ proc'.at = "kill" /\ Piped(proc')
      BY <1>1, <1>2, <2>1 DEF Proc, Stops, Piped
    <3> QED
      BY <1>2, <2>1, <3>1, WithinKept
  <2>2. CASE Done(proc, "ran")
    BY <1>1, <1>2, <2>2, LetGo
  <2> QED
    BY <1>4, <2>1, <2>2 DEF Communicate
<1>5. CASE KillKid
  <2> DEFINE p == [proc EXCEPT !.kid = "over"]
  <2>1. p \in Proc /\ p.via = proc.via
    BY <1>1, <1>2 DEF Proc
  <2>2. CASE proc' = [p EXCEPT !.at = "reap"] /\ UNCHANGED left
    <3> HIDE DEF p
    <3>1. proc' \in Proc /\ proc'.via = proc.via /\ proc'.at = "reap" /\ Piped(proc')
      BY <1>2, <2>1, <2>2 DEF Proc, Stops, Piped
    <3> QED
      BY <1>2, <2>2, <3>1, WithinKept
  <2>3. CASE Done(p, "timeout")
    <3> HIDE DEF p
    <3> QED
      BY <1>2, <2>1, <2>3, LetGo
  <2> QED
    BY <1>5, <2>2, <2>3 DEF KillKid
<1>6. CASE ReapKid
  BY <1>1, <1>2, <1>6, LetGo DEF ReapKid
<1>7. CASE KillTree
  <2>1. PICK kid \in {proc.kid, "over"}, heir \in {proc.heir, FALSE} :
          Done([proc EXCEPT !.kid = kid, !.heir = heir], "timeout")
    BY <1>7 DEF KillTree
  <2> DEFINE p == [proc EXCEPT !.kid = kid, !.heir = heir]
  <2>2. p \in Proc /\ p.via = proc.via
    BY <1>1, <1>2 DEF Proc
  <2>3. Done(p, "timeout")
    BY <2>1
  <2> HIDE DEF p
  <2> QED
    BY <1>2, <2>2, <2>3, LetGo
<1> QED
  BY <1>3, <1>4, <1>5, <1>6, <1>7 DEF PlainStep

LEMMA InterruptKept ==
  ASSUME ShellInv, host' = host, Interrupt
  PROVE  ShellInv'
<1> DEFINE p == [proc EXCEPT !.kid = IF proc.via = "plain" THEN "over" ELSE @]
<1>1. Busy /\ proc \in Proc /\ avail' = avail /\ Done(p, "interrupted")
  BY UnderWay DEF Interrupt, Busy
<1>2. p \in Proc /\ p.via = proc.via
  BY <1>1 DEF Proc
<1>3. "interrupted" \in Outs
  BY DEF Outs
<1> HIDE DEF p
<1> QED
  BY <1>1, <1>2, <1>3, LetGo

LEMMA ProcessesKept ==
  ASSUME ShellInv, host' = host, Processes
  PROVE  ShellInv'
<1>1. /\ Busy /\ proc.at # "ended" /\ UNCHANGED <<avail, left>>
      /\ proc \in Proc /\ (Boxed(proc) \/ Piped(proc))
  BY UnderWay DEF Processes, KidStartsAnother, KidEnds, HeirEnds
<1>2. /\ proc' \in Proc /\ proc'.via = proc.via /\ proc'.at = proc.at /\ proc'.held = proc.held
      /\ proc'.caged = proc.caged
  BY <1>1 DEF Processes, KidStartsAnother, KidEnds, HeirEnds, Proc
<1>5. \/ proc.kid = "runs" /\ proc'.kid \in {"runs", "over"}
      \/ proc.heir /\ ~proc'.heir /\ proc'.kid = proc.kid
  <2>1. CASE KidStartsAnother
    BY <1>1, <2>1 DEF KidStartsAnother, Proc
  <2>2. CASE KidEnds
    BY <1>1, <2>2 DEF KidEnds, Proc
  <2>3. CASE HeirEnds
    BY <1>1, <2>3 DEF HeirEnds, Proc
  <2> QED
    BY <2>1, <2>2, <2>3 DEF Processes
<1>3. CASE Boxed(proc)
  <2>1. Boxed(proc')
    BY <1>2, <1>3, <1>5 DEF Boxed, Unborn
  <2> QED
    BY <1>1, <1>2, <2>1, WithinKept
<1>4. CASE Piped(proc)
  <2>1. Piped(proc')
    BY <1>2, <1>4, <1>5 DEF Piped
  <2> QED
    BY <1>1, <1>2, <2>1, WithinKept
<1> QED
  BY <1>1, <1>3, <1>4


\* The spawn that is over is put away.
LEMMA AwayKept ==
  ASSUME ShellInv, host' = host, proc' = Idle, UNCHANGED <<avail, left>>
  PROVE  ShellInv'
BY DEF ShellInv, LeftInv, AvailInv, ProcInv, BoxInv, Ended, Tidy, Busy, Idle

LEMMA StillKept ==
  ASSUME ShellInv, UNCHANGED shellVars
  PROVE  ShellInv'
BY DEF shellVars, ShellInv, LeftInv, AvailInv, ProcInv, BoxInv, Ended, Tidy, Busy, Boxed, Piped, Unborn

LEMMA ShellStepKept ==
  ASSUME ShellInv, host' = host, ShellStep
  PROVE  ShellInv'
<1>1. CASE AfterProbe \/ AfterSpawn
  BY <1>1, AfterKept
<1>2. CASE Busy /\ proc.at # "ended" /\ SandboxStep
  BY <1>2, OpeningKept, RunningKept, CloseAllKept DEF SandboxStep
<1>3. CASE Busy /\ proc.at # "ended" /\ PlainStep
  BY <1>3, PlainKept
<1> QED
  BY <1>1, <1>2, <1>3 DEF ShellStep

LEMMA OverKept ==
  ASSUME ShellInv, host' = host, Over
  PROVE  ShellInv'
BY BeginHookKept, AwayKept DEF Over, RunHooks

LEMMA ToolsKeepShell ==
  ASSUME ShellInv, [ToolsNext]_toolsVars
  PROVE  ShellInv'
<1>0. host' = host
  BY DEF ToolsNext, CallTool, OneStep, WriteFile, DeleteFile, EditFile, WebFetch, SearchTheWeb, CallServer,
         RunCommand, SpawnEnds, PreHookEnds, PostHookEnds, CommandEnds, InterruptCommand, SpawnStep,
         ProcessWrites, ProcessLives, Judge, CrossCheck, EndTurn, session, toolsVars, shellVars
<1>1. CASE Over
  BY <1>0, <1>1, OverKept
<1>2. CASE BeginHook
  BY <1>0, <1>2, BeginHookKept
<1>3. CASE proc' = Idle /\ UNCHANGED <<avail, left>>
  BY <1>0, <1>3, AwayKept
<1>4. CASE UNCHANGED <<proc, avail, left>>
  BY <1>0, <1>4, StillKept DEF shellVars
<1>5. CASE CallTool
  BY <1>2, <1>4, <1>5 DEF CallTool, RunHooks
<1>6. CASE WriteFile \/ DeleteFile \/ EditFile \/ WebFetch \/ SearchTheWeb \/ CallServer
  BY <1>1, <1>6 DEF WriteFile, DeleteFile, EditFile, WebFetch, SearchTheWeb, CallServer
<1>7. CASE RunCommand
  BY <1>0, <1>1, <1>7, BeginCommandKept DEF RunCommand
<1>8. CASE PreHookEnds
  BY <1>1, <1>2, <1>3, <1>8 DEF PreHookEnds, RunHooks
<1>9. CASE PostHookEnds
  BY <1>2, <1>3, <1>9 DEF PostHookEnds, RunHooks
<1>10. CASE CommandEnds
  BY <1>1, <1>10 DEF CommandEnds
<1>11. CASE InterruptCommand
  BY <1>0, <1>11, InterruptKept DEF InterruptCommand
<1>12. CASE SpawnStep
  BY <1>0, <1>12, ShellStepKept DEF SpawnStep
<1>13. CASE ProcessLives
  BY <1>0, <1>13, ProcessesKept DEF ProcessLives
<1>14. CASE ProcessWrites \/ Judge \/ CrossCheck \/ EndTurn \/ UNCHANGED toolsVars
  BY <1>4, <1>14 DEF ProcessWrites, Judge, CrossCheck, EndTurn, toolsVars, shellVars
<1> QED
  BY <1>5, <1>6, <1>7, <1>8, <1>9, <1>10, <1>11, <1>12, <1>13, <1>14 DEF ToolsNext, OneStep, SpawnEnds

LEMMA ToolsStartShell == ToolsInit => ShellInv
BY DEF ToolsInit, ShellInit, ShellInv, LeftInv, AvailInv, ProcInv, BoxInv, Busy, Idle

\* A sandboxed spawn that comes to its end leaves no handle but one that a
\* process outside its job holds open, the job leaves no process, a spawn that
\* was given up leaves nothing, and a command that has to be confined never runs
\* unconfined, whatever the system calls answer.
THEOREM SpawnsAreContained == ToolsSpec => []Contained
<1>1. ToolsInit => ShellInv
  BY ToolsStartShell
<1>2. ShellInv /\ [ToolsNext]_toolsVars => ShellInv'
  BY ToolsKeepShell
<1>3. ShellInv => Contained
  BY DEF ShellInv, LeftInv, BoxInv, Ended, Tidy, Contained, Idle
<1> QED
  BY <1>1, <1>2, <1>3, PTL DEF ToolsSpec

LEMMA NatInd ==
  ASSUME NEW A, 0 \in A, \A k \in Nat : k \in A => k + 1 \in A
  PROVE  Nat \subseteq A
<1> SUFFICES ASSUME Nat \ A # {} PROVE FALSE
  OBVIOUS
<1> DEFINE R == OpToRel(<, Nat)
<1>1. IsWellFoundedOn(R, Nat)
  BY NatLessThanWellFounded
<1>2. PICK m \in Nat \ A : \A y \in Nat \ A : ~(<<y, m>> \in R)
  <2> HIDE DEF R
  <2>1. Nat \ A \in SUBSET Nat
    OBVIOUS
  <2> QED
    BY <1>1, <2>1, WFMin
<1>3. \A y \in Nat \ A : ~(y < m)
  BY <1>2 DEF OpToRel
<1> HIDE DEF R
<1>4. m \in Nat /\ m \notin A /\ m # 0 /\ m - 1 \in Nat
  OBVIOUS
<1>5. m - 1 \in A
  BY <1>3, <1>4
<1>6. (m - 1) + 1 \in A
  BY <1>4, <1>5
<1> QED
  BY <1>4, <1>6

\* A ledger of pages, and how it grows.
Entry(S) == [url : S, tier : {"fetched", "surfaced"}]

Grows(f, g) ==
  /\ DOMAIN f \subseteq DOMAIN g
  /\ \A i \in DOMAIN f : g[i].url = f[i].url /\ (f[i].tier = "fetched" => g[i].tier = "fetched")

Full(f, page) == \E i \in DOMAIN f : f[i].url.page = page /\ f[i].tier = "fetched"

LEMMA GrowsOn ==
  ASSUME NEW f, NEW g, NEW h, Grows(f, g), Grows(g, h)
  PROVE  Grows(f, h)
BY DEF Grows

LEMMA GrowsKeeps ==
  ASSUME NEW f, NEW g, Grows(f, g)
  PROVE  /\ \A page : Full(f, page) => Full(g, page)
         /\ Ledgered(f) \subseteq Ledgered(g)
<1>1. ASSUME NEW page, Full(f, page) PROVE Full(g, page)
  BY <1>1 DEF Grows, Full
<1>2. ASSUME NEW i \in DOMAIN f PROVE f[i].url.page \in Ledgered(g)
  BY <1>2 DEF Grows, Ledgered
<1> QED
  BY <1>1, <1>2 DEF Ledgered

LEMMA EntryIs ==
  ASSUME NEW S, NEW r \in Entry(S), r.tier = "fetched"
  PROVE  r = [url |-> r.url, tier |-> "fetched"]
<1>1. r = [url |-> r.url, tier |-> r.tier]
  BY DEF Entry
<1> QED
  BY <1>1

\* One entry is put on the ledger, or changed.
LEMMA UpsertIs ==
  ASSUME NEW S, NEW f \in Seq(Entry(S)), NEW url \in S, NEW tier \in {"fetched", "surfaced"}
  PROVE  /\ Upsert(f, url, tier) \in Seq(Entry(S))
         /\ \E i \in DOMAIN Upsert(f, url, tier) : Upsert(f, url, tier)[i] = [url |-> url, tier |-> tier]
         /\ (tier = "fetched" \/ \A i \in DOMAIN f : f[i] # [url |-> url, tier |-> "fetched"])
              => Grows(f, Upsert(f, url, tier))
<1> DEFINE e == [url |-> url, tier |-> tier]
           g == Upsert(f, url, tier)
<1>1. e \in Entry(S) /\ e.url = url /\ e.tier = tier
  BY DEF Entry
<1>2. ASSUME NEW i \in DOMAIN f
      PROVE  /\ f[i] \in Entry(S) /\ f[i].tier \in {"fetched", "surfaced"}
             /\ f[i].tier = "fetched" => f[i] = [url |-> f[i].url, tier |-> "fetched"]
  <2>1. f[i] \in Entry(S)
    BY <1>2
  <2>2. f[i].tier \in {"fetched", "surfaced"}
    BY <2>1 DEF Entry
  <2>3. f[i].tier = "fetched" => f[i] = [url |-> f[i].url, tier |-> "fetched"]
    BY <2>1, EntryIs
  <2> QED
    BY <2>1, <2>2, <2>3
<1>3. CASE \E i \in DOMAIN f : f[i].url = url
  <2>1. g = [i \in DOMAIN f |-> IF f[i].url = url THEN e ELSE f[i]]
    BY <1>3 DEF Upsert
  <2>2. g \in Seq(Entry(S)) /\ DOMAIN g = DOMAIN f
    BY <1>1, <1>2, <2>1
  <2>3. \E i \in DOMAIN g : g[i] = e
    BY <1>3, <2>1
  <2>4. ASSUME tier = "fetched" \/ \A i \in DOMAIN f : f[i] # [url |-> url, tier |-> "fetched"],
               NEW i \in DOMAIN f
        PROVE  g[i].url = f[i].url /\ (f[i].tier = "fetched" => g[i].tier = "fetched")
    <3>1. CASE f[i].url # url
      BY <2>1, <3>1
    <3>2. CASE f[i].url = url
      <4>1. g[i] = e
        BY <2>1, <3>2
      <4>2. f[i].tier = "fetched" => tier = "fetched"
        BY <1>2, <2>4, <3>2
      <4> HIDE DEF e, g
      <4> QED
        BY <1>1, <3>2, <4>1, <4>2
    <3> QED
      BY <3>1, <3>2
  <2> HIDE DEF g, e
  <2> QED
    BY <2>2, <2>3, <2>4 DEF Grows, g, e
<1>4. CASE ~\E i \in DOMAIN f : f[i].url = url
  <2>1. g = Append(f, e)
    BY <1>4 DEF Upsert
  <2> HIDE DEF e
  <2>2. /\ g \in Seq(Entry(S)) /\ DOMAIN f \subseteq DOMAIN g
        /\ g[Len(f) + 1] = e /\ Len(f) + 1 \in DOMAIN g
        /\ \A i \in DOMAIN f : g[i] = f[i]
    BY <1>1, <2>1
  <2> HIDE DEF g
  <2>3. Grows(f, g)
    BY <2>2 DEF Grows
  <2> QED
    BY <2>2, <2>3 DEF g, e
<1> QED
  BY <1>3, <1>4

LEMMA RecordSurfacedGrows ==
  ASSUME NEW S, NEW f \in Seq(Entry(S)), NEW url \in S
  PROVE  RecordSurfaced(f, url) \in Seq(Entry(S)) /\ Grows(f, RecordSurfaced(f, url))
<1>1. CASE url = NoUrl \/ \E i \in DOMAIN f : f[i] = [url |-> url, tier |-> "fetched"]
  BY <1>1 DEF RecordSurfaced, Grows
<1>2. CASE ~(url = NoUrl \/ \E i \in DOMAIN f : f[i] = [url |-> url, tier |-> "fetched"])
  BY <1>2, UpsertIs DEF RecordSurfaced
<1> QED
  BY <1>1, <1>2

LEMMA RecordAllGrows ==
  ASSUME NEW S, NEW f \in Seq(Entry(S)), NEW urls \in Seq(S)
  PROVE  RecordAll(f, urls) \in Seq(Entry(S)) /\ Grows(f, RecordAll(f, urls))
<1> DEFINE Body(h, n) == IF n = 0 THEN f ELSE RecordSurfaced(h[n - 1], urls[n])
           N == Len(urls)
           Ledgers == Seq(Entry(S))
           A == {k \in Nat : k <= N =>
                   \E h \in [0 .. k -> Ledgers] : \A n \in 0 .. k : h[n] = Body(h, n)}
<1>1. N \in Nat /\ \A n \in 1 .. N : urls[n] \in S
  OBVIOUS
<1>2. 0 \in A
  <2> DEFINE h == [n \in 0 .. 0 |-> f]
  <2>1. h \in [0 .. 0 -> Ledgers] /\ \A n \in 0 .. 0 : h[n] = Body(h, n)
    OBVIOUS
  <2> HIDE DEF h, Body
  <2> QED
    BY <2>1
<1>3. ASSUME NEW k \in Nat, k \in A PROVE k + 1 \in A
  <2> SUFFICES ASSUME k + 1 <= N
               PROVE  \E h \in [0 .. k + 1 -> Ledgers] : \A n \in 0 .. k + 1 : h[n] = Body(h, n)
    <3> HIDE DEF Body, Ledgers
    <3> QED
      OBVIOUS
  <2>1. PICK h \in [0 .. k -> Ledgers] : \A n \in 0 .. k : h[n] = Body(h, n)
    <3>1. k <= N
      BY <1>1
    <3> HIDE DEF Body, Ledgers
    <3> QED
      BY <1>3, <3>1
  <2> DEFINE last == RecordSurfaced(h[k], urls[k + 1])
             g == [n \in 0 .. k + 1 |-> IF n = k + 1 THEN last ELSE h[n]]
  <2>2. last \in Ledgers
    <3>1. urls[k + 1] \in S /\ h[k] \in Ledgers
      BY <1>1
    <3> QED
      BY <3>1, RecordSurfacedGrows
  <2> HIDE DEF Ledgers
  <2>3. g \in [0 .. k + 1 -> Ledgers]
    <3>1. \A n \in 0 .. k + 1 : n = k + 1 \/ n \in 0 .. k
      OBVIOUS
    <3> HIDE DEF last
    <3> QED
      BY <2>2, <3>1
  <2>4. ASSUME NEW n \in 0 .. k + 1 PROVE g[n] = Body(g, n)
    <3>1. CASE n = k + 1
      <4>1. n # 0 /\ n - 1 = k /\ k \in 0 .. k + 1 /\ k # k + 1
        BY <3>1
      <4>2. g[n - 1] = h[k] /\ g[n] = RecordSurfaced(h[k], urls[n])
        BY <3>1, <4>1
      <4> HIDE DEF g
      <4> QED
        BY <4>1, <4>2
    <3>2. CASE n # k + 1
      <4>1. n \in 0 .. k /\ (n # 0 => n - 1 \in 0 .. k)
        BY <3>2
      <4>2. \A i \in 0 .. k : g[i] = h[i]
        OBVIOUS
      <4>3. h[n] = Body(h, n)
        BY <2>1, <4>1
      <4> HIDE DEF g
      <4> QED
        BY <4>1, <4>2, <4>3
    <3> QED
      BY <3>1, <3>2
  <2> HIDE DEF g, Body
  <2> QED
    BY <2>3, <2>4
<1>4. N \in A
  <2> HIDE DEF A
  <2> QED
    BY <1>1, <1>2, <1>3, NatInd
<1> DEFINE after == CHOOSE after : after = [n \in 0 .. N |-> Body(after, n)]
<1>5. PICK h \in [0 .. N -> Ledgers] : \A n \in 0 .. N : h[n] = Body(h, n)
  <2> HIDE DEF Ledgers, Body
  <2> QED
    BY <1>1, <1>4
<1>6. h = [n \in 0 .. N |-> Body(h, n)]
  <2> HIDE DEF Body
  <2>1. h = [n \in 0 .. N |-> h[n]]
    OBVIOUS
  <2> QED
    BY <1>5, <2>1
<1>7. after = [n \in 0 .. N |-> Body(after, n)]
  <2> HIDE DEF Body
  <2> QED
    BY <1>6
<1>8. RecordAll(f, urls) = after[N]
  BY DEF RecordAll
<1>9. ASSUME NEW g, g = [n \in 0 .. N |-> Body(g, n)]
      PROVE  g[N] \in Ledgers /\ Grows(f, g[N])
  <2> DEFINE B == {k \in Nat : k <= N => g[k] \in Ledgers /\ Grows(f, g[k])}
  <2>1. g[0] = f /\ Grows(f, f)
    BY <1>1, <1>9 DEF Grows
  <2>2. ASSUME NEW k \in Nat, k \in B PROVE k + 1 \in B
    <3> SUFFICES ASSUME k + 1 <= N PROVE g[k + 1] \in Ledgers /\ Grows(f, g[k + 1])
      <4> HIDE DEF Ledgers
      <4> QED
        OBVIOUS
    <3>1. k + 1 \in 0 .. N /\ k + 1 # 0 /\ (k + 1) - 1 = k /\ urls[k + 1] \in S
      BY <1>1
    <3>2. g[k + 1] = RecordSurfaced(g[k], urls[k + 1])
      BY <1>9, <3>1
    <3>3. g[k] \in Ledgers /\ Grows(f, g[k])
      <4>1. k <= N
        BY <1>1
      <4> HIDE DEF Ledgers
      <4> QED
        BY <2>2, <4>1
    <3>4. RecordSurfaced(g[k], urls[k + 1]) \in Ledgers /\ Grows(g[k], RecordSurfaced(g[k], urls[k + 1]))
      BY <3>1, <3>3, RecordSurfacedGrows
    <3> HIDE DEF Ledgers
    <3> QED
      BY <3>2, <3>3, <3>4, GrowsOn
  <2>3. 0 \in B
    BY <2>1
  <2> HIDE DEF B
  <2>4. N \in B
    BY <1>1, <2>2, <2>3, NatInd
  <2> HIDE DEF Ledgers
  <2> QED
    BY <1>1, <2>4 DEF B
<1> HIDE DEF after, Body
<1> QED
  BY <1>7, <1>8, <1>9


\* Ledgers of pages, whatever their URLs are.
IsLedger(f) == \E S : f \in Seq(Entry(S))

LEMMA SeqOver ==
  ASSUME NEW A, NEW B, A \subseteq B, NEW s \in Seq(A)
  PROVE  s \in Seq(B)
<1>1. s = [i \in 1 .. Len(s) |-> s[i]] /\ Len(s) \in Nat /\ \A i \in 1 .. Len(s) : s[i] \in B
  OBVIOUS
<1>2. [i \in 1 .. Len(s) |-> s[i]] \in Seq(B)
  BY <1>1
<1> QED
  BY <1>1, <1>2

LEMMA LedgerOver ==
  ASSUME NEW S, NEW R, NEW f \in Seq(Entry(S))
  PROVE  f \in Seq(Entry(S \cup R))
<1>1. Entry(S) \subseteq Entry(S \cup R)
  BY DEF Entry
<1> QED
  BY <1>1, SeqOver

LEMMA RecordFetchIs ==
  ASSUME NEW f, IsLedger(f), NEW url
  PROVE  /\ IsLedger(RecordFetch(f, url)) /\ Grows(f, RecordFetch(f, url))
         /\ Full(RecordFetch(f, url), url.page)
<1>1. PICK S : f \in Seq(Entry(S))
  BY DEF IsLedger
<1>2. f \in Seq(Entry(S \cup {url})) /\ url \in S \cup {url}
  BY <1>1, LedgerOver
<1> DEFINE g == Upsert(f, url, "fetched")
           T == S \cup {url}
<1>3. g \in Seq(Entry(T)) /\ Grows(f, g) /\ \E i \in DOMAIN g : g[i] = [url |-> url, tier |-> "fetched"]
  BY <1>2, UpsertIs
<1> HIDE DEF g, T
<1>4. IsLedger(g) /\ Grows(f, g) /\ Full(g, url.page)
  BY <1>3 DEF IsLedger, Full
<1> QED
  BY <1>4 DEF RecordFetch, g

LEMMA RecordAllIs ==
  ASSUME NEW f, IsLedger(f), NEW R, NEW urls \in Seq(R)
  PROVE  IsLedger(RecordAll(f, urls)) /\ Grows(f, RecordAll(f, urls))
<1>1. PICK S : f \in Seq(Entry(S))
  BY DEF IsLedger
<1>2. f \in Seq(Entry(S \cup R)) /\ urls \in Seq(S \cup R)
  <2>1. f \in Seq(Entry(S \cup R))
    BY <1>1, LedgerOver
  <2>2. urls \in Seq(S \cup R)
    BY SeqOver
  <2> QED
    BY <2>1, <2>2
<1>3. RecordAll(f, urls) \in Seq(Entry(S \cup R)) /\ Grows(f, RecordAll(f, urls))
  BY <1>2, RecordAllGrows
<1> QED
  BY <1>3 DEF IsLedger

LEMMA SelfGrows ==
  ASSUME NEW f
  PROVE  Grows(f, f)
BY DEF Grows

LEMMA WebSearchIs ==
  ASSUME NEW f, IsLedger(f), NEW provider, NEW reply, IsSeq(reply.rows), NEW n \in Nat
  PROVE  IsLedger(WebSearch(f, provider, reply, n)) /\ Grows(f, WebSearch(f, provider, reply, n))
<1> DEFINE rows == Adapter(provider, reply).results
           all == RunSearch(provider, reply, n)
           Urls == Range(reply.rows) \cup {NoUrl}
<1>1. rows \in Seq(Urls) /\ Len(rows) \in Nat
  <2>1. reply.rows \in Seq(Urls)
    BY SeqOver DEF IsSeq
  <2>2. <<>> \in Seq(Urls) /\ <<NoUrl>> \in Seq(Urls)
    OBVIOUS
  <2>3. rows \in {<<>>, <<NoUrl>>, reply.rows}
    BY DEF Adapter, Payload
  <2> HIDE DEF rows, Urls
  <2>4. rows \in Seq(Urls)
    BY <2>1, <2>2, <2>3
  <2> QED
    BY <2>4
<1>2. all.error = Adapter(provider, reply).error
      /\ all.results = SubSeq(rows, 1, IF Len(rows) < n THEN Len(rows) ELSE n)
  BY DEF RunSearch, Adapter, Payload
<1> HIDE DEF rows, Urls
<1>3. all.results \in Seq(Urls)
  BY <1>1, <1>2
<1> HIDE DEF all
<1>4. RecordAll(f, all.results) = WebSearch(f, provider, reply, n) \/ WebSearch(f, provider, reply, n) = f
  BY DEF WebSearch, all
<1> QED
  BY <1>3, <1>4, RecordAllIs, SelfGrows

LEMMA McpResultIs ==
  ASSUME NEW f, IsLedger(f), NEW web, NEW ok, NEW urls, IsSeq(urls)
  PROVE  IsLedger(McpResult(f, web, ok, urls)) /\ Grows(f, McpResult(f, web, ok, urls))
<1>1. IsLedger(RecordAll(f, urls)) /\ Grows(f, RecordAll(f, urls))
  BY RecordAllIs DEF IsSeq
<1> QED
  BY <1>1, SelfGrows DEF McpResult

------------------------------------------------------------------------------
\* What the evidence of a turn is worth: the flags, the ledger of changes and the
\* ledger of pages say what its calls did.
Checked == verifiedOk \in BOOLEAN /\ (verifiedOk <=> "check" \in hist.passed)
Probed  == runtimeOk \in BOOLEAN /\ (scenario.on.runtimeDone => (runtimeOk <=> "probe" \in hist.passed))
Changed == DOMAIN mutations = hist.changed
Paged   == IsLedger(fetched) /\ hist.seen = Ledgered(fetched) /\ \A u \in hist.read : Full(fetched, u)
Told  == hist = [passed |-> hist.passed, changed |-> hist.changed, read |-> hist.read, seen |-> hist.seen]
Asked == sc \in DOMAIN Scenarios /\ (call = Nothing \/ call \in scenario.tools)
Turned == turn \in Nat /\ turn # 0

Backing == Told /\ Checked /\ Probed /\ Changed /\ Paged /\ Asked /\ Turned

LEMMA ScenarioIs ==
  ASSUME Asked
  PROVE  /\ scenario.maxResults \in Nat
         /\ \A r \in scenario.replies : IsSeq(r.rows)
         /\ \A c \in scenario.tools : c.tool = "mcp" => IsSeq(c.urls)
<1>1. scenario \in Range(Scenarios)
  BY DEF Asked, scenario, Range
<1> QED
  BY <1>1, ScenariosAssumption

LEMMA EvidenceStarts ==
  ASSUME ToolsInit
  PROVE  Backing
<1>1. IsLedger(<<>>) /\ Ledgered(<<>>) = {} /\ DOMAIN <<>> = {}
  <2>1. <<>> \in Seq(Entry({}))
    OBVIOUS
  <2>2. Ledgered(<<>>) = {} /\ DOMAIN <<>> = {}
    BY DEF Ledgered
  <2> QED
    BY <2>1, <2>2 DEF IsLedger
<1>2. hist = Fresh /\ fetched = <<>> /\ mutations = <<>> /\ verifiedOk = FALSE /\ runtimeOk = FALSE
      /\ sc \in DOMAIN Scenarios /\ call = Nothing /\ turn = 1
  BY DEF ToolsInit
<1>3. hist = [passed |-> {}, changed |-> {}, read |-> {}, seen |-> {}]
  BY <1>2 DEF Fresh
<1>4. Told /\ Changed /\ Paged
  <2>1. hist.passed = {} /\ hist.changed = {} /\ hist.read = {} /\ hist.seen = {}
    BY <1>3
  <2>2. Told
    BY <1>3, <2>1 DEF Told
  <2>3. Changed
    BY <1>2, <1>1, <2>1 DEF Changed
  <2>4. Paged
    BY <1>2, <1>1, <2>1 DEF Paged
  <2> QED
    BY <2>2, <2>3, <2>4
<1>5. Checked /\ Probed /\ Asked /\ Turned
  <2>1. "check" \notin hist.passed /\ "probe" \notin hist.passed
    BY <1>3
  <2>2. Checked
    BY <1>2, <2>1, Zenon DEF Checked
  <2>3. Probed
    BY <1>2, <2>1, Zenon DEF Probed
  <2> QED
    BY <1>2, <2>2, <2>3 DEF Asked, Turned
<1> QED
  BY <1>4, <1>5 DEF Backing

\* A step that leaves the evidence alone.
LEMMA EvidenceStands ==
  ASSUME Backing, UNCHANGED <<evidence, sc, turn>>, call' = call \/ call' \in scenario.tools
  PROVE  Backing'
BY DEF Backing, Told, Checked, Probed, Changed, Paged, Asked, Turned, evidence, scenario

LEMMA MutationIs ==
  ASSUME Backing, UNCHANGED <<sc, turn, call>>, NEW path, NEW action, RecordMutation(path, action)
  PROVE  Backing'
<1>1. /\ hist' = [hist EXCEPT !.changed = @ \cup {path}]
      /\ DOMAIN mutations' = DOMAIN mutations \cup {path} /\ UNCHANGED <<fetched, verifiedOk, runtimeOk>>
  BY DEF RecordMutation
<1>2. hist' = [passed |-> hist.passed, changed |-> hist.changed \cup {path},
               read |-> hist.read, seen |-> hist.seen]
  BY <1>1 DEF Backing, Told
<1>3. Told' /\ Checked' /\ Probed' /\ Changed'
  BY <1>1, <1>2 DEF Backing, Told, Checked, Probed, Changed, scenario
<1>4. Paged'
  BY <1>1, <1>2 DEF Backing, Paged
<1>5. Asked' /\ Turned'
  BY DEF Backing, Asked, Turned, scenario
<1> QED
  BY <1>3, <1>4, <1>5 DEF Backing

LEMMA ReadsIs ==
  ASSUME Backing, UNCHANGED <<sc, turn, call>>, NEW g, NEW full, Reads(g, full),
         IsLedger(g), Grows(fetched, g), \A u \in full : Full(g, u)
  PROVE  Backing'
<1>1. /\ hist' = [hist EXCEPT !.read = @ \cup full, !.seen = @ \cup Ledgered(g)]
      /\ fetched' = g /\ UNCHANGED <<mutations, verifiedOk, runtimeOk>>
  BY DEF Reads
<1>2. hist' = [passed |-> hist.passed, changed |-> hist.changed,
               read |-> hist.read \cup full, seen |-> hist.seen \cup Ledgered(g)]
  BY <1>1 DEF Backing, Told
<1>3. Told' /\ Checked' /\ Probed' /\ Changed'
  BY <1>1, <1>2 DEF Backing, Told, Checked, Probed, Changed, scenario
<1>4. Paged'
  <2>1. Ledgered(fetched) \subseteq Ledgered(g) /\ \A u \in hist.read : Full(g, u)
    BY GrowsKeeps DEF Backing, Paged
  <2>2. hist'.seen = Ledgered(g) /\ hist'.read = hist.read \cup full
    BY <1>2, <2>1 DEF Backing, Paged
  <2> QED
    BY <1>1, <2>1, <2>2 DEF Paged
<1>5. Asked' /\ Turned'
  BY DEF Backing, Asked, Turned, scenario
<1> QED
  BY <1>3, <1>4, <1>5 DEF Backing

LEMMA CheckIs ==
  ASSUME Backing, CommandEnds
  PROVE  Backing'
<1>1. PICK ok \in BOOLEAN :
       /\ verifiedOk' = (verifiedOk \/ (ok /\ call.check))
       /\ runtimeOk' = (runtimeOk \/ (ok /\ call.probe /\ scenario.on.runtimeDone))
       /\ hist' = [hist EXCEPT !.passed = @ \cup (IF ok /\ call.check THEN {"check"} ELSE {})
                                            \cup (IF ok /\ call.probe THEN {"probe"} ELSE {})]
  BY DEF CommandEnds
<1> DEFINE P == hist.passed \cup (IF ok /\ call.check THEN {"check"} ELSE {})
                            \cup (IF ok /\ call.probe THEN {"probe"} ELSE {})
<1>2. UNCHANGED <<sc, mutations, fetched, call, turn>>
  BY DEF CommandEnds, session
<1>3. hist' = [passed |-> P, changed |-> hist.changed, read |-> hist.read, seen |-> hist.seen]
  BY <1>1 DEF Backing, Told
<1>4. /\ "check" \in P <=> ("check" \in hist.passed \/ (ok /\ call.check))
      /\ "probe" \in P <=> ("probe" \in hist.passed \/ (ok /\ call.probe))
  OBVIOUS
<1> HIDE DEF P
<1>5. Told' /\ Changed' /\ Paged' /\ hist'.passed = P
  BY <1>2, <1>3 DEF Backing, Told, Changed, Paged
<1>6. Checked'
  BY <1>1, <1>4, <1>5 DEF Backing, Checked
<1>7. Probed'
  BY <1>1, <1>2, <1>4, <1>5 DEF Backing, Probed, scenario
<1>8. Asked' /\ Turned'
  BY <1>2 DEF Backing, Asked, Turned, scenario
<1> QED
  BY <1>5, <1>6, <1>7, <1>8 DEF Backing

LEMMA EndTurnIs ==
  ASSUME Backing, EndTurn
  PROVE  Backing'
<1>1. /\ hist' = Fresh /\ fetched' = <<>> /\ mutations' = <<>> /\ verifiedOk' = FALSE /\ runtimeOk' = FALSE
      /\ sc' = sc /\ call' = call /\ turn' = turn + 1
  BY DEF EndTurn, session
<1>2. IsLedger(<<>>) /\ Ledgered(<<>>) = {} /\ DOMAIN <<>> = {}
  <2>1. <<>> \in Seq(Entry({}))
    OBVIOUS
  <2>2. Ledgered(<<>>) = {} /\ DOMAIN <<>> = {}
    BY DEF Ledgered
  <2> QED
    BY <2>1, <2>2 DEF IsLedger
<1>3. hist' = [passed |-> {}, changed |-> {}, read |-> {}, seen |-> {}]
  BY <1>1 DEF Fresh
<1>4. Told' /\ Changed' /\ Paged'
  <2>1. hist'.passed = {} /\ hist'.changed = {} /\ hist'.read = {} /\ hist'.seen = {}
    BY <1>3
  <2>2. Told'
    BY <1>3, <2>1 DEF Told
  <2>3. Changed'
    BY <1>1, <1>2, <2>1 DEF Changed
  <2>4. Paged'
    BY <1>1, <1>2, <2>1 DEF Paged
  <2> QED
    BY <2>2, <2>3, <2>4
<1>5. Checked' /\ Probed'
  <2>1. "check" \notin hist'.passed /\ "probe" \notin hist'.passed
    BY <1>3
  <2>2. Checked'
    BY <1>1, <2>1, Zenon DEF Checked
  <2>3. Probed'
    BY <1>1, <2>1, Zenon DEF Probed
  <2> QED
    BY <2>2, <2>3
<1>6. Asked' /\ Turned'
  BY <1>1 DEF Backing, Asked, Turned, scenario
<1> QED
  BY <1>4, <1>5, <1>6 DEF Backing

LEMMA ToolsKeepEvidence ==
  ASSUME Backing, [ToolsNext]_toolsVars
  PROVE  Backing'
<1>1. CASE CallTool
  <2>1. UNCHANGED <<evidence, sc, turn>> /\ call' \in scenario.tools
    BY <1>1 DEF CallTool, session
  <2> QED
    BY <2>1, EvidenceStands
<1>2. CASE WriteFile
  <2>1. UNCHANGED <<sc, turn, call>>
    BY <1>2 DEF WriteFile, session
  <2>2. RecordMutation(call.path, "write") \/ UNCHANGED evidence
    BY <1>2 DEF WriteFile, Torn
  <2> QED
    BY <2>1, <2>2, MutationIs, EvidenceStands
<1>3. CASE DeleteFile
  <2>1. UNCHANGED <<sc, turn, call>>
    BY <1>3 DEF DeleteFile, session
  <2>2. RecordMutation(call.path, "delete") \/ UNCHANGED evidence
    BY <1>3 DEF DeleteFile
  <2> QED
    BY <2>1, <2>2, MutationIs, EvidenceStands
<1>4. CASE EditFile
  <2>1. UNCHANGED <<sc, turn, call>>
    BY <1>4 DEF EditFile, session
  <2>2. RecordMutation(call.path, "edit") \/ UNCHANGED evidence
    BY <1>4 DEF EditFile, Torn
  <2> QED
    BY <2>1, <2>2, MutationIs, EvidenceStands
<1>5. CASE WebFetch
  <2>1. UNCHANGED <<sc, turn, call>>
    BY <1>5 DEF WebFetch, session
  <2>2. Reads(RecordFetch(fetched, call.url), {call.url.page}) \/ UNCHANGED evidence
    BY <1>5 DEF WebFetch
  <2>3. /\ IsLedger(RecordFetch(fetched, call.url)) /\ Grows(fetched, RecordFetch(fetched, call.url))
        /\ \A u \in {call.url.page} : Full(RecordFetch(fetched, call.url), u)
    BY RecordFetchIs DEF Backing, Paged
  <2> QED
    BY <2>1, <2>2, <2>3, ReadsIs, EvidenceStands
<1>6. CASE SearchTheWeb
  <2>1. UNCHANGED <<sc, turn, call>>
    BY <1>6 DEF SearchTheWeb, session
  <2>2. UNCHANGED evidence
        \/ \E reply \in scenario.replies :
             Reads(WebSearch(fetched, scenario.provider, reply, scenario.maxResults), {})
    BY <1>6 DEF SearchTheWeb
  <2>3. CASE UNCHANGED evidence
    BY <2>1, <2>3, EvidenceStands
  <2>4. ASSUME NEW reply \in scenario.replies,
               Reads(WebSearch(fetched, scenario.provider, reply, scenario.maxResults), {})
        PROVE  Backing'
    <3> DEFINE g == WebSearch(fetched, scenario.provider, reply, scenario.maxResults)
    <3>1. IsSeq(reply.rows) /\ scenario.maxResults \in Nat
      BY ScenarioIs DEF Backing
    <3>2. IsLedger(g) /\ Grows(fetched, g)
      BY <3>1, WebSearchIs DEF Backing, Paged
    <3> QED
      BY <2>1, <2>4, <3>2, ReadsIs
  <2> QED
    BY <2>2, <2>3, <2>4
<1>7. CASE CallServer
  <2>1. UNCHANGED <<sc, turn, call>>
    BY <1>7 DEF CallServer, session
  <2>2. PICK ok \in BOOLEAN : Reads(McpResult(fetched, call.server.web, ok, call.urls), {})
    BY <1>7 DEF CallServer
  <2>3. IsSeq(call.urls)
    <3>1. call.tool = "mcp"
      BY <1>7 DEF CallServer, Running
    <3>2. call \in scenario.tools
      BY <3>1 DEF Backing, Asked, Nothing
    <3> QED
      BY <3>1, <3>2, ScenarioIs DEF Backing
  <2>4. /\ IsLedger(McpResult(fetched, call.server.web, ok, call.urls))
        /\ Grows(fetched, McpResult(fetched, call.server.web, ok, call.urls))
    BY <2>3, McpResultIs DEF Backing, Paged
  <2> QED
    BY <2>1, <2>2, <2>4, ReadsIs
<1>8. CASE CommandEnds
  BY <1>8, CheckIs
<1>9. CASE EndTurn
  BY <1>9, EndTurnIs
<1>10. CASE \/ RunCommand \/ PreHookEnds \/ PostHookEnds \/ InterruptCommand \/ SpawnStep
            \/ ProcessWrites \/ ProcessLives \/ Judge \/ CrossCheck \/ UNCHANGED toolsVars
  <2>1. UNCHANGED <<evidence, sc, turn, call>>
    BY <1>10 DEF RunCommand, PreHookEnds, PostHookEnds, InterruptCommand, SpawnStep, ProcessWrites,
                 ProcessLives, Judge, CrossCheck, toolsVars, session, evidence
  <2> QED
    BY <2>1, EvidenceStands
<1> QED
  BY <1>1, <1>2, <1>3, <1>4, <1>5, <1>6, <1>7, <1>8, <1>9, <1>10 DEF ToolsNext, OneStep, SpawnEnds

LEMMA EvidenceHolds == ToolsSpec => []Backing
<1>1. ToolsInit => Backing
  BY EvidenceStarts
<1>2. Backing /\ [ToolsNext]_toolsVars => Backing'
  BY ToolsKeepEvidence
<1> QED
  BY <1>1, <1>2, PTL DEF ToolsSpec

\* The phases of a call, the places of a spawn and the budget of a turn are what
\* every step expects, and a change on the ledger was made by this turn.
THEOREM ToolsTypeCorrect == ToolsSpec => []ToolsTypeOK
<1> DEFINE Typed == /\ phase \in {"ready", "pre", "tool", "command", "post", "verify"}
                    /\ spent \in 0 .. scenario.calls
<1>1. ToolsInit => Typed
  <2> SUFFICES ASSUME ToolsInit PROVE Typed
    OBVIOUS
  <2>1. scenario \in Range(Scenarios)
    BY DEF ToolsInit, scenario, Range
  <2>2. scenario.calls \in Nat
    BY <2>1, ScenariosAssumption
  <2> QED
    BY <2>2 DEF ToolsInit
<1>2. Typed /\ Backing /\ [ToolsNext]_toolsVars => Typed'
  <2> SUFFICES ASSUME Typed, Backing, [ToolsNext]_toolsVars PROVE Typed'
    OBVIOUS
  <2>1. scenario \in Range(Scenarios)
    BY DEF Backing, Asked, scenario, Range
  <2>2. scenario.calls \in Nat
    BY <2>1, ScenariosAssumption
  <2> USE DEF ToolsNext, OneStep, SpawnEnds, CallTool, WriteFile, DeleteFile, EditFile, WebFetch,
              SearchTheWeb, CallServer, RunCommand, PreHookEnds, PostHookEnds, CommandEnds,
              InterruptCommand, SpawnStep, ProcessWrites, ProcessLives, Judge, CrossCheck, EndTurn,
              toolsVars
  <2>3. scenario' = scenario
    BY DEF session, scenario
  <2>4. phase' \in {"ready", "pre", "tool", "command", "post", "verify"}
    <3>1. CASE Judge
      <4>1. phase' = "verify" \/ phase' = phase
        BY <3>1
      <4> QED
        BY <4>1
    <3>2. CASE ~Judge
      BY <3>2 DEF Over, RunHooks
    <3> QED
      BY <3>1, <3>2
  <2>5. \/ spent' = spent \/ spent' = 0 \/ spent' = scenario.calls
        \/ (spent < scenario.calls /\ spent' = spent + 1)
    <3>1. CASE Judge
      BY <3>1
    <3>2. CASE OneStep \/ SpawnEnds
      BY <3>2
    <3>3. CASE ~Judge /\ ~OneStep /\ ~SpawnEnds
      BY <3>3
    <3> QED
      BY <3>1, <3>2, <3>3
  <2> HIDE DEF ToolsNext, Typed
  <2>7. spent \in 0 .. scenario.calls
    BY DEF Typed
  <2>6. spent' \in 0 .. scenario.calls
    BY <2>2, <2>5, <2>7
  <2> QED
    BY <2>3, <2>4, <2>6 DEF Typed
<1>3. ShellInv /\ [ToolsNext]_toolsVars => ShellInv'
  BY ToolsKeepShell
<1>4. ShellInv /\ Backing /\ Typed => ToolsTypeOK
  BY DEF ShellInv, AvailInv, ProcInv, Ended, Idle, Proc, Backing, Changed, ToolsTypeOK
<1> HIDE DEF Typed
<1> QED
  BY <1>1, <1>2, <1>3, <1>4, ToolsStartShell, EvidenceHolds, PTL DEF ToolsSpec

LEMMA LeastOf ==
  ASSUME NEW A \in SUBSET Nat, A # {}
  PROVE  \E i \in A : \A j \in A : i <= j
<1> DEFINE R == OpToRel(<, Nat)
<1>1. PICK m \in A : \A y \in A : ~(<<y, m>> \in R)
  <2>1. IsWellFoundedOn(R, Nat)
    BY NatLessThanWellFounded
  <2> HIDE DEF R
  <2> QED
    BY <2>1, WFMin
<1>2. \A y \in A : ~(y < m)
  BY <1>1 DEF OpToRel
<1> HIDE DEF R
<1> QED
  BY <1>2

LEMMA BestOf ==
  ASSUME NEW f, IsLedger(f), NEW u, Full(f, u)
  PROVE  u \in Ledgered(f) /\ BestEntry(f, u).tier = "fetched"
<1> DEFINE full == {i \in {i \in DOMAIN f : f[i].url.page = u} : f[i].tier = "fetched"}
           best == CHOOSE i \in full : \A j \in full : i <= j
<1>1. full # {} /\ u \in Ledgered(f)
  BY DEF Full, Ledgered
<1>2. full \in SUBSET Nat
  <2>1. PICK S : f \in Seq(Entry(S))
    BY DEF IsLedger
  <2>2. DOMAIN f \subseteq Nat
    <3> DEFINE T == Entry(S)
    <3> HIDE DEF T
    <3>1. f \in Seq(T)
      BY <2>1 DEF T
    <3> QED
      BY <3>1
  <2> QED
    BY <2>2
<1>3. BestEntry(f, u) = f[best]
  BY <1>1 DEF BestEntry
<1>4. \E i \in full : \A j \in full : i <= j
  <2> HIDE DEF full
  <2> QED
    BY <1>1, <1>2, LeastOf
<1>5. best \in full
  BY <1>4
<1> QED
  BY <1>1, <1>3, <1>5

\* The pages of a ledger are finitely many.
LEMMA LedgeredFinite ==
  ASSUME NEW f, IsLedger(f)
  PROVE  IsFiniteSet(Ledgered(f))
<1>1. DOMAIN f = 1 .. Len(f) /\ Len(f) \in Nat
  <2>1. PICK S : f \in Seq(Entry(S))
    BY DEF IsLedger
  <2> DEFINE T == Entry(S)
  <2>2. f \in Seq(T)
    BY <2>1
  <2> HIDE DEF T
  <2> QED
    BY <2>2
<1>2. IsFiniteSet(DOMAIN f)
  BY <1>1, FS_Interval
<1> DEFINE pages == [i \in DOMAIN f |-> f[i].url.page]
<1>3. pages \in Surjection(DOMAIN f, Ledgered(f))
  BY DEF Surjection, Ledgered
<1> HIDE DEF pages
<1> QED
  BY <1>2, <1>3, FS_Surjection

\* While a verifier works, it has what the answer cites of the ledger.
Given ==
  phase = "verify" /\ WebActive =>
    \E fits \in scenario.fits : judged.given = CitedFetched(judged.answer, fetched, scenario.rank, fits)

LEMMA GivenStep == Given /\ [ToolsNext]_toolsVars => Given'
<1> SUFFICES ASSUME Given, [ToolsNext]_toolsVars, phase' = "verify", WebActive'
             PROVE  \E fits \in scenario'.fits :
                      judged'.given = CitedFetched(judged'.answer, fetched', scenario'.rank, fits)
  BY DEF Given
<1>1. CASE Judge
  <2> DEFINE at(a) == IF Consults(a, Context, Settings) THEN "asked" ELSE "done"
             clean(a) == NetProblems(a, Context, Settings) = {}
             given(a, n) == IF WebActive THEN CitedFetched(a, fetched, scenario.rank, n) ELSE <<>>
  <2>1. PICK a \in scenario.answers, fits \in scenario.fits :
          judged' = Judgement(at(a), a, clean(a), given(a, fits))
    BY <1>1 DEF Judge
  <2>2. UNCHANGED <<sc, servers, fetched>>
    BY <1>1 DEF Judge, session, evidence
  <2>3. scenario' = scenario /\ WebActive
    BY <2>2 DEF scenario, WebActive
  <2>4. judged'.given = CitedFetched(a, fetched, scenario.rank, fits) /\ judged'.answer = a
    <3>1. given(a, fits) = CitedFetched(a, fetched, scenario.rank, fits)
      BY <2>3
    <3> HIDE DEF at, clean, given
    <3> QED
      BY <2>1, <3>1 DEF Judgement
  <2> QED
    BY <2>2, <2>3, <2>4
<1>2. CASE ProcessWrites \/ UNCHANGED toolsVars
  <2>1. UNCHANGED <<sc, servers, fetched, phase, judged>>
    BY <1>2 DEF ProcessWrites, session, evidence, toolsVars
  <2>2. scenario' = scenario /\ (WebActive' <=> WebActive)
    BY <2>1 DEF scenario, WebActive
  <2> QED
    BY <2>1, <2>2 DEF Given
<1>3. CASE \/ CallTool \/ OneStep \/ SpawnEnds \/ InterruptCommand \/ SpawnStep \/ ProcessLives
           \/ CrossCheck \/ EndTurn
  <2>1. phase' # "verify"
    BY <1>3 DEF CallTool, OneStep, WriteFile, DeleteFile, EditFile, WebFetch, SearchTheWeb, CallServer,
                RunCommand, SpawnEnds, PreHookEnds, PostHookEnds, CommandEnds, InterruptCommand,
                SpawnStep, ProcessLives, CrossCheck, EndTurn, Over, RunHooks, Running
  <2> QED
    BY <2>1
<1> QED
  BY <1>1, <1>2, <1>3 DEF ToolsNext

\* A verifier that is asked has been given every page the answer cites and this
\* turn fetched, from the fetched entry, unless LeastFit recorded pages come
\* before it: an entry of the ledger is never replaced by a lesser one, the best
\* of a page's spellings is taken, and only the pages before it can crowd it out.
THEOREM StrongestIsGiven == ToolsSpec => []StrongestEvidence
<1>1. Backing /\ Given => StrongestEvidence
  <2> DEFINE known == Recorded(judged.answer, fetched)
  <2> SUFFICES ASSUME Backing, Given, phase = "verify", WebActive,
                      NEW u \in CitedUrls(judged.answer) \cap hist.read
               PROVE  IF u \in DOMAIN judged.given THEN judged.given[u].tier = "fetched"
                      ELSE u \in known /\ Cardinality(Ahead(u, known, scenario.rank)) >= LeastFit
    BY DEF StrongestEvidence
  <2>1. PICK fits \in scenario.fits :
          judged.given = CitedFetched(judged.answer, fetched, scenario.rank, fits)
    BY DEF Given
  <2>2. IsLedger(fetched) /\ u \in Ledgered(fetched) /\ BestEntry(fetched, u).tier = "fetched"
    BY BestOf DEF Backing, Paged
  <2>3. u \in known
    BY <2>2 DEF Recorded
  <2>4. judged.given = [v \in {w \in known : Cardinality(Ahead(w, known, scenario.rank)) < fits}
                          |-> BestEntry(fetched, v)]
    BY <2>1 DEF CitedFetched
  <2>5. fits \in Nat /\ LeastFit \in Nat /\ LeastFit <= fits
    <3>1. scenario \in Range(Scenarios)
      BY DEF Backing, Asked, scenario, Range
    <3> QED
      BY <3>1, ScenariosAssumption, CapsAssumption
  <2>6. Cardinality(Ahead(u, known, scenario.rank)) \in Nat
    <3>1. Ahead(u, known, scenario.rank) \in SUBSET Ledgered(fetched)
      BY DEF Ahead, Recorded
    <3> QED
      BY <2>2, <3>1, LedgeredFinite, FS_Subset, FS_CardinalityType
  <2> HIDE DEF known
  <2> QED
    BY <2>2, <2>3, <2>4, <2>5, <2>6
<1>2. ToolsInit => Given
  BY DEF ToolsInit, Given
<1> QED
  BY <1>1, <1>2, GivenStep, EvidenceHolds, PTL DEF ToolsSpec

------------------------------------------------------------------------------
\* What the nets find against an answer.
LEMMA SettingsIs ==
  ASSUME Asked
  PROVE  /\ Settings.web = WebActive
         /\ \A f \in {"absenceStrict", "runtimeDone", "mutationClaims", "skipGreenfield",
                      "greenfieldMax", "semantic", "paths", "antiCollapse"} :
              Settings[f] = scenario.on[f]
<1>1. scenario \in Range(Scenarios)
  BY DEF Asked, scenario, Range
<1>2. scenario.on \in Ons
  BY <1>1, ScenariosAssumption
<1>3. DOMAIN scenario.on = {"absenceStrict", "runtimeDone", "web", "mutationClaims", "skipGreenfield",
                            "greenfieldMax", "semantic", "paths", "antiCollapse"}
  BY <1>2 DEF Ons
<1>4. Settings = [f \in DOMAIN scenario.on |-> IF f = "web" THEN WebActive ELSE scenario.on[f]]
  BY <1>2, <1>3 DEF Settings, Ons
<1> QED
  BY <1>3, <1>4

LEMMA AbsenceNet ==
  ASSUME NEW a, NEW w, NEW on
  PROVE  AbsenceContradictions(a, w, on) = {} <=>
           \A s \in a : "absent" \in s.says /\ (on.absenceStrict => s.flat /\ ~s.meta)
             => \A t \in s.quotes : Broad(t) => Absent(w, t.path)
<1> DEFINE claims == {t \in a : "absent" \in t.says /\ (on.absenceStrict => t.flat /\ ~t.meta)}
           bad(s) == {q \in CitedPaths(s.quotes, FALSE) : IsFile(w, q) \/ HasEntries(w, q)}
           all == UNION {bad(s) : s \in claims}
<1>1. AbsenceContradictions(a, w, on) = {Problem("absence", {p}) : p \in all}
  BY DEF AbsenceContradictions
<1>2. \A s : bad(s) = {} <=> \A t \in s.quotes : Broad(t) => Absent(w, t.path)
  BY DEF CitedPaths, Absent
<1>3. all = {} <=> \A s \in claims : bad(s) = {}
  <2> HIDE DEF claims, bad
  <2> QED
    OBVIOUS
<1>4. AbsenceContradictions(a, w, on) = {} <=> all = {}
  <2> HIDE DEF all
  <2> QED
    BY <1>1
<1> HIDE DEF bad, all
<1> QED
  BY <1>2, <1>3, <1>4

LEMMA WebNet ==
  ASSUME NEW a, NEW f
  PROVE  WebCitationProblems(a, f) = {} <=> \A s \in a : \A l \in s.links : l.page \in Ledgered(f)
<1> DEFINE bad == CitedUrls(a) \ Ledgered(f)
<1>1. WebCitationProblems(a, f) = {Problem("web", {<<u>>}) : u \in bad}
  BY DEF WebCitationProblems
<1>2. bad = {} <=> \A s \in a : \A l \in s.links : l.page \in Ledgered(f)
  BY DEF CitedUrls
<1> HIDE DEF bad
<1> QED
  BY <1>1, <1>2

LEMMA PathNet ==
  ASSUME NEW a, NEW w, NEW changes, NEW noext
  PROVE  PresentPathProblems(a, w, changes, noext) = {} <=>
           \A s \in a : \A t \in s.quotes :
             /\ Local(t) /\ Slash(t)
             /\ (t.ext = "code" /\ t.looks \notin {"date", "host"}) \/ (t.ext = "known" /\ noext)
             => Exists(w, t.path) \/ t.path \in changes
<1> DEFINE named == StrictPaths(Quoted(a), noext)
           bad == {q \in named : Len(q) > 1 /\ q \notin changes /\ ~Exists(w, q)}
<1>1. PresentPathProblems(a, w, changes, noext) = {Problem("path", {p}) : p \in bad}
  BY DEF PresentPathProblems
<1>2. PresentPathProblems(a, w, changes, noext) = {} <=> bad = {}
  <2> HIDE DEF bad
  <2> QED
    BY <1>1
<1>3. \A q : q \in named <=> \E t \in Quoted(a) : t.path = q /\ (Narrow(t) \/ (noext /\ Local(t) /\ t.ext = "known"))
  BY DEF StrictPaths, CitedPaths
<1>4. \A t : t \in Quoted(a) <=> \E s \in a : t \in s.quotes
  BY DEF Quoted
<1>5. \A t : (Narrow(t) \/ (noext /\ Local(t) /\ t.ext = "known")) /\ Len(t.path) > 1 <=>
             /\ Local(t) /\ Slash(t)
             /\ (t.ext = "code" /\ t.looks \notin {"date", "host"}) \/ (t.ext = "known" /\ noext)
  BY DEF Narrow, Slash
<1> HIDE DEF named
<1> QED
  BY <1>2, <1>3, <1>4, <1>5

\* What the walk decides of a flag, when the tree can decide it.
LEMMA DropIs ==
  ASSUME NEW flags, NEW f \in flags, NEW met \in RepoPaths(World, scenario.unwalked, WalkCap), Decidable(f)
  PROVE  f \in DropContradicted(flags, met, scenario.bare) <=> ~Refuted(f)
<1>1. met = DOMAIN files \ scenario.unwalked
  <2>1. World.files = DOMAIN files
    BY DEF World
  <2>2. Cardinality(DOMAIN files \ scenario.unwalked) <= WalkCap
    BY DEF Decidable
  <2> QED
    BY <2>1, <2>2 DEF RepoPaths
<1>2. ASSUME NEW p \in f.names
      PROVE  Matches(p, met, scenario.bare) <=> EndsWith(DOMAIN files, p)
  <2>1. Stripped(p, scenario.bare) = p
    BY DEF Decidable, Stripped
  <2>2. \A q \in DOMAIN files \cap scenario.unwalked : ~IsSuffix(p, q)
    BY DEF Decidable, EndsWith
  <2> QED
    BY <1>1, <2>1, <2>2 DEF Matches, EndsWith
<1>3. f \in DropContradicted(flags, met, scenario.bare) <=>
        \/ f.names = {}
        \/ /\ ~(f.denies /\ \E p \in f.names \ f.place : Matches(p, met, scenario.bare))
           /\ ~(f.affirms /\ ~f.denies /\ \A p \in f.names : ~Matches(p, met, scenario.bare))
  BY DEF DropContradicted
<1> HIDE DEF DropContradicted
<1> QED
  BY <1>2, <1>3 DEF Refuted

\* What is left of a verdict, and what has gone.
LEMMA VerifierNet ==
  ASSUME Asked, NEW v, NEW met \in RepoPaths(World, scenario.unwalked, WalkCap)
  PROVE  /\ FlagsLeft(v, Settings, met, scenario.bare) = {} => \A f \in Raised(v) : MayGo(f)
         /\ FlagsLeft(v, Settings, met, scenario.bare) # {} => \E f \in Raised(v) : MayStay(f)
<1> DEFINE rest == FlagsLeft(v, Settings, met, scenario.bare)
<1>1. Settings.antiCollapse = scenario.on.antiCollapse
  BY SettingsIs
<1>2. SemanticProblems(v) = Raised(v)
  BY DEF SemanticProblems, Raised
<1>3. rest = IF scenario.on.antiCollapse THEN DropContradicted(Raised(v), met, scenario.bare) ELSE Raised(v)
  BY <1>1, <1>2 DEF FlagsLeft
<1>4. rest \subseteq Raised(v)
  BY <1>3 DEF DropContradicted
<1> HIDE DEF rest
<1>5. ASSUME NEW f \in Raised(v), f \notin rest
      PROVE  MayGo(f)
  BY <1>3, <1>5, DropIs DEF MayGo
<1>6. ASSUME NEW f \in rest
      PROVE  MayStay(f)
  BY <1>3, <1>4, <1>6, DropIs DEF MayStay
<1> QED
  BY <1>4, <1>5, <1>6 DEF rest

\* The conjuncts of Holds that the nets without a model decide.
LEMMA DeterministicIs ==
  ASSUME NEW a, Backing
  PROVE  Deterministic(a, Context, Settings) = {} <=>
           \A s \in a :
             /\ "success" \in s.says /\ ~s.hedged => "check" \in hist.passed
             /\ "runtime" \in s.says /\ ~s.hedged /\ ~s.negated /\ scenario.on.runtimeDone
                  => "probe" \in hist.passed
             /\ "done" \in s.says /\ ~s.hedged /\ ~s.negated /\ s.own /\ scenario.on.mutationClaims
                  => hist.changed # {}
             /\ WebActive => \A l \in s.links : l.page \in hist.seen
             /\ "absent" \in s.says /\ (scenario.on.absenceStrict => s.flat /\ ~s.meta)
                  => \A t \in s.quotes : Broad(t) => Absent(World, t.path)
<1>1. /\ Context.w = World /\ Context.verified = verifiedOk /\ Context.reached = runtimeOk
      /\ Context.fetched = fetched /\ Context.mutations = DOMAIN mutations
  BY DEF Context
<1>2. /\ Settings.runtimeDone = scenario.on.runtimeDone /\ Settings.web = WebActive
      /\ Settings.mutationClaims = scenario.on.mutationClaims
      /\ Settings.absenceStrict = scenario.on.absenceStrict
  BY SettingsIs DEF Backing
<1> DEFINE absence == AbsenceContradictions(a, Context.w, Settings)
           success == UnverifiedSuccess(a, Context.verified)
           runtime == IF Settings.runtimeDone THEN UnverifiedRuntime(a, Context.reached) ELSE {}
           web == IF Settings.web THEN WebCitationProblems(a, Context.fetched) ELSE {}
           mutation == IF Settings.mutationClaims THEN UnbackedMutation(a, Context.mutations) ELSE {}
<1>3. Deterministic(a, Context, Settings) = {} <=>
        absence = {} /\ success = {} /\ runtime = {} /\ web = {} /\ mutation = {}
  <2>1. Deterministic(a, Context, Settings) = absence \cup success \cup runtime \cup web \cup mutation
    BY DEF Deterministic
  <2> HIDE DEF absence, success, runtime, web, mutation
  <2> QED
    BY <2>1
<1>4. absence = {} <=> \A s \in a : "absent" \in s.says /\ (scenario.on.absenceStrict => s.flat /\ ~s.meta)
                         => \A t \in s.quotes : Broad(t) => Absent(World, t.path)
  BY <1>1, <1>2, AbsenceNet
<1>5. success = {} <=> \A s \in a : "success" \in s.says /\ ~s.hedged => "check" \in hist.passed
  BY <1>1 DEF UnverifiedSuccess, Backing, Checked
<1>6. runtime = {} <=> \A s \in a : "runtime" \in s.says /\ ~s.hedged /\ ~s.negated /\ scenario.on.runtimeDone
                         => "probe" \in hist.passed
  BY <1>1, <1>2 DEF UnverifiedRuntime, Backing, Probed
<1>7. mutation = {} <=> \A s \in a : "done" \in s.says /\ ~s.hedged /\ ~s.negated /\ s.own
                                       /\ scenario.on.mutationClaims => hist.changed # {}
  BY <1>1, <1>2 DEF UnbackedMutation, Backing, Changed
<1>8. web = {} <=> \A s \in a : WebActive => \A l \in s.links : l.page \in hist.seen
  BY <1>1, <1>2, WebNet DEF Backing, Paged
<1> HIDE DEF absence, success, runtime, web, mutation
<1> QED
  BY <1>3, <1>4, <1>5, <1>6, <1>7, <1>8

LEMMA PathsIs ==
  ASSUME NEW a, Backing
  PROVE  (IF ~Greenfield(Context, Settings) /\ (Settings.paths \/ ~Semantic(Context, Settings))
          THEN PresentPathProblems(a, Context.w, Context.mutations, Settings.paths) ELSE {}) = {}
         <=> \A s \in a : PathsCount => \A t \in s.quotes :
               Specific(t) => Exists(World, t.path) \/ t.path \in hist.changed
<1>1. Context.w = World /\ Context.mutations = hist.changed /\ Context.spawn
  BY DEF Context, Backing, Changed
<1>2. Settings.paths = scenario.on.paths /\ Settings.semantic = scenario.on.semantic
  BY SettingsIs DEF Backing
<1>3. PathsCount <=> ~Greenfield(Context, Settings) /\ (Settings.paths \/ ~Semantic(Context, Settings))
  BY <1>1, <1>2 DEF PathsCount, Semantic
<1>4. PresentPathProblems(a, World, hist.changed, scenario.on.paths) = {} <=>
        \A s \in a : \A t \in s.quotes :
          Specific(t) => Exists(World, t.path) \/ t.path \in hist.changed
  BY PathNet DEF Specific
<1> QED
  BY <1>1, <1>2, <1>3, <1>4

LEMMA NetsIs ==
  ASSUME NEW a, Backing, scenario.depth = 0
  PROVE  NetProblems(a, Context, Settings) = {} <=> \A s \in a : Holds(s)
<1> DEFINE fixed == Deterministic(a, Context, Settings)
           paths == IF ~Greenfield(Context, Settings) /\ (Settings.paths \/ ~Semantic(Context, Settings))
                    THEN PresentPathProblems(a, Context.w, Context.mutations, Settings.paths) ELSE {}
<1>1. NetProblems(a, Context, Settings) = fixed \cup paths
  BY DEF NetProblems, Context
<1>2. (\A s \in a : Holds(s)) <=> fixed = {} /\ paths = {}
  <2> DEFINE P1(s) == /\ "success" \in s.says /\ ~s.hedged => "check" \in hist.passed
                      /\ "runtime" \in s.says /\ ~s.hedged /\ ~s.negated /\ scenario.on.runtimeDone
                           => "probe" \in hist.passed
                      /\ "done" \in s.says /\ ~s.hedged /\ ~s.negated /\ s.own /\ scenario.on.mutationClaims
                           => hist.changed # {}
                      /\ WebActive => \A l \in s.links : l.page \in hist.seen
                      /\ "absent" \in s.says /\ (scenario.on.absenceStrict => s.flat /\ ~s.meta)
                           => \A t \in s.quotes : Broad(t) => Absent(World, t.path)
             P2(s) == PathsCount => \A t \in s.quotes :
                        Specific(t) => Exists(World, t.path) \/ t.path \in hist.changed
  <2>1. fixed = {} <=> \A s \in a : P1(s)
    BY DeterministicIs
  <2>2. paths = {} <=> \A s \in a : P2(s)
    BY PathsIs
  <2>3. \A s : Holds(s) <=> P1(s) /\ P2(s)
    BY DEF Holds
  <2> HIDE DEF P1, P2, fixed, paths
  <2> QED
    BY <2>1, <2>2, <2>3
<1> HIDE DEF fixed, paths
<1> QED
  BY <1>1, <1>2

\* A judgement is asked for just while the verifier works.
IsJudgement(j) ==
  j = [at |-> j.at, turn |-> j.turn, answer |-> j.answer, clean |-> j.clean, given |-> j.given,
       verdict |-> j.verdict, fine |-> j.fine]

Waiting == IsJudgement(judged) /\ (phase = "verify" <=> judged.at = "asked")

LEMMA WaitingStep == Waiting /\ [ToolsNext]_toolsVars => Waiting'
<1> SUFFICES ASSUME Waiting, [ToolsNext]_toolsVars PROVE Waiting'
  OBVIOUS
<1>1. CASE Judge
  <2> DEFINE asks(a) == Consults(a, Context, Settings)
  <2>1. PICK a, clean, given :
          /\ phase' = IF asks(a) THEN "verify" ELSE phase
          /\ judged' = Judgement(IF asks(a) THEN "asked" ELSE "done", a, clean, given)
    BY <1>1 DEF Judge
  <2> HIDE DEF asks
  <2>2. judged'.at = IF asks(a) THEN "asked" ELSE "done"
    BY <2>1 DEF Judgement
  <2>3. IsJudgement(judged')
    BY <2>1 DEF Judgement, IsJudgement
  <2>4. phase = "ready"
    BY <1>1 DEF Judge
  <2> QED
    BY <2>1, <2>2, <2>3, <2>4 DEF Waiting
<1>2. CASE CrossCheck
  <2>1. PICK v, fine : judged' = [judged EXCEPT !.at = "done", !.verdict = v, !.fine = fine]
    BY <1>2 DEF CrossCheck
  <2>2. judged'.at = "done" /\ IsJudgement(judged')
    BY <2>1 DEF Waiting, IsJudgement
  <2> QED
    BY <1>2, <2>2 DEF CrossCheck, Waiting
<1>3. CASE EndTurn
  BY <1>3 DEF EndTurn, Unjudged, Waiting, IsJudgement
<1>4. CASE ProcessWrites \/ UNCHANGED toolsVars
  BY <1>4 DEF ProcessWrites, toolsVars, Waiting, IsJudgement
<1>5. CASE \/ CallTool \/ OneStep \/ SpawnEnds \/ InterruptCommand \/ SpawnStep \/ ProcessLives
  <2>1. phase # "verify" /\ phase' # "verify" /\ judged' = judged
    BY <1>5 DEF CallTool, OneStep, WriteFile, DeleteFile, EditFile, WebFetch, SearchTheWeb, CallServer,
                RunCommand, SpawnEnds, PreHookEnds, PostHookEnds, CommandEnds, InterruptCommand,
                SpawnStep, ProcessLives, Over, RunHooks, Running
  <2> QED
    BY <2>1 DEF Waiting, IsJudgement
<1> QED
  BY <1>1, <1>2, <1>3, <1>4, <1>5 DEF ToolsNext

LEMMA WaitingHolds == ToolsSpec => []Waiting
<1>1. ToolsInit => Waiting
  BY DEF ToolsInit, Unjudged, Waiting, IsJudgement
<1> QED
  BY <1>1, WaitingStep, PTL DEF ToolsSpec

\* An answer passes the nets exactly when each of its sentences holds by what
\* this turn did, and is accepted when it passed them and every flag that the
\* tree can decide is refuted by the tree as the verifier's answer finds it,
\* under every setting and whatever processes write meanwhile.
THEOREM AnswersAreJudgedByTheTurn == ToolsSpec => JudgedByTheTurn
<1> DEFINE Right ==
      judged' # judged /\ judged'.turn = turn /\ scenario.depth = 0 =>
        IF judged.at # "asked"
        THEN /\ judged'.clean <=> \A s \in judged'.answer : Holds(s)
             /\ judged'.at = "done" => (judged'.fine <=> judged'.clean)
        ELSE LET raised == Raised(judged'.verdict)
             IN /\ judged'.answer = judged.answer
                /\ judged'.fine => judged.clean /\ \A f \in raised : MayGo(f)
                /\ judged'.fine \/ ~judged.clean \/ \E f \in raised : MayStay(f)
<1>1. Backing /\ Waiting /\ [ToolsNext]_toolsVars => Right
  <2> SUFFICES ASSUME Backing, Waiting, [ToolsNext]_toolsVars, judged' # judged, judged'.turn = turn,
                      scenario.depth = 0
               PROVE  Right
    OBVIOUS
  <2>1. CASE Judge
    <3> DEFINE asks(a) == Consults(a, Context, Settings)
               clean(a) == NetProblems(a, Context, Settings) = {}
    <3>1. PICK a \in scenario.answers, fits \in scenario.fits :
            judged' = Judgement(IF asks(a) THEN "asked" ELSE "done", a, clean(a),
                        IF WebActive THEN CitedFetched(a, fetched, scenario.rank, fits) ELSE <<>>)
      BY <2>1 DEF Judge
    <3>2. clean(a) <=> \A s \in a : Holds(s)
      BY NetsIs
    <3>3. judged.at # "asked"
      BY <2>1 DEF Judge, Waiting
    <3> DEFINE c == clean(a)
    <3>4. c \in BOOLEAN
      OBVIOUS
    <3> DEFINE at == IF asks(a) THEN "asked" ELSE "done"
               given == IF WebActive THEN CitedFetched(a, fetched, scenario.rank, fits) ELSE <<>>
    <3>6. judged' = Judgement(at, a, c, given)
      BY <3>1
    <3> HIDE DEF c, asks, at, given
    <3>5. /\ judged'.answer = a /\ judged'.clean = c
          /\ judged'.at = "done" => (judged'.fine <=> c)
      BY <3>4, <3>6 DEF Judgement
    <3> QED
      BY <3>2, <3>3, <3>5, Zenon DEF c
  <2>2. CASE CrossCheck
    <3>1. PICK v \in scenario.verdicts, met \in RepoPaths(World, scenario.unwalked, WalkCap) :
            LET clear == FlagsLeft(v, Settings, met, scenario.bare) = {}
            IN judged' = [judged EXCEPT !.at = "done", !.verdict = v, !.fine = judged.clean /\ clear]
      BY <2>2 DEF CrossCheck
    <3>2. judged.at = "asked" /\ IsJudgement(judged)
      BY <2>2 DEF CrossCheck, Waiting
    <3> DEFINE clear == FlagsLeft(v, Settings, met, scenario.bare) = {}
    <3>3. /\ clear => \A f \in Raised(v) : MayGo(f)
          /\ ~clear => \E f \in Raised(v) : MayStay(f)
      BY VerifierNet DEF Backing
    <3>4. judged' = [judged EXCEPT !.at = "done", !.verdict = v, !.fine = judged.clean /\ clear]
      BY <3>1
    <3> HIDE DEF clear
    <3>5. /\ judged'.answer = judged.answer /\ judged'.verdict = v
          /\ judged'.fine <=> judged.clean /\ clear
      BY <3>2, <3>4 DEF IsJudgement
    <3> QED
      BY <3>2, <3>3, <3>5
  <2>3. CASE EndTurn
    <3>1. judged'.turn = 0
      BY <2>3 DEF EndTurn, Unjudged
    <3> QED
      BY <3>1 DEF Backing, Turned
  <2>4. CASE \/ CallTool \/ OneStep \/ SpawnEnds \/ InterruptCommand \/ SpawnStep \/ ProcessWrites
             \/ ProcessLives \/ UNCHANGED toolsVars
    <3>1. judged' = judged
      BY <2>4 DEF CallTool, OneStep, WriteFile, DeleteFile, EditFile, WebFetch, SearchTheWeb, CallServer,
                  RunCommand, SpawnEnds, PreHookEnds, PostHookEnds, CommandEnds, InterruptCommand,
                  SpawnStep, ProcessWrites, ProcessLives, toolsVars
    <3> QED
      BY <3>1
  <2> QED
    BY <2>1, <2>2, <2>3, <2>4 DEF ToolsNext
<1>2. Backing /\ Waiting /\ [ToolsNext]_toolsVars => [Right]_toolsVars
  BY <1>1
<1> QED
  BY <1>2, EvidenceHolds, WaitingHolds, PTL DEF ToolsSpec, JudgedByTheTurn
=============================================================================
