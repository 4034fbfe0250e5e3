------------------------- MODULE Permissions_proofs -------------------------
(***************************************************************************)
(* Theorems about Permissions, for every set of files, commands, rules,    *)
(* lists and features, and every cap.  The properties speak of the         *)
(* decision just taken, so what they need from before is small: who has    *)
(* agreed to what (Consent), what can be said of a call that still waits   *)
(* for its answer (Waiting), and how many calls were counted (Counting).   *)
(* Judged collects what is true of a decision when it is taken; each kind  *)
(* of decision is shown to be judged once, and the properties follow.      *)
(***************************************************************************)
EXTENDS Permissions, FiniteSetTheorems, TLAPS

Agreed ==
  \/ yes = "turn"
  \/ yes = "before"
       /\ flags \cap {"run_after", "extend_after", "persist", "autoplan"} # {}

Consent ==
  /\ yes \in {"never", "before", "turn"}
  /\ graduated => yes # "never"
  /\ phase = "approved" => yes = "turn" \/ (yes = "before" /\ "persist" \in flags)
  /\ approved \subseteq signed
  /\ signed # {} => "propose" \in flags

Waiting ==
  pc = "ask" =>
    /\ ~Hard(asked)
    /\ Proposing(Top) /\ ~ReadsOnly(asked) => Agreed

Judged(o, ok, by, depth) ==
  /\ last' = [op |-> o, ok |-> ok, by |-> by, depth |-> depth]
  /\ UNCHANGED <<settings, grants, mode, phase, approved, signed>>
  /\ ok => ~Hard(o)
  /\ ok /\ Proposing(Top) /\ ~ReadsOnly(o) => Agreed'
  /\ ok /\ Proposing(Top) /\ ~ReadsOnly(o) /\ by = "engine" =>
       o.tool = "apply_patch" \/ Matches(rules.allow, o) \/ OnPlan(o, Top)
  /\ /\ ok /\ Destructive(o) /\ o.tool # "apply_patch" /\ by = "engine"
     /\ depth = "top" /\ phase = "approved" /\ "propose" \in flags
     => OnPlan(o, Top)
  /\ ~ok /\ person /\ depth = "top" =>
       \/ by \in {"person", "budget"}
       \/ by = "engine" /\ (Hard(o) \/ mode = "plan" \/ Proposing(Top))
  /\ /\ ok
     /\ \/ depth = "parallel"
        \/ depth = "serial" /\ Proposing(Top)
     => ReadsOnly(o)

\* No call that runs has a hard rule against it.
NothingHard == Ran => ~Hard(last.op)

Decisions ==
  /\ NothingHard /\ ReadOnlyUntilApproved /\ OnlyTheListUnasked
  /\ OffPlanAsked /\ HumanBackstop /\ ChildrenReadOnly

SInv == Consent /\ Waiting /\ Decisions

-----------------------------------------------------------------------------
(* What the ladders say.                                                   *)

\* Nothing but "deny" is said of a call that a hard rule speaks against.
LEMMA TierHard == ASSUME NEW o, NEW c, Hard(o) PROVE Tier(o, c) = "deny"
BY DEF Tier

\* In propose mode a change is allowed, or put to somebody, only under an
\* approved list or one of the relaxations.
LEMMA TierProposing ==
  ASSUME NEW o, NEW c, Proposing(c), ~ReadsOnly(o), Tier(o, c) \in {"allow", "ask"}
  PROVE  c.phase = "approved" \/ Relaxed(o, c)
BY DEF Tier, Ladder, MoveLadder

\* An allow in propose mode rests on the list or on an allow rule.
LEMMA TierOnPlan ==
  ASSUME NEW o, NEW c, Proposing(c), ~ReadsOnly(o), Tier(o, c) = "allow"
  PROVE  o.tool = "apply_patch" \/ Matches(rules.allow, o) \/ OnPlan(o, c)
BY DEF Tier, Ladder, MoveLadder, Proposing

\* Under an approved list, an allow of a destructive call rests on the list.
LEMMA TierOffPlan ==
  ASSUME NEW o, NEW c, Destructive(o), o.tool # "apply_patch", Tier(o, c) = "allow",
         c.phase = "approved", "propose" \in flags
  PROVE  OnPlan(o, c)
<1>1. CASE o.tool = "apply_patch move"
  BY <1>1 DEF Tier, MoveLadder, OffPlan, Proposing
<1>2. CASE o.tool # "apply_patch move"
  BY <1>2 DEF Tier, Doubted, OffPlan
<1> QED
  BY <1>1, <1>2

\* A denial rests on a hard rule or on a mode that only reads.
LEMMA TierDeny ==
  ASSUME NEW o, NEW c, Tier(o, c) = "deny"
  PROVE  Hard(o) \/ c.mode = "plan" \/ Proposing(c)
BY DEF Tier, Ladder, MoveLadder

\* Plan mode allows what only reads.
LEMMA TierPlan ==
  ASSUME NEW o, NEW c, c.mode = "plan", Tier(o, c) = "allow", o.tool # "apply_patch move"
  PROVE  ReadsOnly(o)
BY DEF Tier, Ladder, Proposing

\* A move only reads nowhere, and plan mode allows none.
LEMMA TierPlanMove ==
  ASSUME NEW o, NEW c, c.mode = "plan", o.tool = "apply_patch move"
  PROVE  Tier(o, c) # "allow"
BY DEF Tier, MoveLadder, Proposing

\* An unlock is offered in propose mode only, and never against a hard rule.
LEMMA TierUnlock ==
  ASSUME NEW o, NEW c, Tier(o, c) = "unlock"
  PROVE  Proposing(c) /\ ~Hard(o)
BY DEF Tier, Ladder, MoveLadder

\* What hard blocks a call changes only with the settings and the grants.
LEMMA HardSame ==
  ASSUME UNCHANGED <<settings, grants>>, NEW o
  PROVE  Hard(o)' <=> Hard(o)
BY DEF Hard, Fixed, Hooked, IsCommand, Matches, Subjects, PathsOf, Within,
       settings, grants

\* So with a match of the allow rules, and with what only reads.
LEMMA RulesSame ==
  ASSUME UNCHANGED settings, NEW o
  PROVE  /\ Matches(rules.allow, o)' <=> Matches(rules.allow, o)
         /\ ReadsOnly(o)' <=> ReadsOnly(o)
<1>1. Matches(rules.allow, o)' <=> Matches(rules.allow, o)
  BY DEF Matches, Subjects, settings
<1>2. ReadsOnly(o)' <=> ReadsOnly(o)
  BY DEF ReadsOnly, IsCommand, settings
<1> QED
  BY <1>1, <1>2

\* The mode that Proposing looks at.
LEMMA ProposingSame ==
  ASSUME UNCHANGED <<settings, mode>>
  PROVE  Proposing(Top)' <=> Proposing(Top)
BY DEF Proposing, Top, settings

-----------------------------------------------------------------------------
(* From a decision to the properties.                                      *)

\* A step that decides nothing leaves nothing to be said.
LEMMA QuietDecisions == ASSUME last' = Nothing PROVE Decisions'
BY DEF Nothing, Decisions, NothingHard, ReadOnlyUntilApproved, OnlyTheListUnasked,
       OffPlanAsked, HumanBackstop, ChildrenReadOnly, Ran, Refused

\* A decision that is judged has all the properties.
LEMMA JudgedDecisions ==
  ASSUME Consent, NEW o, NEW ok \in BOOLEAN, NEW by, NEW depth, Judged(o, ok, by, depth)
  PROVE  Decisions'
<1>1. /\ last'.op = o /\ last'.ok = ok /\ last'.by = by /\ last'.depth = depth
      /\ UNCHANGED <<settings, grants, mode, phase, approved, signed>>
  BY DEF Judged
<1>2. /\ Hard(o)' <=> Hard(o)
      /\ Matches(rules.allow, o)' <=> Matches(rules.allow, o)
      /\ ReadsOnly(o)' <=> ReadsOnly(o)
      /\ Proposing(Top)' <=> Proposing(Top)
  BY <1>1, HardSame, RulesSame, ProposingSame
<1>3. OnPlan(o, Top) => Signed(o)'
  BY <1>1 DEF OnPlan, Signed, Top, Consent, PathsOf
<1>4. NothingHard'
  BY <1>1, <1>2 DEF Judged, NothingHard, Ran
<1>5. ReadOnlyUntilApproved'
  BY <1>1, <1>2 DEF Judged, ReadOnlyUntilApproved, Agreed, Ran
<1>6. OnlyTheListUnasked'
  BY <1>1, <1>2, <1>3 DEF Judged, OnlyTheListUnasked, Ran
<1>7. OffPlanAsked'
  BY <1>1, <1>3 DEF Judged, OffPlanAsked, Ran, Consent, Destructive, IsCommand
<1>8. HumanBackstop'
  BY <1>1, <1>2 DEF Judged, HumanBackstop, Refused, settings
<1>9. ChildrenReadOnly'
  BY <1>1, <1>2 DEF Judged, ChildrenReadOnly, Ran
<1> QED
  BY <1>4, <1>5, <1>6, <1>7, <1>8, <1>9 DEF Decisions

\* The decision of the engine alone.
LEMMA DecideJudged ==
  ASSUME SInv, NEW o, Decide(o), Tier(o, Top) # "ask"
  PROVE  \E ok \in BOOLEAN : Judged(o, ok, "engine", "top")
<1> DEFINE ok == Tier(o, Top) = "allow"
<1>1. /\ last' = [op |-> o, ok |-> ok, by |-> "engine", depth |-> "top"]
      /\ UNCHANGED <<settings, grants, mode, phase, approved, signed, yes>>
  BY DEF Decide, Settle, consents
<1>2. ok => ~Hard(o)
  BY TierHard
<1>3. ok /\ Proposing(Top) /\ ~ReadsOnly(o) => Agreed'
  <2>1. SUFFICES ASSUME ok, Proposing(Top), ~ReadsOnly(o) PROVE Agreed
    BY <1>1 DEF Agreed, settings
  <2>2. Top.phase = "approved" \/ Relaxed(o, Top)
    BY <2>1, TierProposing
  <2> QED
    BY <2>2 DEF SInv, Consent, Agreed, Relaxed, Top
<1>4. ok /\ Proposing(Top) /\ ~ReadsOnly(o) =>
        o.tool = "apply_patch" \/ Matches(rules.allow, o) \/ OnPlan(o, Top)
  BY TierOnPlan
<1>5. ok /\ Destructive(o) /\ o.tool # "apply_patch" /\ phase = "approved"
        /\ "propose" \in flags => OnPlan(o, Top)
  BY TierOffPlan DEF Top
<1>6. ~ok => Hard(o) \/ mode = "plan" \/ Proposing(Top)
  <2>1. ~ok => Tier(o, Top) = "deny"
    BY DEF Decide, Tier, Ladder, MoveLadder
  <2> QED
    BY <2>1, TierDeny DEF Top
<1>7. Judged(o, ok, "engine", "top")
  BY <1>1, <1>2, <1>3, <1>4, <1>5, <1>6 DEF Judged
<1> QED
  BY <1>7

\* The answer to an unlock: a yes is the person's agreement.
LEMMA UnlockJudged ==
  ASSUME SInv, NEW o, NEW ok \in BOOLEAN, Unlock(o, ok),
         ~(ok /\ Doubted(o, Top))
  PROVE  Judged(o, ok, "person", "top")
BY TierUnlock DEF Unlock, Settle, Judged, Agreed

\* What can be said of a call that waited for its answer.
LEMMA AnswerJudged ==
  ASSUME SInv, Asking, pc = "ask", NEW ok \in BOOLEAN,
         NEW by \in {"budget", "hook", "guardian", "person", "nobody"},
         Settle(asked, back, ok, by),
         ok \/ by \in {"person", "budget"} \/ ~person
  PROVE  Judged(asked, ok, by, "top")
<1>1. /\ last' = [op |-> asked, ok |-> ok, by |-> by, depth |-> "top"]
      /\ UNCHANGED <<settings, grants, mode, phase, approved, signed, yes>>
  BY DEF Asking, Settle, consents
<1>2. ~Hard(asked) /\ (Proposing(Top) /\ ~ReadsOnly(asked) => Agreed')
  BY <1>1 DEF SInv, Waiting, Agreed, settings
<1> QED
  BY <1>1, <1>2 DEF Judged

\* A subagent's call.
LEMMA ChildJudged ==
  ASSUME NEW o, NEW reads \in BOOLEAN, ChildCall(o, reads)
  PROVE  \E ok \in BOOLEAN, depth \in {"serial", "parallel"} : Judged(o, ok, "engine", depth)
<1> DEFINE ok == last'.ok
           depth == IF reads THEN "parallel" ELSE "serial"
           c == Child(reads)
<1>1. /\ ok \in BOOLEAN
      /\ last' = [op |-> o, ok |-> ok, by |-> "engine", depth |-> depth]
      /\ UNCHANGED <<settings, grants, mode, phase, approved, signed>>
      /\ ok => Tier(o, c) = "allow"
  BY DEF ChildCall, consents
<1>2. ok => ~Hard(o)
  BY <1>1, TierHard
<1>3. ok /\ (reads \/ Proposing(Top)) => ReadsOnly(o)
  <2> SUFFICES ASSUME ok, reads \/ Proposing(Top) PROVE ReadsOnly(o)
    OBVIOUS
  <2>1. CASE c.mode = "plan"
    BY <1>1, <2>1, TierPlan, TierPlanMove
  <2>2. CASE c.mode # "plan"
    <3>1. Proposing(c) /\ c.phase = "investigate" /\ c.graduated = FALSE
      BY <2>2 DEF Child, Proposing, Top, Locked
    <3> QED
      BY <1>1, <3>1, TierProposing DEF Relaxed
  <2> QED
    BY <2>1, <2>2
<1>4. Judged(o, ok, "engine", depth)
  BY <1>1, <1>2, <1>3 DEF Judged
<1> QED
  BY <1>1, <1>4

\* Every step decides nothing, or is a decision that is judged.
LEMMA StepDecisions == ASSUME SInv, [Next]_vars PROVE Decisions'
<1>1. CASE UNCHANGED vars
  <2>1. UNCHANGED <<settings, grants, mode, phase, approved, signed, yes, last>>
    BY <1>1 DEF vars, settings, grants
  <2>2. PICK o : o = last.op
    OBVIOUS
  <2>3. /\ last' = last /\ last'.op = o
        /\ Hard(o)' <=> Hard(o)
        /\ Matches(rules.allow, o)' <=> Matches(rules.allow, o)
        /\ ReadsOnly(o)' <=> ReadsOnly(o)
        /\ Proposing(Top)' <=> Proposing(Top)
    BY <2>1, <2>2, HardSame, RulesSame, ProposingSame
  <2>4. NothingHard' /\ ReadOnlyUntilApproved' /\ ChildrenReadOnly'
    BY <2>1, <2>2, <2>3 DEF SInv, Decisions, NothingHard, ReadOnlyUntilApproved,
       ChildrenReadOnly, Ran, settings
  <2>5. OnlyTheListUnasked' /\ OffPlanAsked'
    BY <2>1, <2>2, <2>3 DEF SInv, Decisions, OnlyTheListUnasked, OffPlanAsked, Ran,
       Signed, PathsOf, Destructive, IsCommand
  <2>6. HumanBackstop'
    BY <2>1, <2>2, <2>3 DEF SInv, Decisions, HumanBackstop, Refused, settings
  <2> QED
    BY <2>4, <2>5, <2>6 DEF Decisions
<1>2. CASE Next
  <2>1. CASE last' = Nothing
    BY <2>1, QuietDecisions
  <2>2. ASSUME NEW o, NEW ok \in BOOLEAN, NEW by, NEW depth, Judged(o, ok, by, depth)
        PROVE  Decisions'
    BY <2>2, JudgedDecisions DEF SInv
  <2>3. CASE StartTurn \/ EndTurn \/ Approve \/ LeavePatch
    BY <2>1, <2>3 DEF StartTurn, EndTurn, Approve, LeavePatch
  <2>4. CASE OutOfBudget
    BY <2>2, <2>4, AnswerJudged DEF OutOfBudget, Asking
  <2>5. CASE \E m \in Modes : SetMode(m)
    BY <2>1, <2>5 DEF SetMode
  <2>6. CASE \E d \in Dirs \ {Workspace} : AddDir(d) \/ RequestDir(d)
    BY <2>1, <2>6 DEF AddDir, RequestDir
  <2>7. ASSUME NEW o \in Calls, Decide(o) PROVE Decisions'
    <3>1. CASE Tier(o, Top) = "ask"
      BY <2>1, <2>7, <3>1 DEF Decide, PutTo
    <3>2. CASE Tier(o, Top) # "ask"
      BY <2>2, <2>7, <3>2, DecideJudged
    <3> QED
      BY <3>1, <3>2
  <2>8. ASSUME NEW o \in Calls, NEW reads \in BOOLEAN, ChildCall(o, reads) PROVE Decisions'
    BY <2>2, <2>8, ChildJudged
  <2>9. ASSUME NEW o \in Calls, NEW ok \in BOOLEAN, Unlock(o, ok) PROVE Decisions'
    <3>1. CASE ok /\ Doubted(o, Top)
      BY <2>1, <2>9, <3>1 DEF Unlock, PutTo
    <3>2. CASE ~(ok /\ Doubted(o, Top))
      BY <2>2, <2>9, <3>2, UnlockJudged
    <3> QED
      BY <3>1, <3>2
  <2>10. ASSUME NEW ok \in BOOLEAN, AskHook(ok) PROVE Decisions'
    BY <2>2, <2>10, AnswerJudged DEF AskHook, Asking
  <2>11. ASSUME NEW ok \in BOOLEAN, AskPerson(ok) PROVE Decisions'
    BY <2>2, <2>11, AnswerJudged DEF AskPerson, Asking
  <2>12. ASSUME NEW v \in BOOLEAN, NEW ok \in BOOLEAN, AskGuardian(v, ok) PROVE Decisions'
    BY <2>2, <2>12, AnswerJudged DEF AskGuardian, Asking
  <2>13. ASSUME NEW plan \in Plans, NEW ok \in BOOLEAN, Propose(plan, ok) PROVE Decisions'
    BY <2>1, <2>13 DEF Propose
  <2> QED
    BY <1>2, <2>3, <2>4, <2>5, <2>6, <2>7, <2>8, <2>9, <2>10, <2>11, <2>12, <2>13 DEF Next
<1> QED
  BY <1>1, <1>2

\* Who has agreed to what.
LEMMA StepConsent == ASSUME SInv, [Next]_vars PROVE Consent'
<1>1. ASSUME UNCHANGED <<settings, consents>> PROVE Consent'
  BY <1>1 DEF SInv, Consent, settings, consents
<1>2. CASE UNCHANGED vars
  BY <1>1, <1>2 DEF vars, settings, consents
<1>3. CASE Next
  <2>1. CASE StartTurn
    BY <2>1 DEF StartTurn, SInv, Consent, settings, Locked
  <2>2. CASE EndTurn \/ LeavePatch \/ OutOfBudget
    BY <1>1, <2>2 DEF EndTurn, LeavePatch, OutOfBudget, Asking
  <2>3. CASE Approve
    BY <2>3 DEF Approve, SInv, Consent, settings
  <2>4. CASE \E m \in Modes : SetMode(m)
    BY <1>1, <2>4 DEF SetMode
  <2>5. CASE \E d \in Dirs \ {Workspace} : AddDir(d) \/ RequestDir(d)
    BY <1>1, <2>5 DEF AddDir, RequestDir
  <2>6. CASE \E o \in Calls : Decide(o) \/ \E reads \in BOOLEAN : ChildCall(o, reads)
    BY <1>1, <2>6 DEF Decide, ChildCall
  <2>7. CASE \E o \in Calls, ok \in BOOLEAN : Unlock(o, ok)
    BY <2>7 DEF Unlock, SInv, Consent, settings
  <2>8. CASE \E ok \in BOOLEAN : AskHook(ok) \/ AskPerson(ok)
    BY <1>1, <2>8 DEF AskHook, AskPerson, Asking
  <2>9. CASE \E v, ok \in BOOLEAN : AskGuardian(v, ok)
    BY <1>1, <2>9 DEF AskGuardian, Asking
  <2>10. CASE \E plan \in Plans, ok \in BOOLEAN : Propose(plan, ok)
    BY <2>10 DEF Propose, SInv, Consent, settings
  <2> QED
    BY <1>3, <2>1, <2>2, <2>3, <2>4, <2>5, <2>6, <2>7, <2>8, <2>9, <2>10 DEF Next
<1> QED
  BY <1>2, <1>3

\* A call that is put to somebody has passed what cannot be overridden.
LEMMA StepWaiting == ASSUME SInv, [Next]_vars PROVE Waiting'
<1>1. ASSUME pc' # "ask" PROVE Waiting'
  BY <1>1 DEF Waiting
<1>2. ASSUME NEW o, UNCHANGED <<settings, grants, mode>>, asked' = o, ~Hard(o),
             Proposing(Top) /\ ~ReadsOnly(o) => Agreed'
      PROVE  Waiting'
  BY <1>2, HardSame, RulesSame, ProposingSame DEF Waiting
<1>3. CASE UNCHANGED vars
  <2>1. CASE pc = "ask"
    BY <1>2, <1>3, <2>1 DEF vars, settings, grants, SInv, Waiting, Agreed
  <2>2. CASE pc # "ask"
    BY <1>1, <1>3, <2>2 DEF vars
  <2> QED
    BY <2>1, <2>2
<1>4. CASE Next
  <2>1. CASE StartTurn \/ EndTurn \/ Approve \/ LeavePatch \/ OutOfBudget
    BY <1>1, <2>1 DEF StartTurn, EndTurn, Approve, LeavePatch, OutOfBudget, Settle
  <2>2. CASE \E m \in Modes : SetMode(m)
    BY <1>1, <2>2 DEF SetMode
  <2>3. CASE \E d \in Dirs \ {Workspace} : AddDir(d) \/ RequestDir(d)
    BY <1>1, <2>3 DEF AddDir, RequestDir
  <2>4. ASSUME NEW o \in Calls, Decide(o) PROVE Waiting'
    <3>1. CASE Tier(o, Top) = "ask"
      <4>1. /\ UNCHANGED <<settings, grants, mode, yes>> /\ asked' = o
            /\ ~Hard(o)
        BY <2>4, <3>1, TierHard DEF Decide, PutTo, consents
      <4>2. Proposing(Top) /\ ~ReadsOnly(o) => Agreed
        BY <3>1, TierProposing DEF SInv, Consent, Agreed, Relaxed, Top
      <4>3. Agreed => Agreed'
        BY <4>1 DEF Agreed, settings
      <4> QED
        BY <1>2, <4>1, <4>2, <4>3
    <3>2. CASE Tier(o, Top) # "ask"
      BY <1>1, <2>4, <3>2 DEF Decide, Settle
    <3> QED
      BY <3>1, <3>2
  <2>5. ASSUME NEW o \in Calls, NEW reads \in BOOLEAN, ChildCall(o, reads) PROVE Waiting'
    BY <1>1, <2>5 DEF ChildCall
  <2>6. ASSUME NEW o \in Calls, NEW ok \in BOOLEAN, Unlock(o, ok) PROVE Waiting'
    <3>1. CASE ok /\ Doubted(o, Top)
      <4>1. UNCHANGED <<settings, grants, mode>> /\ asked' = o /\ ~Hard(o) /\ Agreed'
        BY <2>6, <3>1, TierUnlock DEF Unlock, PutTo, Agreed
      <4> QED
        BY <1>2, <4>1
    <3>2. CASE ~(ok /\ Doubted(o, Top))
      BY <1>1, <2>6, <3>2 DEF Unlock, Settle
    <3> QED
      BY <3>1, <3>2
  <2>7. CASE \E ok \in BOOLEAN : AskHook(ok) \/ AskPerson(ok)
    BY <1>1, <2>7 DEF AskHook, AskPerson, Settle
  <2>8. CASE \E v, ok \in BOOLEAN : AskGuardian(v, ok)
    BY <1>1, <2>8 DEF AskGuardian, Settle
  <2>9. CASE \E plan \in Plans, ok \in BOOLEAN : Propose(plan, ok)
    BY <1>1, <2>9 DEF Propose
  <2> QED
    BY <1>4, <2>1, <2>2, <2>3, <2>4, <2>5, <2>6, <2>7, <2>8, <2>9 DEF Next
<1> QED
  BY <1>3, <1>4

\* The strengthening is an invariant.
LEMMA DecisionsInvariant == Spec => []SInv
<1>1. Init => SInv
  <2> SUFFICES ASSUME Init PROVE SInv
    OBVIOUS
  <2>1. Consent /\ Waiting
    BY DEF Init, Consent, Waiting
  <2>2. Decisions
    BY DEF Init, Nothing, Decisions, NothingHard, ReadOnlyUntilApproved,
       OnlyTheListUnasked, OffPlanAsked, HumanBackstop, ChildrenReadOnly, Ran, Refused
  <2> QED
    BY <2>1, <2>2 DEF SInv
<1>2. SInv /\ [Next]_vars => SInv'
  BY StepDecisions, StepConsent, StepWaiting DEF SInv
<1> QED
  BY <1>1, <1>2, PTL DEF Spec

-----------------------------------------------------------------------------
(* The cap. *)

\* Counting one more answer keeps within the cap, if the budget was asked.
LEMMA CountedWithin ==
  ASSUME IsFiniteSet(seen), Cap # 0 => Cardinality(seen) <= Cap, NEW o, NEW ok \in BOOLEAN,
         ~OverBudget(o), seen' = Counted(o, ok)
  PROVE  /\ IsFiniteSet(seen')
         /\ Cap # 0 => Cardinality(seen') <= Cap
         /\ ok /\ Destructive(o) => Key(o) \in seen'
<1>1. CASE ok /\ Destructive(o)
  <2>1. seen' = seen \cup {Key(o)}
    BY <1>1 DEF Counted
  <2>2. Cardinality(seen) \in Nat /\ Cap \in Nat
    BY FS_CardinalityType, PermissionsAssumption
  <2>3. CASE Key(o) \in seen
    <3>1. seen' = seen
      BY <2>1, <2>3
    <3> QED
      BY <2>3, <3>1
  <2>4. CASE Key(o) \notin seen
    <3>1. IsFiniteSet(seen') /\ Cardinality(seen') = Cardinality(seen) + 1
      BY <2>1, <2>4, FS_AddElement
    <3>2. Cap # 0 => ~(Cardinality(seen) >= Cap)
      BY <1>1, <2>4 DEF OverBudget
    <3> QED
      BY <2>1, <2>2, <3>1, <3>2
  <2> QED
    BY <2>3, <2>4
<1>2. CASE ~(ok /\ Destructive(o))
  <2>1. seen' = seen
    BY <1>2 DEF Counted
  <2> QED
    BY <1>2, <2>1
<1> QED
  BY <1>1, <1>2

CInv == IsFiniteSet(seen) /\ CapHolds

\* Every step keeps the cap.
LEMMA StepCap == ASSUME CInv, [Next]_vars PROVE CInv'
<1>1. /\ IsFiniteSet(seen)
      /\ Cap # 0 => Cardinality(seen) <= Cap
  BY DEF CInv, CapHolds
<1>2. ASSUME seen' = seen, ~last'.ok \/ last'.by \notin {"hook", "guardian"} PROVE CInv'
  BY <1>1, <1>2 DEF CInv, CapHolds, Ran
<1>3. ASSUME last' = Nothing PROVE ~last'.ok
  BY <1>3 DEF Nothing
<1>4. ASSUME NEW o, NEW ok \in BOOLEAN, NEW by, ~OverBudget(o), seen' = Counted(o, ok),
             last' = [op |-> o, ok |-> ok, by |-> by, depth |-> "top"]
      PROVE  CInv'
  <2>1. /\ IsFiniteSet(seen')
        /\ Cap # 0 => Cardinality(seen') <= Cap
        /\ ok /\ Destructive(o) => Key(o) \in seen'
    BY <1>1, <1>4, CountedWithin
  <2>2. last'.op = o /\ last'.ok = ok
    BY <1>4
  <2>3. Destructive(last.op)' <=> Destructive(o)
    BY <2>2 DEF Destructive, IsCommand
  <2>4. Key(last.op)' = Key(o)
    BY <2>2 DEF Key
  <2> QED
    BY <2>1, <2>2, <2>3, <2>4 DEF CInv, CapHolds, Ran
<1>5. CASE UNCHANGED vars
  BY <1>5 DEF vars, CInv, CapHolds, Ran, Destructive, IsCommand, Key
<1>6. CASE Next
  <2>1. CASE StartTurn
    <3>1. seen' = {} /\ ~last'.ok
      BY <1>3, <2>1 DEF StartTurn
    <3>2. IsFiniteSet(seen') /\ Cardinality(seen') = 0
      BY <3>1, FS_EmptySet
    <3> QED
      BY <3>1, <3>2, PermissionsAssumption DEF CInv, CapHolds, Ran
  <2>2. CASE EndTurn \/ Approve \/ LeavePatch
    BY <1>2, <1>3, <2>2 DEF EndTurn, Approve, LeavePatch
  <2>3. CASE OutOfBudget
    BY <1>2, <2>3 DEF OutOfBudget, Settle
  <2>4. CASE \E m \in Modes : SetMode(m)
    BY <1>2, <1>3, <2>4 DEF SetMode
  <2>5. CASE \E d \in Dirs \ {Workspace} : AddDir(d) \/ RequestDir(d)
    BY <1>2, <1>3, <2>5 DEF AddDir, RequestDir
  <2>6. ASSUME NEW o \in Calls, Decide(o) PROVE CInv'
    BY <1>2, <1>3, <2>6 DEF Decide, PutTo, Settle
  <2>7. ASSUME NEW o \in Calls, NEW reads \in BOOLEAN, ChildCall(o, reads) PROVE CInv'
    BY <1>2, <2>7 DEF ChildCall
  <2>8. ASSUME NEW o \in Calls, NEW ok \in BOOLEAN, Unlock(o, ok) PROVE CInv'
    BY <1>2, <1>3, <2>8 DEF Unlock, PutTo, Settle
  <2>9. ASSUME NEW ok \in BOOLEAN, AskHook(ok) PROVE CInv'
    BY <1>4, <2>9 DEF AskHook, Settle
  <2>10. ASSUME NEW ok \in BOOLEAN, AskPerson(ok) PROVE CInv'
    BY <1>2, <2>10 DEF AskPerson, Settle
  <2>11. ASSUME NEW v \in BOOLEAN, NEW ok \in BOOLEAN, AskGuardian(v, ok) PROVE CInv'
    <3>1. CASE v \/ ~person
      BY <1>4, <2>11, <3>1 DEF AskGuardian, Settle
    <3>2. CASE ~(v \/ ~person)
      <4>1. seen' = seen
        BY <2>11, <3>2 DEF AskGuardian, Counted
      <4> QED
        BY <1>2, <2>11, <3>2, <4>1 DEF AskGuardian, Settle
    <3> QED
      BY <3>1, <3>2
  <2>12. ASSUME NEW plan \in Plans, NEW ok \in BOOLEAN, Propose(plan, ok) PROVE CInv'
    BY <1>2, <1>3, <2>12 DEF Propose
  <2> QED
    BY <1>6, <2>1, <2>2, <2>3, <2>4, <2>5, <2>6, <2>7, <2>8, <2>9, <2>10, <2>11, <2>12
       DEF Next
<1> QED
  BY <1>5, <1>6

-----------------------------------------------------------------------------
(* Types. *)

\* A call is not the mark for "no call".
LEMMA OpIsSome == ASSUME NEW o \in Op PROVE o # NoOp
<1>1. o.tool # "none"
  <2>1. o.tool \in Editors \cup {"read_file", "run_command", "pursue", "apply_patch",
                                "apply_patch move"}
    BY DEF Op
  <2> QED
    BY <2>1 DEF Editors
<1>2. NoOp.tool = "none"
  BY DEF NoOp
<1> QED
  BY <1>1, <1>2

\* The paths of a list are paths.
LEMMA PlanPathsType == ASSUME NEW plan \in Plans PROVE PlanPaths(plan) \subseteq Path
<1>1. plan \subseteq Item
  BY PermissionsAssumption
<1>2. ASSUME NEW i \in plan PROVE i.path \in Path /\ (i.action = "move" => i.from \in Path)
  BY <1>1, <1>2 DEF Item
<1> QED
  BY <1>2 DEF PlanPaths

\* How a call ends, or goes to somebody, leaves the types.
LEMMA SettleType ==
  ASSUME TypeOK, NEW o \in Op, NEW here \in {"turn", "patch"}, NEW ok \in BOOLEAN,
         NEW by \in Ends, Settle(o, here, ok, by)
  PROVE  /\ pc' \in {"turn", "patch"} /\ asked' = NoOp /\ back' \in {"turn", "patch"}
         /\ last' \in [op : Op \cup {NoOp}, ok : BOOLEAN, by : Ends,
                       depth : {"top", "serial", "parallel"}]
BY DEF Settle

LEMMA PutToType ==
  ASSUME TypeOK, NEW o \in Op, NEW here \in {"turn", "patch"}, PutTo(o, here)
  PROVE  /\ pc' = "ask" /\ asked' \in Op /\ asked' # NoOp /\ back' \in {"turn", "patch"}
         /\ last' = Nothing
BY OpIsSome DEF PutTo

\* What is common to most steps: the history and the place change, and the
\* ledgers grow by keys of calls.
Frame ==
  /\ UNCHANGED <<settings, grants, mode>>
  /\ pc' \in {"prompt", "turn", "patch", "ask", "off"}
  /\ asked' \in Op \cup {NoOp} /\ (pc' = "ask" <=> asked' # NoOp)
  /\ back' \in {"turn", "patch"}
  /\ seen' \subseteq {Key(o) : o \in Op}
  /\ cache' \subseteq {Key(o) : o \in Op} \X BOOLEAN
  /\ last' \in [op : Op \cup {NoOp}, ok : BOOLEAN, by : Ends,
                depth : {"top", "serial", "parallel"}]

LEMMA NothingType ==
  Nothing \in [op : Op \cup {NoOp}, ok : BOOLEAN, by : Ends,
              depth : {"top", "serial", "parallel"}]
BY DEF Nothing, Ends

LEMMA FrameType == ASSUME TypeOK, Frame, UNCHANGED consents PROVE TypeOK'
BY DEF TypeOK, Frame, consents, settings, grants

\* Every step keeps the types.
LEMMA StepType == ASSUME TypeOK, [Next]_vars PROVE TypeOK'
<1>0. Calls \subseteq Op
  BY PermissionsAssumption
<1>1. CASE UNCHANGED vars
  BY <1>1 DEF vars, settings, grants, consents, TypeOK
<1>2. CASE Next
  <2>1. CASE StartTurn
    BY <2>1, NothingType DEF StartTurn, TypeOK, settings, grants, Locked, NoPlan
  <2>2. CASE EndTurn \/ LeavePatch
    <3>1. Frame /\ UNCHANGED consents
      BY <2>2, NothingType DEF EndTurn, LeavePatch, Frame, TypeOK, consents
    <3> QED
      BY <3>1, FrameType
  <2>3. CASE Approve
    BY <2>3, NothingType DEF Approve, TypeOK, settings, grants
  <2>4. CASE OutOfBudget
    <3>1. asked \in Op /\ back \in {"turn", "patch"} /\ UNCHANGED consents
      BY <2>4 DEF OutOfBudget, Asking, TypeOK
    <3>2. Frame
      BY <2>4, <3>1, SettleType DEF OutOfBudget, Asking, Frame, TypeOK, Ends
    <3> QED
      BY <3>1, <3>2, FrameType
  <2>5. ASSUME NEW m \in Modes, SetMode(m) PROVE TypeOK'
    BY <2>5, NothingType DEF SetMode, TypeOK, settings, grants, consents
  <2>6. ASSUME NEW d \in Dirs \ {Workspace}, AddDir(d) \/ RequestDir(d) PROVE TypeOK'
    BY <2>6, NothingType DEF AddDir, RequestDir, TypeOK, settings, grants, consents
  <2>7. ASSUME NEW o \in Calls, Decide(o) PROVE TypeOK'
    <3>1. o \in Op /\ pc \in {"turn", "patch"} /\ UNCHANGED consents
      BY <1>0, <2>7 DEF Decide, Callable
    <3>2. CASE Tier(o, Top) = "ask"
      <4>1. Frame
        BY <2>7, <3>1, <3>2, PutToType, NothingType DEF Decide, Frame, TypeOK
      <4> QED
        BY <3>1, <4>1, FrameType
    <3>3. CASE Tier(o, Top) # "ask"
      <4>1. PICK k \in BOOLEAN : Settle(o, pc, k, "engine")
        BY <2>7, <3>3 DEF Decide
      <4>2. Frame
        BY <2>7, <3>1, <4>1, SettleType DEF Decide, Frame, TypeOK, Ends
      <4> QED
        BY <3>1, <4>2, FrameType
    <3> QED
      BY <3>2, <3>3
  <2>8. ASSUME NEW o \in Calls, NEW reads \in BOOLEAN, ChildCall(o, reads) PROVE TypeOK'
    <3>1. last' \in [op : Op \cup {NoOp}, ok : BOOLEAN, by : Ends,
                    depth : {"top", "serial", "parallel"}]
      BY <1>0, <2>8 DEF ChildCall, Ends
    <3>2. Frame /\ UNCHANGED consents
      BY <2>8, <3>1 DEF ChildCall, Frame, TypeOK
    <3> QED
      BY <3>2, FrameType
  <2>9. ASSUME NEW o \in Calls, NEW ok \in BOOLEAN, Unlock(o, ok) PROVE TypeOK'
    <3>1. o \in Op /\ pc \in {"turn", "patch"}
      BY <1>0, <2>9 DEF Unlock, Callable
    <3>2. Frame
      BY <2>9, <3>1, SettleType, PutToType, NothingType DEF Unlock, Frame, TypeOK, Ends
    <3>3. /\ graduated' \in BOOLEAN /\ yes' \in {"never", "before", "turn"}
          /\ graduated => graduated'
          /\ UNCHANGED <<phase, approved, manifest, signed>>
      BY <2>9 DEF Unlock, TypeOK
    <3> QED
      BY <3>2, <3>3 DEF Frame, TypeOK, settings, grants
  <2>10. ASSUME NEW ok \in BOOLEAN, AskHook(ok) \/ AskPerson(ok) PROVE TypeOK'
    <3>1. asked \in Op /\ back \in {"turn", "patch"} /\ UNCHANGED consents
      BY <2>10 DEF AskHook, AskPerson, Asking, TypeOK
    <3>2. seen' \subseteq {Key(o) : o \in Op} /\ UNCHANGED cache
      BY <2>10, <3>1 DEF AskHook, AskPerson, Counted, TypeOK
    <3>3. PICK by \in Ends, k \in BOOLEAN : Settle(asked, back, k, by)
      BY <2>10 DEF AskHook, AskPerson, Ends
    <3>4. UNCHANGED <<settings, grants, mode>>
      BY <2>10 DEF AskHook, AskPerson, Asking
    <3>5. Frame
      BY <3>1, <3>2, <3>3, <3>4, SettleType DEF Frame, TypeOK
    <3> QED
      BY <3>1, <3>5, FrameType
  <2>11. ASSUME NEW v \in BOOLEAN, NEW ok \in BOOLEAN, AskGuardian(v, ok) PROVE TypeOK'
    <3>1. asked \in Op /\ back \in {"turn", "patch"} /\ UNCHANGED consents
      BY <2>11 DEF AskGuardian, Asking, TypeOK
    <3>2. seen' \subseteq {Key(o) : o \in Op}
      BY <2>11, <3>1 DEF AskGuardian, Counted, TypeOK
    <3>3. cache' \subseteq {Key(o) : o \in Op} \X BOOLEAN
      BY <2>11, <3>1 DEF AskGuardian, TypeOK
    <3>4. PICK by \in Ends, k \in BOOLEAN : Settle(asked, back, k, by)
      BY <2>11 DEF AskGuardian, Ends
    <3>5. Frame
      BY <2>11, <3>1, <3>2, <3>3, <3>4, SettleType DEF AskGuardian, Asking, Frame, TypeOK
    <3> QED
      BY <3>1, <3>5, FrameType
  <2>12. ASSUME NEW plan \in Plans, NEW ok \in BOOLEAN, Propose(plan, ok) PROVE TypeOK'
    BY <2>12, PlanPathsType, NothingType DEF Propose, TypeOK, settings, grants
  <2> QED
    BY <1>2, <2>1, <2>2, <2>3, <2>4, <2>5, <2>6, <2>7, <2>8, <2>9, <2>10, <2>11, <2>12
       DEF Next
<1> QED
  BY <1>1, <1>2

-----------------------------------------------------------------------------
(* The theorems. *)

\* The types, among them: an approved phase means that something was approved
\* in this session, and a list of paths that the phase is approved.
THEOREM TypeCorrect == Spec => []TypeOK
<1>1. Init => TypeOK
  <2> SUFFICES ASSUME Init PROVE TypeOK
    OBVIOUS
  <2>1. roots \subseteq Dirs /\ readable \subseteq Dirs
    BY PermissionsAssumption DEF Init
  <2>2. /\ last = Nothing /\ asked = NoOp /\ pc = "prompt"
        /\ manifest \in [items : Plans \cup {{}}, approved : BOOLEAN]
    BY DEF Init, NoPlan
  <2> QED
    BY <2>1, <2>2, NothingType DEF Init, TypeOK
<1>2. TypeOK /\ [Next]_vars => TypeOK'
  BY StepType
<1> QED
  BY <1>1, <1>2, PTL DEF Spec

\* What a call amounts to is among the calls that the rules are asked about.
LEMMA EffectsAreSubjects == ASSUME NEW o PROVE Effects(o) \subseteq Subjects(o)
<1>1. CASE o.tool = "apply_patch move"
  BY <1>1 DEF Effects, Subjects
<1>2. CASE o.tool = "run_command"
  BY <1>2 DEF Effects, Subjects, IsCommand
<1>3. CASE o.tool = "pursue"
  BY <1>3 DEF Effects, Subjects, IsCommand
<1>4. CASE o.tool \notin {"apply_patch move", "run_command", "pursue"}
  BY <1>4 DEF Effects, Subjects, IsCommand
<1> QED
  BY <1>1, <1>2, <1>3, <1>4

\* The files among them are those that the fence is asked about.
LEMMA EffectsAreFenced ==
  ASSUME NEW o, NEW e \in Effects(o), e[1] \in Editors \cup {"read_file"}
  PROVE  /\ e[2] \in PathsOf(o)
         /\ e[1] \in Editors => o.tool # "read_file"
         /\ o.tool # "apply_patch move" => e = <<o.tool, o.target>>
<1>1. CASE o.tool = "apply_patch move"
  <2>1. e = <<"delete_file", o.from>> \/ e = <<"write_file", o.target>>
    BY <1>1 DEF Effects
  <2>2. PathsOf(o) = {o.from, o.target} /\ o.tool # "read_file"
    BY <1>1 DEF PathsOf
  <2>3. e[2] \in {o.from, o.target}
    <3>1. \A x, y : <<x, y>>[2] = y
      OBVIOUS
    <3> QED
      BY <2>1, <3>1
  <2> QED
    BY <1>1, <2>2, <2>3
<1>2. CASE o.tool \in {"run_command", "pursue"}
  <2>1. CASE o.tool = "pursue"
    <3>1. e = <<"pursue", Line[o.target]>>
      BY <2>1 DEF Effects, IsCommand
    <3> QED
      BY <3>1 DEF Editors
  <2>2. CASE o.tool = "run_command"
    <3>1. PICK C : Effects(o) = {"run_command"} \X C
      BY <2>2 DEF Effects, IsCommand
    <3>2. e[1] = "run_command"
      BY <3>1
    <3> QED
      BY <3>2 DEF Editors
  <2> QED
    BY <1>2, <2>1, <2>2
<1>3. CASE o.tool \notin {"apply_patch move", "run_command", "pursue"}
  <2>1. e = <<o.tool, o.target>>
    BY <1>3 DEF Effects, IsCommand
  <2> QED
    BY <1>3, <2>1 DEF PathsOf, Editors
<1> QED
  BY <1>1, <1>2, <1>3

\* Nothing is done that a deny rule names or the fence keeps out, whatever the
\* mode, the list, a reviewer or the person say; nor, but for a move, what a
\* hook refuses or a protected path forbids (Permissions.decide, decide_move).
THEOREM HardRules == Spec => []HardRulesHold
<1>1. SInv => HardRulesHold
  <2> SUFFICES ASSUME Ran, ~Hard(last.op)
               PROVE  HardRulesHold
    BY DEF SInv, Decisions, NothingHard, HardRulesHold
  <2> DEFINE o == last.op
  <2>1. Subjects(o) \cap rules.deny = {} /\ ~Fixed(o)
        /\ \A p \in PathsOf(o) : Within(p, o.tool # "read_file")
    BY DEF Hard, Matches
  <2> HIDE DEF o
  <2>2. Effects(o) \cap rules.deny = {}
    BY <2>1, EffectsAreSubjects
  <2>3. ASSUME NEW e \in Effects(o), e[1] \in Editors \cup {"read_file"}
        PROVE  Within(e[2], e[1] \in Editors)
    <3>1. e[2] \in PathsOf(o) /\ (e[1] \in Editors => o.tool # "read_file")
      BY <2>3, EffectsAreFenced
    <3>2. Within(e[2], o.tool # "read_file")
      BY <2>1, <3>1
    <3> QED
      BY <3>1, <3>2 DEF Within
  <2>4. "hooks" \in flags => <<o.tool, o.target>> \notin HookDeny
    BY <2>1 DEF Fixed, Hooked
  <2>5. IsCommand(o) => o.target \notin SelfKills
    BY <2>1 DEF Fixed
  <2>6. ASSUME o.tool # "apply_patch move",
               NEW e \in Effects(o), e \in Editors \X Reserved \cup {"read_file"} \X Secret
        PROVE  FALSE
    <3>1. e[1] \in Editors \cup {"read_file"}
      BY <2>6
    <3>2. e = <<o.tool, o.target>>
      BY <2>6, <3>1, EffectsAreFenced
    <3> QED
      BY <2>1, <2>6, <3>2 DEF Fixed
  <2> QED
    BY <2>2, <2>3, <2>4, <2>5, <2>6 DEF HardRulesHold, o
<1> QED
  BY <1>1, DecisionsInvariant, PTL

\* Propose mode changes nothing before the person has agreed to a change
\* (_propose_gate, _reset_propose_for_turn).
THEOREM ProposeReadsOnly == Spec => []ReadOnlyUntilApproved
<1>1. SInv => ReadOnlyUntilApproved
  BY DEF SInv, Decisions
<1> QED
  BY <1>1, DecisionsInvariant, PTL

\* What propose mode does without a question is on the signed list, or is
\* allowed by a rule of the user's (_propose_gate, decide_move).
THEOREM ListOnly == Spec => []OnlyTheListUnasked
<1>1. SInv => OnlyTheListUnasked
  BY DEF SInv, Decisions
<1> QED
  BY <1>1, DecisionsInvariant, PTL

\* Nothing destructive that is off the signed list runs unasked, whatever the
\* mode (_escalate_allow, decide_move).
THEOREM OffPlanEscalated == Spec => []OffPlanAsked
<1>1. SInv => OffPlanAsked
  BY DEF SInv, Decisions
<1> QED
  BY <1>1, DecisionsInvariant, PTL

\* A present person is overruled by hard rules, a reading mode and the cap
\* only (_ask_approver).
THEOREM PersonDecides == Spec => []HumanBackstop
<1>1. SInv => HumanBackstop
  BY DEF SInv, Decisions
<1> QED
  BY <1>1, DecisionsInvariant, PTL

\* Children that run in parallel, and all children in propose mode, only read
\* (readonly_view, _child_permissions).
THEOREM ChildrenRead == Spec => []ChildrenReadOnly
<1>1. SInv => ChildrenReadOnly
  BY DEF SInv, Decisions
<1> QED
  BY <1>1, DecisionsInvariant, PTL

\* The destructive calls that reviewers let through in a turn stay within the
\* cap, and each of them is counted (_ask_approver).
THEOREM CapKept == Spec => []CapHolds
<1>1. Init => CInv
  <2> SUFFICES ASSUME Init PROVE CInv
    OBVIOUS
  <2>1. seen = {} /\ ~last.ok
    BY DEF Init, Nothing
  <2> QED
    BY <2>1, FS_EmptySet, PermissionsAssumption DEF CInv, CapHolds, Ran
<1>2. CInv /\ [Next]_vars => CInv'
  BY StepCap
<1>3. CInv => CapHolds
  BY DEF CInv
<1> QED
  BY <1>1, <1>2, <1>3, PTL DEF Spec
-----------------------------------------------------------------------------
(***************************************************************************)
(* A signed list can be carried out.  It is the one the phase rests on,    *)
(* and the check before the approval, which probes each item with every    *)
(* tool that may carry it out, still holds: what it reads only grows in a  *)
(* turn.                                                                   *)
(***************************************************************************)

Feasible ==
  manifest.approved =>
    /\ phase = "approved" /\ approved = PlanPaths(manifest.items)
    /\ ~Blocked(manifest.items)

\* More granted directories block nothing that was not blocked.
LEMMA BlockedLess ==
  ASSUME NEW plan, UNCHANGED <<flags, rules>>, roots \subseteq roots', ~Blocked(plan)
  PROVE  ~Blocked(plan)'
<1>1. ASSUME NEW i \in plan, NEW o \in Probes(i), HardBlock(o)' PROVE HardBlock(o)
  <2>1. CASE Hooked(HookDeny, o)'
    BY <2>1 DEF Hooked, HardBlock
  <2>2. CASE Matches(rules.deny, o)'
    BY <2>2 DEF Matches, Subjects, HardBlock
  <2>3. CASE \E p \in PathsOf(o) : ~Within(p, TRUE)'
    <3>1. PICK p \in PathsOf(o) : ~Within(p, TRUE)'
      BY <2>3
    <3>2. Home[p] \notin {Workspace} \cup roots'
      BY <3>1 DEF Within
    <3>3. Home[p] \notin {Workspace} \cup roots
      BY <3>2
    <3>4. ~Within(p, TRUE)
      BY <3>3 DEF Within
    <3> QED
      BY <3>4 DEF HardBlock
  <2> QED
    BY <1>1, <2>1, <2>2, <2>3 DEF HardBlock, PathsOf
<1> QED
  BY <1>1 DEF Blocked, Probes

LEMMA StepFeasible == ASSUME Feasible, [Next]_vars PROVE Feasible'
<1>same. ASSUME UNCHANGED <<flags, rules, manifest, phase, approved>>, roots \subseteq roots'
         PROVE  Feasible'
  <2>1. PlanPaths(manifest.items)' = PlanPaths(manifest.items)
    BY <1>same DEF PlanPaths
  <2>2. ~Blocked(manifest.items) => ~Blocked(manifest.items)'
    <3> SUFFICES ASSUME ~Blocked(manifest.items) PROVE ~Blocked(manifest.items)'
      OBVIOUS
    <3>1. PICK plan : plan = manifest.items
      OBVIOUS
    <3>2. ~Blocked(plan)
      BY <3>1
    <3>3. ~Blocked(plan)'
      BY <1>same, <3>2, BlockedLess
    <3> QED
      BY <1>same, <3>1, <3>3 DEF Blocked, HardBlock, Hooked, Matches, Subjects, PathsOf, Within, Probes
  <2> QED
    BY <1>same, <2>1, <2>2 DEF Feasible
<1>none. ASSUME ~manifest'.approved PROVE Feasible'
  BY <1>none DEF Feasible
<1>1. CASE UNCHANGED vars
  BY <1>1, <1>same DEF vars
<1>2. CASE StartTurn
  BY <1>2, <1>none DEF StartTurn, NoPlan
<1>3. CASE EndTurn \/ LeavePatch \/ OutOfBudget
  BY <1>3, <1>same DEF EndTurn, LeavePatch, OutOfBudget, Asking, settings, grants, consents
<1>4. CASE Approve
  BY <1>4, <1>same DEF Approve, settings, grants
<1>5. CASE \E m \in Modes : SetMode(m)
  BY <1>5, <1>same DEF SetMode, settings, grants, consents
<1>6. CASE \E d \in Dirs \ {Workspace} : AddDir(d) \/ RequestDir(d)
  BY <1>6, <1>same DEF AddDir, RequestDir, settings, consents
<1>7. CASE \E o \in Calls : Decide(o) \/ \E reads \in BOOLEAN : ChildCall(o, reads)
  BY <1>7, <1>same DEF Decide, ChildCall, settings, grants, consents
<1>8. CASE \E o \in Calls, ok \in BOOLEAN : Unlock(o, ok)
  BY <1>8, <1>same DEF Unlock, settings, grants
<1>9. CASE \E ok \in BOOLEAN : AskHook(ok) \/ AskPerson(ok)
  BY <1>9, <1>same DEF AskHook, AskPerson, Asking, settings, grants, consents
<1>10. CASE \E v, ok \in BOOLEAN : AskGuardian(v, ok)
  BY <1>10, <1>same DEF AskGuardian, Asking, settings, grants, consents
<1>11. CASE \E plan \in Plans, ok \in BOOLEAN : Propose(plan, ok)
  <2>1. PICK plan \in Plans, ok \in BOOLEAN : Propose(plan, ok)
    BY <1>11
  <2>2. CASE ok
    <3>1. /\ manifest'.items = plan /\ phase' = "approved" /\ approved' = PlanPaths(plan)
          /\ ~Blocked(plan) /\ UNCHANGED <<flags, rules, roots>>
      BY <2>1, <2>2 DEF Propose, settings, grants
    <3>2. ~Blocked(plan)'
      BY <3>1, BlockedLess
    <3>3. ~Blocked(manifest.items)'
      BY <3>1, <3>2 DEF Blocked, HardBlock, Hooked, Matches, Subjects, PathsOf, Within, Probes
    <3> QED
      BY <3>1, <3>3 DEF Feasible, PlanPaths
  <2>3. CASE ~ok
    BY <2>1, <2>3, <1>none DEF Propose
  <2> QED
    BY <2>2, <2>3
<1> QED
  BY <1>1, <1>2, <1>3, <1>4, <1>5, <1>6, <1>7, <1>8, <1>9, <1>10, <1>11 DEF Next

\* Nothing hard stands against an item that the check has let through.
LEMMA ItemFree ==
  ASSUME NEW plan, ~Blocked(plan), NEW i \in plan, i \in Item, PlanPaths(plan) \cap Reserved = {}
  PROVE  /\ ~Hard(Carries(i))
         /\ PathsOf(Carries(i)) # {} /\ PathsOf(Carries(i)) \subseteq PlanPaths(plan)
         /\ ~ReadsOnly(Carries(i)) /\ ~IsCommand(Carries(i))
         /\ Carries(i).tool \in Editors \cup {"apply_patch move"}
         /\ Carries(i).tool = "apply_patch move" => ~Hooked(HookAsk, Carries(i))
<1>1. \A o \in Probes(i) : /\ <<o.tool, o.target>> \notin HookDeny \/ "hooks" \notin flags
                           /\ Subjects(o) \cap rules.deny = {}
                           /\ \A p \in PathsOf(o) : Home[p] \in {Workspace} \cup roots
  BY DEF Blocked, HardBlock, Hooked, Matches, Within
<1>2. i.path \in PlanPaths(plan) /\ (i.action = "move" => i.from \in PlanPaths(plan))
  BY DEF PlanPaths
<1>3. ASSUME NEW tool \in Editors, NEW p \in Path, [tool |-> tool, target |-> p] \in Probes(i),
             p \in PlanPaths(plan), Carries(i) = [tool |-> tool, target |-> p]
      PROVE  /\ ~Hard(Carries(i))
             /\ PathsOf(Carries(i)) = {p} /\ ~ReadsOnly(Carries(i)) /\ ~IsCommand(Carries(i))
             /\ Carries(i).tool = tool
  <2> DEFINE o == [tool |-> tool, target |-> p]
  <2>1. o \in Probes(i) /\ o.tool = tool /\ o.target = p /\ Carries(i) = o
    BY <1>3
  <2> HIDE DEF o
  <2>2. tool \in {"write_file", "edit_file", "delete_file"}
    BY DEF Editors
  <2>3. PathsOf(o) = {p} /\ Subjects(o) = {<<tool, p>>} /\ ~ReadsOnly(o) /\ ~IsCommand(o)
    BY <2>1, <2>2 DEF PathsOf, Subjects, ReadsOnly, IsCommand, Editors
  <2>4. p \notin Reserved
    BY <1>3
  <2>5. ~Fixed(o)
    BY <1>1, <2>1, <2>2, <2>3, <2>4 DEF Fixed, Hooked
  <2>6. ~Matches(rules.deny, o)
    BY <1>1, <2>1, <2>3 DEF Matches
  <2>7. \A q \in PathsOf(o) : Within(q, o.tool # "read_file")
    BY <1>1, <2>1 DEF Within
  <2> QED
    BY <2>1, <2>3, <2>5, <2>6, <2>7 DEF Hard
<1>4. CASE i.action = "move"
  <2> DEFINE o == [tool |-> "apply_patch move", target |-> i.path, from |-> i.from]
  <2>1. /\ o.tool = "apply_patch move" /\ o.target = i.path /\ o.from = i.from
        /\ Carries(i) = o /\ i.path \in Path /\ i.from \in Path
    BY <1>4 DEF Carries, Item
  <2> HIDE DEF o
  <2>2. /\ PathsOf(o) = {i.from, i.path} /\ ~ReadsOnly(o) /\ ~IsCommand(o)
        /\ Subjects(o) = {<<"delete_file", i.from>>, <<"edit_file", i.from>>,
                          <<"write_file", i.path>>, <<"edit_file", i.path>>}
    BY <2>1 DEF PathsOf, Subjects, ReadsOnly, IsCommand
  <2>3. ASSUME NEW set \in SUBSET Call PROVE ~Hooked(set, o)
    BY <2>1 DEF Hooked, Call, Editors
  <2>4. ~Fixed(o)
    BY <2>1, <2>2, <2>3, PermissionsAssumption DEF Fixed, Editors
  <2>5. ASSUME NEW tool \in Editors, NEW p \in {i.path, i.from},
               [tool |-> tool, target |-> p] \in Probes(i)
        PROVE  <<tool, p>> \notin rules.deny /\ Home[p] \in {Workspace} \cup roots
    <3> DEFINE q == [tool |-> tool, target |-> p]
    <3>1. q \in Probes(i) /\ q.tool = tool /\ q.target = p
      BY <2>5
    <3> HIDE DEF q
    <3>2. Subjects(q) = {<<tool, p>>} /\ PathsOf(q) = {p}
      BY <3>1 DEF Subjects, PathsOf, Editors
    <3> QED
      BY <1>1, <3>1, <3>2
  <2>6. /\ [tool |-> "write_file", target |-> i.path] \in Probes(i)
        /\ [tool |-> "edit_file", target |-> i.path] \in Probes(i)
        /\ [tool |-> "delete_file", target |-> i.from] \in Probes(i)
        /\ [tool |-> "edit_file", target |-> i.from] \in Probes(i)
    BY <1>4 DEF Probes
  <2>7. Subjects(o) \cap rules.deny = {} /\ \A p \in PathsOf(o) : Home[p] \in {Workspace} \cup roots
    BY <2>2, <2>5, <2>6 DEF Editors
  <2>8. ~Hard(o)
    BY <2>1, <2>4, <2>7 DEF Hard, Matches, Within
  <2> QED
    BY <1>2, <1>4, <2>1, <2>2, <2>3, <2>8, PermissionsAssumption
<1>5. CASE i.action = "delete"
  <2>1. [tool |-> "delete_file", target |-> i.path] \in Probes(i) /\ i.path \in Path
    BY <1>5 DEF Probes, Item
  <2>2. Carries(i) = [tool |-> "delete_file", target |-> i.path]
    BY <1>5 DEF Carries
  <2> QED
    BY <1>2, <1>3, <2>1, <2>2 DEF Editors
<1>6. CASE i.action = "add"
  <2>1. [tool |-> "write_file", target |-> i.path] \in Probes(i) /\ i.path \in Path
    BY <1>6 DEF Probes, Item
  <2>2. Carries(i) = [tool |-> "write_file", target |-> i.path]
    BY <1>6 DEF Carries
  <2> QED
    BY <1>2, <1>3, <2>1, <2>2 DEF Editors
<1>7. CASE i.action = "update"
  <2>1. [tool |-> "edit_file", target |-> i.path] \in Probes(i) /\ i.path \in Path
    BY <1>7 DEF Probes, Item
  <2>2. Carries(i) = [tool |-> "edit_file", target |-> i.path]
    BY <1>7 DEF Carries
  <2> QED
    BY <1>2, <1>3, <2>1, <2>2 DEF Editors
<1> QED
  BY <1>4, <1>5, <1>6, <1>7 DEF Item

\* Once a list is signed in propose mode, each item of it goes through without
\* a question, except where a hook of the user's own asks for one or
\* PROTECT_PATHS speaks: no list is approved that could not be executed
\* (hard_block, decide, decide_move).
THEOREM SignedPlansRun == Spec => []PlanExecutable
<1>1. Init => Feasible
  BY DEF Init, NoPlan, Feasible
<1>2. Feasible /\ [Next]_vars => Feasible'
  BY StepFeasible
<1>3. TypeOK /\ Feasible => PlanExecutable
  <2> SUFFICES ASSUME TypeOK, Feasible, manifest.approved, Proposing(Top),
                      PlanPaths(manifest.items) \cap Reserved = {}, NEW i \in manifest.items
               PROVE  Tier(Carries(i), Top) = IF Hooked(HookAsk, Carries(i)) THEN "ask" ELSE "allow"
    BY DEF PlanExecutable
  <2>1. i \in Item
    BY PermissionsAssumption DEF TypeOK
  <2>2. PICK o : o = Carries(i)
    OBVIOUS
  <2>3. /\ ~Hard(o) /\ PathsOf(o) # {} /\ PathsOf(o) \subseteq approved
        /\ ~ReadsOnly(o) /\ ~IsCommand(o)
        /\ o.tool \in Editors \cup {"apply_patch move"}
        /\ o.tool = "apply_patch move" => ~Hooked(HookAsk, o)
    BY <2>1, <2>2, ItemFree DEF Feasible
  <2>4. Top.phase = "approved" /\ Top.approved = approved
    BY DEF Top, Feasible
  <2>5. OnPlan(o, Top) /\ ~OffPlan(o, Top)
    BY <2>3, <2>4 DEF OnPlan, OffPlan
  <2>6. Ladder(o, Top) = "allow" /\ MoveLadder(o, Top) = "allow"
    BY <2>4, <2>5 DEF Ladder, MoveLadder
  <2>7. Doubted(o, Top) <=> Hooked(HookAsk, o)
    BY <2>5 DEF Doubted
  <2> QED
    BY <2>2, <2>3, <2>6, <2>7 DEF Tier
<1> QED
  BY <1>1, <1>2, <1>3, TypeCorrect, PTL DEF Spec
=============================================================================
