----------------------------- MODULE Permissions -----------------------------
(***************************************************************************)
(* The permission engine (src/src/permissions.py) as one session lives     *)
(* with it: every call of a turn, of an apply_patch envelope and of a      *)
(* subagent is let through, refused, or put to a reviewer or to the        *)
(* person; the user switches modes, signs change-lists (propose_changes,   *)
(* src/src/tools.py), unlocks the session and grants directories.          *)
(*                                                                         *)
(* A rule is the pair of a tool and of one target that it matches, so a    *)
(* pattern is the set of its matches; a command also matches by its        *)
(* segments.  What execpolicy, a hook or a name check say of a target is a *)
(* constant, what a reviewer or the person answers is free.                *)
(***************************************************************************)
EXTENDS Naturals, FiniteSets

CONSTANTS
  Path,        \* files
  Command,     \* command lines, and the bars that pursue registers
  Segment,     \* what a command rule can match
  Segments,    \* the line of a command and its parsed segments
  Line,        \* the whole line among them
  ClassOf,     \* execpolicy.assess(command).worst
  Removes,     \* commands that name a delete verb
  Planted,     \* commands whose executable is not the pinned one
  Home,        \* the directory a path resolves into
  Workspace,   \* the agent's own directory
  Reserved,    \* paths that PROTECT_PATHS covers
  Secret,      \* paths that SECRET_DENY_READ covers
  SelfKills,   \* commands that GUARD_SELF_KILL covers
  HookDeny,    \* calls <<tool, target>> that a PreToolUse hook refuses
  HookAsk,     \* calls that one wants confirmed
  RuleSets,    \* the rule files considered
  Launched,    \* the directories granted at the launch (--add-dir), considered
  Plans,       \* the change-lists a model may propose
  FlagSets,    \* the choices of opt-in features considered
  Cap,         \* CODE_GUARDIAN_MAX_DESTRUCTIVE, 0 is off
  Calls,       \* bound: the calls a model makes
  MaxReviews   \* bound: what a guardian reviews in one turn

Modes    == {"default", "acceptEdits", "plan", "bypass", "propose"}
AllFlags == {"propose", "run_after", "extend_after", "persist", "autoplan",
             "execpolicy", "guardian", "guardian_interactive", "hooks",
             "require_sandbox", "no_propose", "trust"}

Editors    == {"write_file", "edit_file", "delete_file"}
\* What patch_summary says of an envelope: does it delete or move?
Envelopes  == {"edits", "removals"}
Dirs       == {Home[p] : p \in Path}

Op == [tool : Editors \cup {"read_file"}, target : Path]
        \cup [tool : {"run_command", "pursue"}, target : Command]
        \cup [tool : {"apply_patch"}, target : Envelopes]
        \cup [tool : {"apply_patch move"}, target : Path, from : Path]
NoOp == [tool |-> "none", target |-> "none"]

Item == [action : {"add", "update", "delete"}, path : Path]
          \cup [action : {"move"}, path : Path, from : Path]
Call == (Editors \cup {"read_file"}) \X Path
          \cup {"run_command", "pursue"} \X Command
          \cup {"apply_patch"} \X Envelopes
Rule == (Editors \cup {"read_file"}) \X Path
          \cup {"run_command", "pursue"} \X Segment
          \cup {"apply_patch"} \X Envelopes

ASSUME PermissionsAssumption ==
  /\ Segments \in [Command -> SUBSET Segment]
  /\ Line \in [Command -> Segment]
  /\ ClassOf \in [Command -> {"read_only", "mutating", "dangerous"}]
  /\ RuleSets \subseteq [deny : SUBSET Rule, ask : SUBSET Rule, allow : SUBSET Rule]
  /\ Launched \subseteq SUBSET Dirs
  /\ HookDeny \subseteq Call /\ HookAsk \subseteq Call
  /\ Plans \subseteq SUBSET Item
  /\ \A plan \in Plans : plan # {} /\ IsFiniteSet(plan)
  /\ FlagSets \subseteq SUBSET AllFlags
  /\ Cap \in Nat
  /\ Calls \subseteq Op
  /\ MaxReviews \in Nat

VARIABLES
  flags,      \* the opt-in features that are on
  rules,      \* the deny, ask and allow rules
  mode,       \* Permissions.mode
  person,     \* is somebody there (ctx.interactive)
  pc,         \* "prompt", "turn", "patch" (in an envelope), "ask" or "off"
  asked,      \* the call that is put to a reviewer or to the person
  back,       \* where it was made
  phase,      \* ctx.propose_phase
  approved,   \* ctx.approved_paths
  graduated,  \* ctx.propose_graduated
  manifest,   \* ctx.manifest
  roots,      \* directories granted for writing (extra_roots)
  readable,   \* directories granted for reading (read_only_roots)
  seen,       \* ctx._destructive_targets
  cache,      \* ctx._guardian_cache
  last,       \* history: the decision just taken, and who took it
  signed,     \* history: the paths the person has signed, in this turn
  yes         \* history: when the person last agreed to a change at all

vars == <<flags, rules, mode, person, pc, asked, back, phase, approved, graduated,
          manifest, roots, readable, seen, cache, last, signed, yes>>
settings == <<flags, rules, person>>
consents == <<phase, approved, graduated, manifest, signed, yes>>
grants   == <<roots, readable>>

NoPlan == [items |-> {}, approved |-> FALSE]
Nothing == [op |-> NoOp, ok |-> FALSE, by |-> "none", depth |-> "top"]

\* The paths a call names.
PathsOf(o) ==
  IF o.tool = "apply_patch move" THEN {o.from, o.target}
  ELSE IF o.tool \in Editors \cup {"read_file"} THEN {o.target} ELSE {}

IsCommand(o) == o.tool = "run_command"

\* Mutant of Subjects: a move is judged by the file it makes.
SubjectsOfTarget(o) ==
  CASE o.tool = "apply_patch move" ->
         {<<"write_file", o.target>>, <<"edit_file", o.target>>}
    [] o.tool = "run_command" ->
         {"run_command"} \X ({Line[o.target]}
            \cup IF "execpolicy" \in flags THEN Segments[o.target] ELSE {})
    [] o.tool = "pursue" -> {<<"pursue", Line[o.target]>>}
    [] OTHER -> {<<o.tool, o.target>>}

\* The calls that a rule may be about: <<tool, target>>.  A bar is matched as
\* a whole line, a command under execpolicy by any of its segments too.
Subjects(o) ==
  CASE o.tool = "apply_patch move" ->
         {<<"delete_file", o.from>>, <<"edit_file", o.from>>,
          <<"write_file", o.target>>, <<"edit_file", o.target>>}
    [] o.tool = "run_command" ->
         {"run_command"} \X ({Line[o.target]}
            \cup IF "execpolicy" \in flags THEN Segments[o.target] ELSE {})
    [] o.tool = "pursue" -> {<<"pursue", Line[o.target]>>}
    [] OTHER -> {<<o.tool, o.target>>}

Matches(set, o) == Subjects(o) \cap set # {}

\* _within_roots: a directory granted for reading admits reads only.
Within(p, writing) ==
  Home[p] \in {Workspace} \cup roots \cup (IF writing THEN {} ELSE readable)

\* A PreToolUse hook sees a call as decide does; decide_move asks none.
Hooked(set, o) == "hooks" \in flags /\ <<o.tool, o.target>> \in set

\* What no mode, rule, plan or answer overrides.
Fixed(o) ==
  \/ Hooked(HookDeny, o)
  \/ IsCommand(o) /\ o.target \in SelfKills
  \/ o.tool = "read_file" /\ o.target \in Secret
  \/ o.tool \in Editors /\ o.target \in Reserved
Hard(o) ==
  \/ Fixed(o)
  \/ Matches(rules.deny, o)
  \/ \E p \in PathsOf(o) : ~Within(p, o.tool # "read_file")

ReadsOnly(o) ==
  \/ o.tool = "read_file"
  \/ IsCommand(o) /\ "execpolicy" \in flags /\ ClassOf[o.target] = "read_only"

\* _is_destructive: the per-turn cap counts these.
Destructive(o) ==
  \/ o.tool \in {"delete_file", "apply_patch move"}
  \/ o.tool = "apply_patch" /\ o.target = "removals"
  \/ IsCommand(o) /\ (ClassOf[o.target] = "dangerous" \/ o.target \in Removes)

(* Who calls: the session's own context, or a subagent's, which shares the  *)
(* rules and the fence, has nobody to ask, and starts without any approval. *)
Top == [mode |-> mode, phase |-> phase, approved |-> approved,
        graduated |-> graduated, person |-> person]
Locked(m) == IF m = "propose" THEN "investigate" ELSE "none"

Child(reads) ==
  LET view == reads \/ (mode = "propose" /\ "no_propose" \in flags)
      m == IF view THEN "plan" ELSE mode
  IN [mode |-> m, phase |-> Locked(m), approved |-> {}, graduated |-> FALSE,
      person |-> FALSE]

Proposing(c) == "propose" \in flags /\ c.mode = "propose"
OnPlan(o, c) == PathsOf(o) # {} /\ PathsOf(o) \subseteq c.approved
OffPlan(o, c) ==
  "propose" \in flags /\ c.phase = "approved" /\ o.tool # "apply_patch"
    /\ ~OnPlan(o, c)

\* An approval of this session sends a change to the ask ladder, although no
\* change-list of this turn is approved.
Relaxed(o, c) ==
  /\ c.graduated
  /\ \/ "autoplan" \in flags
     \/ "extend_after" \in flags /\ PathsOf(o) # {}
     \/ "run_after" \in flags /\ PathsOf(o) = {}

\* _propose_autoplan: the dead end becomes a question.
Unlocks(c) == "autoplan" \in flags /\ ~c.graduated /\ c.person

\* A command is let through by a rule or by bypass only if it will be
\* sandboxed, by a rule only if its executable is the pinned one.
Confined(o) == IsCommand(o) /\ "execpolicy" \in flags => "require_sandbox" \notin flags
Genuine(o)  == ~(IsCommand(o) /\ "execpolicy" \in flags /\ o.target \in Planted)

\* decide's ladder from the plan on.
Ladder(o, c) ==
  IF Proposing(c) /\ c.phase # "approved" /\ ~Relaxed(o, c)
    THEN IF Unlocks(c) THEN "unlock" ELSE "deny"
  ELSE IF Proposing(c) /\ c.phase = "approved"
            /\ (o.tool = "apply_patch" \/ OnPlan(o, c)) THEN "allow"
  ELSE IF c.mode = "plan" THEN "deny"
  ELSE IF Matches(rules.ask, o) THEN "ask"
  ELSE IF Matches(rules.allow, o)
    THEN IF Genuine(o) /\ Confined(o) THEN "allow" ELSE "ask"
  ELSE IF \/ c.mode = "bypass" /\ Confined(o)
          \/ c.mode = "acceptEdits"
               /\ o.tool \in {"write_file", "edit_file", "apply_patch"} THEN "allow"
  ELSE "ask"

\* Mutant of MoveLadder: one end of a move on the list is enough.
MoveLadderByTarget(o, c) ==
  IF Proposing(c) /\ c.phase # "approved" /\ ~Relaxed(o, c) THEN "deny"
  ELSE IF Proposing(c) /\ c.phase = "approved" /\ o.target \in c.approved THEN "allow"
  ELSE IF c.mode = "plan" THEN "deny"
  ELSE IF c.mode \in {"bypass", "acceptEdits"} /\ ~OffPlan(o, c) THEN "allow"
  ELSE "ask"
\* decide_move: a rename is as good as an edit.
MoveLadder(o, c) ==
  IF Proposing(c) /\ c.phase # "approved" /\ ~Relaxed(o, c) THEN "deny"
  ELSE IF Proposing(c) /\ c.phase = "approved" /\ OnPlan(o, c) THEN "allow"
  ELSE IF c.mode = "plan" THEN "deny"
  ELSE IF c.mode \in {"bypass", "acceptEdits"} /\ ~OffPlan(o, c) THEN "allow"
  ELSE "ask"

\* _escalate_allow: an allow that a hook wants confirmed, or an irreversible
\* change that is off the approved list.
Doubted(o, c) ==
  \/ Hooked(HookAsk, o)
  \/ OffPlan(o, c) /\ Destructive(o)

\* _decide_core, _decide_command and decide_move, and decide around them.
Tier(o, c) ==
  IF Hard(o) THEN "deny"
  ELSE IF o.tool = "apply_patch move" THEN MoveLadder(o, c)
  ELSE LET tier == IF ReadsOnly(o) THEN "allow" ELSE Ladder(o, c)
       IN IF tier = "allow" /\ Doubted(o, c) THEN "ask" ELSE tier

-----------------------------------------------------------------------------
Init ==
  /\ flags \in FlagSets /\ rules \in RuleSets
  /\ mode \in Modes /\ person \in BOOLEAN
  /\ roots \in Launched /\ readable = {}
  /\ pc = "prompt" /\ asked = NoOp /\ back = "turn"
  /\ phase = "none" /\ approved = {} /\ graduated = FALSE /\ manifest = NoPlan
  /\ seen = {} /\ cache = {}
  /\ last = Nothing /\ signed = {} /\ yes = "never"

\* Mutant of StartTurn: an approval persists without the flag for it.
StartTurnPersists ==
  /\ pc = "prompt" /\ pc' = "turn"
  /\ seen' = {} /\ cache' = {} /\ manifest' = NoPlan
  /\ IF mode = "propose" /\ graduated
     THEN phase' = "approved" /\ approved' = approved
     ELSE phase' = Locked(mode) /\ approved' = {}
  /\ signed' = IF "persist" \in flags THEN signed ELSE {}
  /\ yes' = IF yes = "turn" THEN "before" ELSE yes
  /\ last' = Nothing
  /\ UNCHANGED <<settings, grants, mode, asked, back, graduated>>
\* _reset_propose_for_turn and the per-turn ledgers of Agent.run.
StartTurn ==
  /\ pc = "prompt" /\ pc' = "turn"
  /\ seen' = {} /\ cache' = {} /\ manifest' = NoPlan
  /\ IF "persist" \in flags /\ mode = "propose" /\ graduated
     THEN phase' = "approved" /\ approved' = approved
     ELSE phase' = Locked(mode) /\ approved' = {}
  /\ signed' = IF "persist" \in flags THEN signed ELSE {}
  /\ yes' = IF yes = "turn" THEN "before" ELSE yes
  /\ last' = Nothing
  /\ UNCHANGED <<settings, grants, mode, asked, back, graduated>>

EndTurn ==
  /\ pc = "turn" /\ pc' = IF person THEN "prompt" ELSE "off"
  /\ last' = Nothing
  /\ UNCHANGED <<settings, grants, consents, mode, asked, back, seen, cache>>

-----------------------------------------------------------------------------
(* What the user types at the prompt. *)

\* /mode
SetMode(m) ==
  /\ pc = "prompt" /\ person /\ mode' = m
  /\ last' = Nothing
  /\ UNCHANGED <<settings, grants, consents, pc, asked, back, seen, cache>>

\* /approve unlocks a session whose model never proposed.
Approve ==
  /\ pc = "prompt" /\ person
  /\ "autoplan" \in flags /\ mode = "propose"
  /\ graduated' = TRUE /\ yes' = IF yes = "never" THEN "before" ELSE yes
  /\ last' = Nothing
  /\ UNCHANGED <<settings, grants, mode, pc, asked, back, phase, approved,
                 manifest, signed, seen, cache>>

\* /add-dir
AddDir(d) ==
  /\ pc = "prompt" /\ person /\ readable' = readable \cup {d}
  /\ last' = Nothing
  /\ UNCHANGED <<settings, consents, mode, pc, asked, back, roots, seen, cache>>

-----------------------------------------------------------------------------
(* A call of the session's own: Settle is how it ends. *)
Settle(o, here, ok, by) ==
  /\ last' = [op |-> o, ok |-> ok, by |-> by, depth |-> "top"]
  /\ pc' = IF ok /\ (here = "patch" \/ o.tool = "apply_patch") THEN "patch" ELSE "turn"
  /\ asked' = NoOp /\ back' = "turn"

PutTo(o, here) == pc' = "ask" /\ asked' = o /\ back' = here /\ last' = Nothing

\* An envelope's operations are gated one by one (patch.py, _gate and
\* _gate_move); a move exists only there.
Callable(o) ==
  \/ pc = "turn" /\ o.tool # "apply_patch move"
  \/ pc = "patch" /\ o.tool \in Editors \cup {"apply_patch move"}

Decide(o) ==
  /\ Callable(o) /\ Tier(o, Top) # "unlock"
  /\ IF Tier(o, Top) = "ask" THEN PutTo(o, pc)
     ELSE Settle(o, pc, Tier(o, Top) = "allow", "engine")
  /\ UNCHANGED <<settings, grants, consents, mode, seen, cache>>

\* A yes unlocks the session and lets this call through, unless a hook wants
\* it confirmed all the same.
Unlock(o, ok) ==
  /\ Callable(o) /\ Tier(o, Top) = "unlock"
  /\ IF ok
     THEN /\ graduated' = TRUE /\ yes' = "turn"
          /\ IF Doubted(o, Top) THEN PutTo(o, pc) ELSE Settle(o, pc, TRUE, "person")
     ELSE Settle(o, pc, FALSE, "person") /\ UNCHANGED <<graduated, yes>>
  /\ UNCHANGED <<settings, grants, mode, phase, approved, manifest, signed,
                 seen, cache>>

\* The envelope is applied, or given up.
LeavePatch ==
  /\ pc = "patch" /\ pc' = "turn"
  /\ last' = Nothing
  /\ UNCHANGED <<settings, grants, consents, mode, asked, back, seen, cache>>

-----------------------------------------------------------------------------
(* _ask_approver, then the person (_prompt), in this order. *)
Key(o) == <<o.tool, o.target>>

OverBudget(o) ==
  Cap # 0 /\ Destructive(o) /\ Key(o) \notin seen /\ Cardinality(seen) >= Cap
Counted(o, ok) == IF ok /\ Destructive(o) THEN seen \cup {Key(o)} ELSE seen

Guarded == "guardian" \in flags /\ (person => "guardian_interactive" \in flags)
\* A call is reviewed once a turn.
Verdicts(o) ==
  LET kept == {v \in BOOLEAN : <<Key(o), v>> \in cache}
  IN IF kept = {} THEN BOOLEAN ELSE kept

Asking == pc = "ask" /\ UNCHANGED <<settings, grants, consents, mode>>

OutOfBudget ==
  /\ Asking /\ OverBudget(asked)
  /\ Settle(asked, back, FALSE, "budget")
  /\ UNCHANGED <<seen, cache>>

\* A PermissionRequest hook with an opinion.
AskHook(ok) ==
  /\ Asking /\ ~OverBudget(asked) /\ "hooks" \in flags /\ ~person
  /\ seen' = Counted(asked, ok)
  /\ Settle(asked, back, ok, "hook")
  /\ UNCHANGED cache

\* Mutant of AskGuardian: its no is final for a person too.
AskGuardianFinal(v, ok) ==
  /\ Asking /\ ~OverBudget(asked) /\ Guarded
  /\ v \in Verdicts(asked) /\ ok = v
  /\ cache' = cache \cup {<<Key(asked), v>>} /\ Cardinality(cache') <= MaxReviews
  /\ seen' = Counted(asked, v)
  /\ Settle(asked, back, v, "guardian")
\* The guardian; with a person there it only ever approves.
AskGuardian(v, ok) ==
  /\ Asking /\ ~OverBudget(asked) /\ Guarded
  /\ v \in Verdicts(asked)
  /\ cache' = cache \cup {<<Key(asked), v>>} /\ Cardinality(cache') <= MaxReviews
  /\ seen' = Counted(asked, v)
  /\ IF v \/ ~person
     THEN ok = v /\ Settle(asked, back, v, "guardian")
     ELSE Settle(asked, back, ok, "person")

AskPerson(ok) ==
  /\ Asking /\ ~OverBudget(asked) /\ ~Guarded
  /\ IF person THEN Settle(asked, back, ok, "person")
     ELSE ok = FALSE /\ Settle(asked, back, FALSE, "nobody")
  /\ UNCHANGED <<seen, cache>>

-----------------------------------------------------------------------------
(* propose_changes. *)
PlanPaths(plan) ==
  {i.path : i \in plan} \cup {i.from : i \in {j \in plan : j.action = "move"}}

\* Mutant of Probes: each item is probed with one tool.
ProbesOnce(i) ==
  CASE i.action = "delete" -> {[tool |-> "delete_file", target |-> i.path]}
    [] i.action = "move" -> {[tool |-> "write_file", target |-> i.path],
                             [tool |-> "delete_file", target |-> i.from]}
    [] OTHER -> {[tool |-> "write_file", target |-> i.path]}
\* Every tool an item may be carried out with.
Probes(i) ==
  LET call(tool, p) == [tool |-> tool, target |-> p] IN
  CASE i.action = "delete" -> {call("delete_file", i.path)}
    [] i.action = "move" ->
         {call("write_file", i.path), call("edit_file", i.path),
          call("delete_file", i.from), call("edit_file", i.from)}
    [] OTHER -> {call("write_file", i.path), call("edit_file", i.path)}
HardBlock(o) ==
  \/ Hooked(HookDeny, o) \/ Matches(rules.deny, o)
  \/ \E p \in PathsOf(o) : ~Within(p, TRUE)
Blocked(plan) == \E i \in plan : \E o \in Probes(i) : HardBlock(o)

\* A list that nothing hard blocks is put to the person; without one it is
\* written down and nothing is approved.
Propose(plan, ok) ==
  /\ pc = "turn" /\ "propose" \in flags /\ ~Blocked(plan) /\ (ok => person)
  /\ manifest' = [items |-> plan, approved |-> ok]
  /\ IF ok
     THEN /\ phase' = "approved" /\ approved' = PlanPaths(plan) /\ graduated' = TRUE
          /\ signed' = PlanPaths(plan) /\ yes' = "turn"
     ELSE UNCHANGED <<phase, approved, graduated, signed, yes>>
  /\ last' = Nothing
  /\ UNCHANGED <<settings, grants, mode, pc, asked, back, seen, cache>>

\* request_dir: granted without a question only in bypass, for reading.
RequestDir(d) ==
  /\ pc = "turn" /\ person /\ d \notin roots \cup readable
  /\ IF "trust" \in flags
     THEN readable' = readable \cup {d} /\ UNCHANGED roots
     ELSE roots' = roots \cup {d} /\ UNCHANGED readable
  /\ last' = Nothing
  /\ UNCHANGED <<settings, consents, mode, pc, asked, back, seen, cache>>

\* A call of a subagent: there is nobody to ask and nothing to unlock.  Of a
\* fan-out's children, that run in parallel, reads is TRUE.
ChildCall(o, reads) ==
  LET envelope == [tool |-> "apply_patch", target |-> "removals"]
      ok == /\ Tier(o, Child(reads)) = "allow"
            /\ o.tool = "apply_patch move" => Tier(envelope, Child(reads)) = "allow"
  IN /\ pc = "turn"
     /\ last' = [op |-> o, ok |-> ok, by |-> "engine",
                 depth |-> IF reads THEN "parallel" ELSE "serial"]
     /\ UNCHANGED <<settings, grants, consents, mode, pc, asked, back, seen, cache>>

Next ==
  \/ StartTurn \/ EndTurn \/ Approve \/ LeavePatch \/ OutOfBudget
  \/ \E m \in Modes : SetMode(m)
  \/ \E d \in Dirs \ {Workspace} : AddDir(d) \/ RequestDir(d)
  \/ \E o \in Calls : Decide(o) \/ \E reads \in BOOLEAN : ChildCall(o, reads)
  \/ \E o \in Calls, ok \in BOOLEAN : Unlock(o, ok)
  \/ \E ok \in BOOLEAN : AskHook(ok) \/ AskPerson(ok)
  \/ \E v, ok \in BOOLEAN : AskGuardian(v, ok)
  \/ \E plan \in Plans, ok \in BOOLEAN : Propose(plan, ok)

Spec == Init /\ [][Next]_vars

-----------------------------------------------------------------------------
Ends == {"engine", "budget", "hook", "guardian", "person", "nobody", "none"}

TypeOK ==
  /\ flags \in FlagSets /\ rules \in RuleSets
  /\ mode \in Modes /\ person \in BOOLEAN
  /\ pc \in {"prompt", "turn", "patch", "ask", "off"}
  /\ asked \in Op \cup {NoOp} /\ (pc = "ask" <=> asked # NoOp)
  /\ back \in {"turn", "patch"}
  /\ phase \in {"none", "investigate", "approved"}
  /\ (phase = "approved" => graduated) /\ (approved # {} => phase = "approved")
  /\ approved \subseteq Path /\ signed \subseteq Path
  /\ graduated \in BOOLEAN /\ yes \in {"never", "before", "turn"}
  /\ manifest \in [items : Plans \cup {{}}, approved : BOOLEAN]
  /\ roots \subseteq Dirs /\ readable \subseteq Dirs
  /\ seen \subseteq {Key(o) : o \in Op}
  /\ cache \subseteq {Key(o) : o \in Op} \X BOOLEAN
  /\ last \in [op : Op \cup {NoOp}, ok : BOOLEAN, by : Ends,
               depth : {"top", "serial", "parallel"}]

\* What the properties say of the decision just taken.
Ran     == last.ok /\ last.op # NoOp
Refused == ~last.ok /\ last.op # NoOp
Signed(o) == PathsOf(o) # {} /\ PathsOf(o) \subseteq signed

\* What carrying a call out amounts to.  A move removes a file and makes one;
\* a command runs its segments, as far as anybody parses them.
Effects(o) ==
  IF o.tool = "apply_patch move"
    THEN {<<"delete_file", o.from>>, <<"write_file", o.target>>}
  ELSE IF IsCommand(o)
    THEN {"run_command"} \X
           IF "execpolicy" \in flags THEN Segments[o.target] ELSE {Line[o.target]}
  ELSE IF o.tool = "pursue" THEN {<<"pursue", Line[o.target]>>}
  ELSE {<<o.tool, o.target>>}

\* "deny rule -> BLOCK (wins over everything, including bypass)": nothing is
\* done that a deny rule names or the fence keeps out, by whatever call it is
\* done, whatever the mode, the signed list, a reviewer or the person say, in
\* the session, an envelope or a subagent.  Nor by a call that a hook refuses,
\* on a protected or a secret file, or by a name-based kill; a move is spared
\* those (decide_move), though "an explicit hook DENY hard-blocks ANY tool".
HardRulesHold ==
  Ran =>
    /\ Effects(last.op) \cap rules.deny = {}
    /\ \A e \in Effects(last.op) :
         e[1] \in Editors \cup {"read_file"} => Within(e[2], e[1] \in Editors)
    /\ last.op.tool # "apply_patch move" =>
         /\ "hooks" \in flags => <<last.op.tool, last.op.target>> \notin HookDeny
         /\ Effects(last.op)
              \cap (Editors \X Reserved \cup {"read_file"} \X Secret) = {}
         /\ IsCommand(last.op) => last.op.target \notin SelfKills

\* Propose mode is read-only until the person has agreed to a change: in this
\* turn, or in an earlier one if one of the relaxations is on
\* (_reset_propose_for_turn: "an approval NEVER leaks past the turn").
ReadOnlyUntilApproved ==
  Ran /\ Proposing(Top) /\ ~ReadsOnly(last.op) =>
    \/ yes = "turn"
    \/ yes = "before"
         /\ flags \cap {"run_after", "extend_after", "persist", "autoplan"} # {}

\* "edits on these paths are pre-approved; anything off the list will be
\* asked": what runs in propose mode without a question is on the list that
\* was signed, or is allowed by a rule of the user's own.
OnlyTheListUnasked ==
  Ran /\ Proposing(Top) /\ ~ReadsOnly(last.op) /\ last.by = "engine" =>
    \/ last.op.tool = "apply_patch"
    \/ Matches(rules.allow, last.op)
    \/ Signed(last.op)

\* Under an approved list a destructive call that is not on it never runs on
\* the strength of a mode or a rule alone (_escalate_allow, decide_move).
OffPlanAsked ==
  /\ Ran /\ Destructive(last.op) /\ last.op.tool # "apply_patch"
  /\ last.by = "engine" /\ last.depth = "top"
  /\ phase = "approved" /\ signed # {}
  => Signed(last.op)

\* Once a list is signed in propose mode, each of its items can be carried out
\* without a question: "refuses a plan that could be approved but never
\* EXECUTED" (hard_block).  Except on paths that PROTECT_PATHS covers, of which
\* the check before the approval knows nothing.
Carries(i) ==
  CASE i.action = "move" ->
         [tool |-> "apply_patch move", target |-> i.path, from |-> i.from]
    [] i.action = "delete" -> [tool |-> "delete_file", target |-> i.path]
    [] i.action = "add" -> [tool |-> "write_file", target |-> i.path]
    [] OTHER -> [tool |-> "edit_file", target |-> i.path]
PlanExecutable ==
  /\ manifest.approved /\ Proposing(Top) /\ pc \in {"turn", "patch"}
  /\ PlanPaths(manifest.items) \cap Reserved = {}
  => \A i \in manifest.items :
       Tier(Carries(i), Top) = IF Hooked(HookAsk, Carries(i)) THEN "ask" ELSE "allow"

\* "a HARD ceiling on DISTINCT destructive ops APPROVED this turn": what
\* reviewers let through in a turn is counted, and stays within the cap.
CapHolds ==
  Cap # 0 =>
    /\ Cardinality(seen) <= Cap
    /\ Ran /\ Destructive(last.op) /\ last.by \in {"hook", "guardian"}
         => Key(last.op) \in seen

\* With a person there, only a hard rule, a read-only mode, the cap or that
\* person refuses: "the human stays the backstop" (_ask_approver).
HumanBackstop ==
  Refused /\ person /\ last.depth = "top" =>
    \/ last.by \in {"person", "budget"}
    \/ last.by = "engine" /\ (Hard(last.op) \/ mode = "plan" \/ Proposing(Top))

\* "parallel children can't race the filesystem" (readonly_view), and no child
\* changes anything in propose mode.
ChildrenReadOnly ==
  /\ Ran
  /\ \/ last.depth = "parallel"
     \/ last.depth = "serial" /\ Proposing(Top)
  => ReadsOnly(last.op)
=============================================================================
