------------------------------- MODULE Prompt -------------------------------
(* What an agent is told it can do, and what it can: the toolset of a run       *)
(* (src/toolset.py), the system prompt built over it (src/prompts.py), the      *)
(* registry that dispatches (src/tools.py), and the callers that put them       *)
(* together (src/runtime.py).  A section is [name, names]: which one it is and  *)
(* the tools its text tells the model to call, other than on the condition that *)
(* they are offered; wording is left out.                                       *)
EXTENDS Naturals, Sequences, FiniteSets, SequencesExt

Tool(name, required) == [name |-> name, required |-> required, web |-> FALSE]

BaseTools ==
  <<Tool("read_file", {"path"}), Tool("grep", {"pattern"}), Tool("search", {"query"}), Tool("glob", {"pattern"}),
    Tool("tree", {}), Tool("write_file", {"path", "content"}), Tool("delete_file", {"path"}),
    Tool("edit_file", {"path", "old_string", "new_string"}), Tool("run_command", {"command"}),
    Tool("ask_user", {"question"}), Tool("update_plan", {"steps"}), Tool("spawn_agent", {"task"}),
    Tool("review_repo", {}), Tool("request_dir", {"path"})>>
WebTools == <<Tool("web_fetch", {"url"}), Tool("web_search", {"query"})>>
MemoryTools == <<Tool("remember", {"note"})>>
TodoTools == <<Tool("project_todos", {"action"})>>
SkillTools == <<Tool("run_skill", {"name"})>>
EffortTools == <<Tool("escalate_effort", {"level"})>>
GoalTools == <<Tool("pursue", {"objective", "bar"})>>
PatchTools == <<Tool("apply_patch", {"patch"})>>
ProposeTools == <<Tool("propose_changes", {"manifest"})>>
SpecTools == <<Tool("write_spec", {})>>
WorkflowTools == <<Tool("run_workflow", {"workflow"})>>

(* The optional groups, in the order they are offered; `on` holds the flags and *)
(* `policy` is the effort policy.                                               *)
Groups(on, policy) ==
  << [when |-> "MEMORY" \in on,        tools |-> MemoryTools],
     [when |-> "PROJECT_TODOS" \in on, tools |-> TodoTools],
     [when |-> "SKILLS" \in on,        tools |-> SkillTools],
     [when |-> "APPLY_PATCH" \in on,   tools |-> PatchTools],
     [when |-> "GOAL_LOOP" \in on,     tools |-> GoalTools],
     [when |-> "ADAPTIVE_EFFORT" \in on /\ policy \notin {"off", "none"}, tools |-> EffortTools],
     [when |-> "PROPOSE" \in on,       tools |-> ProposeTools],
     [when |-> "SPEC_FIRST" \in on,    tools |-> SpecTools],
     [when |-> "WORKFLOWS" \in on,     tools |-> WorkflowTools],
     [when |-> "ENABLE_WEB" \in on,    tools |-> WebTools] >>

(* A server's tools come last; they are connected before an agent is built. *)
ActiveTools(on, policy, mcp) ==
  FoldLeft(LAMBDA tools, g : IF g.when THEN tools \o g.tools ELSE tools, BaseTools, Groups(on, policy)) \o mcp

Offered(tools) == {tools[i].name : i \in DOMAIN tools}

-----------------------------------------------------------------------------
(* Registry: the last tool of a name, then the alias of a name unknown. *)
Aliases == [n \in {"print_tree"} |-> "tree"]
Holder(tools, name) == SelectLastInSeq(tools, LAMBDA t : t.name = name)
Lookup(tools, name) ==
  IF Holder(tools, name) = 0 /\ name \in DOMAIN Aliases THEN Holder(tools, Aliases[name]) ELSE Holder(tools, name)

(* run: `args` is the set of the names given, {} when what was given is no      *)
(* object.  The tool is dispatched, and a tool that raises is an answer too.    *)
Dispatch(tools, name, args, raises) ==
  LET i == Lookup(tools, name)
      missing == IF i = 0 THEN {} ELSE tools[i].required \ args
  IN CASE i = 0 -> [is |-> "unknown", called |-> 0]
       [] i # 0 /\ missing # {} -> [is |-> "missing", called |-> 0]
       [] OTHER -> [is |-> IF raises THEN "error" ELSE "result", called |-> i]

-----------------------------------------------------------------------------
Section(name, names) == [name |-> name, names |-> names]
When(p, section) == IF p THEN <<section>> ELSE <<>>

(* How tools are called, with every one of them listed.  A caller that does not *)
(* talk to the user keeps the close that asks for a summary.                    *)
NativeNote(tools, on, userFacing) ==
  Section(IF "ADVISORY_REGISTER" \in on /\ userFacing THEN "native, answer" ELSE "native, summary", Offered(tools))
JsonProtocol(tools) == Section("json", Offered(tools) \cup {"glob", "read_file", "grep"})
CallingNote(mode, tools, on, userFacing) ==
  IF mode = "json" THEN JsonProtocol(tools) ELSE NativeNote(tools, on, userFacing)

(* The notes on a tool are there when the tool is. *)
Teaches(tools, tool, section) == When(tool \in Offered(tools), section)
IsWeb(tool) == tool.web \/ tool.name \in {"web_fetch", "web_search"}

WorkdirNote(on, cwd) == When("WORKDIR_PROMPT" \in on /\ cwd, Section("workdir", {}))
WebNote(tools) == When(\E i \in DOMAIN tools : IsWeb(tools[i]), Section("web", {"web_fetch", "web_search"}))
EffortNote(tools) == Teaches(tools, "escalate_effort", Section("effort", {"escalate_effort"}))
GoalNote(tools) == Teaches(tools, "pursue", Section("goal", {"pursue"}))
DirsNote(on, granted) ==
  When(granted # {}, Section(IF "WORKDIR_PROMPT" \in on THEN "dirs, to read" ELSE "dirs",
                             {"read_file", "grep", "glob"}))

(* The skills a model can name: an orchestrator's concerns stay internal.  A    *)
(* skill is [dir, subskills]: what its pattern matches, itself aside.           *)
Concerns(skill) == skill.subskills \ {skill.dir}
EntrySkills(skills) == {s \in skills : \A t \in skills : s.dir \notin Concerns(t)}
SkillsNote(tools, skills) ==
  When("run_skill" \in Offered(tools) /\ EntrySkills(skills) # {}, Section("skills", {"run_skill"}))

PatchNote(tools) == Teaches(tools, "apply_patch", Section("patch", {"apply_patch", "edit_file"}))
ProposeNote(tools) ==
  Teaches(tools, "propose_changes", Section("propose", {"read_file", "grep", "glob", "propose_changes"}))
TodosNote(tools) == Teaches(tools, "project_todos", Section("todos", {"project_todos", "update_plan"}))
SpecNote(tools) == Teaches(tools, "write_spec", Section("spec-first", {"write_spec"}))
WorkflowNote(tools) == Teaches(tools, "run_workflow", Section("workflows", {"run_workflow", "review_repo"}))
ReplyNote(on) == When("REPLY_SHAPE" \in on, Section("reply shape", {}))

HygieneNote(on) == When("PROMPT_HYGIENE" \in on, Section("hygiene", {"propose_changes", "update_plan"}))
RegisterNote(on, userFacing) ==
  When("ADVISORY_REGISTER" \in on /\ userFacing, Section("register", {"run_command"}))

(* What was kept of earlier sessions is appended when there is any of it. *)
Kept(kept) ==
  When("memory" \in kept, Section("memory", {"remember"}))
  \o When("todos" \in kept, Section("backlog", {"project_todos", "update_plan"}))
  \o When("spec" \in kept, Section("contract", {"write_spec"}))

(* The opening: the full or the lean text, then what tells an agent who it is. *)
LeanText ==
  Section("lean", {"read_file", "grep", "glob", "edit_file", "delete_file", "update_plan", "review_repo"})
FullText == Section("full", LeanText.names \cup {"tree", "ask_user", "run_command"})
IdentityBlock(on) == When("AGENT_IDENTITY_BLOCK" \in on, Section("identity", {}))
Opening(on) == <<IF "LEAN_PROMPT" \in on THEN LeanText ELSE FullText>> \o IdentityBlock(on)
Persona(on) == When("persona" \in on, Section("persona", {}))

(* build_system_prompt, in the order it is read. *)
SystemPrompt(w, tools) ==
  Opening(w.on)
  \o <<CallingNote(w.calling, tools, w.on, w.userFacing)>>
  \o WorkdirNote(w.on, w.cwd) \o WebNote(tools) \o EffortNote(tools) \o GoalNote(tools)
  \o DirsNote(w.on, w.granted) \o SkillsNote(tools, w.skills) \o PatchNote(tools) \o ProposeNote(tools)
  \o TodosNote(tools) \o SpecNote(tools) \o WorkflowNote(tools) \o ReplyNote(w.on)
  \o HygieneNote(w.on) \o RegisterNote(w.on, w.userFacing)
  \o Kept(w.kept) \o Persona(w.on)

(* The clause that lets a digest's order to synthesize yield to the user. *)
ReplyShapeCaveat(on) == "REPLY_SHAPE" \in on
(* A description is the lean one where there is one. *)
LeanTools == {"tree", "delete_file", "ask_user", "update_plan", "spawn_agent", "review_repo", "web_fetch",
              "web_search", "project_todos", "pursue", "apply_patch", "propose_changes", "write_spec",
              "run_workflow", "escalate_effort"}
DescFor(tool, on) == IF "LEAN_PROMPT" \in on /\ tool.name \in LeanTools THEN "lean" ELSE "full"
Schemas(tools, on) ==
  [i \in DOMAIN tools |-> [name |-> tools[i].name, required |-> tools[i].required, desc |-> DescFor(tools[i], on)]]

(* build_agent, over what its caller hands it: what the model is offered, what  *)
(* it is told, and what a call is dispatched in are of one list of tools.       *)
BuildAgent(w) ==
  LET tools == ActiveTools(w.on, w.policy, w.mcp)
  IN [schemas |-> Schemas(tools, w.on), prompt |-> SystemPrompt(w, tools), registry |-> tools,
      steps |-> IF w.maxSteps = 0 THEN w.globalSteps ELSE w.maxSteps]

(* The callers.  The process `m` holds the flags as main leaves them, the       *)
(* folders granted and what the stores hold; main's propose mode turns its tool *)
(* on.                                                                          *)
LoadKept(m) ==
  {k \in {"memory", "todos", "spec"} :
     /\ k \in m.stored
     /\ [memory |-> "MEMORY", todos |-> "PROJECT_TODOS", spec |-> "SPEC_FIRST"][k] \in m.on}
TopLevel(m) == [m EXCEPT !.kept = LoadKept(m), !.cwd = TRUE, !.userFacing = TRUE]
Child(m) ==
  [m EXCEPT !.cwd = TRUE, !.userFacing = FALSE, !.maxSteps = m.childSteps,
            !.granted = IF "VERIFY_GROUNDING_PATHS" \in m.on THEN m.granted ELSE {}]
Worker(m) == [m EXCEPT !.cwd = TRUE, !.userFacing = TRUE]
Harness(m) == [m EXCEPT !.granted = {}, !.userFacing = TRUE]
Launched(on, mode) == IF mode = "propose" THEN on \cup {"PROPOSE"} ELSE on
=============================================================================
