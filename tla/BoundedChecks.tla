--------------------------- MODULE BoundedChecks ---------------------------
(* What the operators of the modules that hold no state compute, over bounded  *)
(* inputs: each assumption is evaluated by the run whose module extends this   *)
(* one.  A name that ends in Fact states what the code does where a reader may *)
(* expect otherwise; README.md says which.                                     *)
EXTENDS Integers, Sequences, FiniteSets, SequencesExt, FiniteSetsExt, Functions, TLC

W == INSTANCE Window
P == INSTANCE Prompt
N == INSTANCE Naming
U == INSTANCE Startup
G == INSTANCE Reading
Q == INSTANCE Scoring
T == INSTANCE Training

Upto(set, n) == UNION {[1 .. k -> set] : k \in 0 .. n}

-----------------------------------------------------------------------------
(* Window. *)
Windows == {0, 1, 7999, 8000, 8001, 12000, 19999, 20000, 20001, 42999, 43000, 131072}

\* _recompute_window_budgets: a summary is within what may be sent, that within
\* the window, none below the least; the room for a reply is there from a window
\* of 20000 on only.
ASSUME BudgetsNest ==
  \A n \in Windows :
    LET b == W!Budgets(n)
    IN /\ W!Least <= b.summary /\ b.summary <= b.hard /\ b.hard <= b.window
       /\ (b.hard + 12000 <= b.window) <=> n >= 20000

\* _output_cap: a request that is not compacted by force leaves room for the
\* reply it allows, margin included.
ASSUME ReplyFits ==
  \A n \in {m \in Windows : m >= 20000} :
    \A estimate \in {0, 1, W!Budgets(n).hard - 1, W!Budgets(n).hard} :
      LET cap == W!OutputCap(W!Word("auto"), W!Margin(W!Unset), n, estimate)
      IN cap >= W!MinOutput /\ estimate + cap + W!Margin(W!Unset) <= n

\* resolve_model_window: a window that is set stands, whatever an endpoint says;
\* an automatic one that nobody knows falls back.
ASSUME SetWindowStands ==
  \A raw \in {W!Number(5), W!Number(9000), W!Word("auto"), W!Word("many"), W!Unset}, known \in {0, 64000} :
    LET r == W!ResolvedWindow(raw, known, FALSE, <<>>, <<"m">>)
    IN r = (CASE raw.is = "number" -> raw.n [] raw.is = "auto" /\ known # 0 -> known [] OTHER -> W!Fallback)

\* _fetch_context_length: a row without an id is taken for every model.
ASSUME NamelessRowFact ==
  W!FetchedLength(<<[is |-> "row", id |-> <<>>, lengths |-> <<0, 4096>>],
                    [is |-> "row", id |-> <<"m">>, lengths |-> <<32768>>]>>, <<"m">>) = 4096

Lengths == {[role |-> 4, content |-> c] : c \in {0, 3, 9}}

\* chunk_messages and chunk_text: nothing is lost, added or moved, no group is
\* empty, and a group of several messages fits the budget.
ASSUME ChunksPartition ==
  /\ \A ms \in Upto(Lengths, 4), budget \in {1, 9, 17, 24} :
       LET chunks == W!ChunkMessages(ms, budget)
       IN /\ FlattenSeq(chunks) = ms
          /\ \A i \in DOMAIN chunks : chunks[i] # <<>> /\ (Len(chunks[i]) > 1 => W!Render(chunks[i]) <= budget)
  /\ \A length \in 0 .. 12, budget \in 1 .. 5 :
       LET slices == W!ChunkText(length, budget)
       IN W!Sum(slices) = length /\ \A i \in DOMAIN slices : slices[i] \in 0 .. budget

\* bounded_summary: where no message is beyond the budget and a summary is less
\* than half of it, no call is given more than the budget.
ASSUME SummaryBounded ==
  \A ms \in Upto(Lengths, 4), budget \in {16, 20, 30}, c \in {1, 4, 7} :
    \A i \in DOMAIN W!BoundedSummary(ms, budget, [n \in Nat |-> c]).given :
      W!BoundedSummary(ms, budget, [n \in Nat |-> c]).given[i] <= budget

\* A summary that does not shrink is handed to the last call beyond it.
ASSUME SummaryBeyondBudgetFact ==
  LET m == [role |-> 4, content |-> 9]
  IN Last(W!BoundedSummary(<<m, m>>, 16, [n \in Nat |-> n]).given) > 16

\* ContextManager: whatever is set in which order, a digest or a goal that is
\* sent was set after the task it is sent with.
PinOps == {"task", "goal", "plan", "review", "env"}
ASSUME PinsOfThisTask ==
  \A ops \in Upto(PinOps, 4) :
    LET pins == FoldLeft(LAMBDA p, op : IF op = "task" THEN W!SetTask(p, op) ELSE W!SetPin(p, op, op), W!NoPins, ops)
        task == SelectLastInSeq(ops, LAMBDA op : op = "task")
    IN \A slot \in ToSet(W!Pinned(pins)) \cap {"review", "goal"} : \E i \in DOMAIN ops : i > task /\ ops[i] = slot

\* build_env_context: the block that every request carries stays short, and
\* says of what it cuts how much it cut.
ASSUME BlockIsShort ==
  \A on \in SUBSET {"git", "shell_hints", "lean", "extra_hints"}, windows, effort \in BOOLEAN, n \in {0, 12, 13, 40} :
    LET files == [i \in 1 .. n |-> "f"]
        block == W!EnvContext(on, windows, effort, files, [binary |-> TRUE, branch |-> "ok", status |-> "ok"], files)
    IN /\ Len(block) <= 10
       /\ \A i \in DOMAIN block :
            /\ Len(block[i].list.shown) <= W!MaxGitFiles
            /\ block[i].line \in {"git", "granted dirs"} => Len(block[i].list.shown) + block[i].list.more = n
-----------------------------------------------------------------------------
(* Prompt. *)
ToolFlags == {"MEMORY", "PROJECT_TODOS", "SKILLS", "APPLY_PATCH", "GOAL_LOOP", "ADAPTIVE_EFFORT", "PROPOSE",
              "SPEC_FIRST", "WORKFLOWS", "ENABLE_WEB"}
TextFlags == {"WORKDIR_PROMPT", "REPLY_SHAPE", "PROMPT_HYGIENE", "ADVISORY_REGISTER"}
WebServer == <<[name |-> "mcp_search", required |-> {}, web |-> TRUE]>>
Process(on, policy, mcp, calling, mode) ==
  [on |-> P!Launched(on, mode), policy |-> policy, mcp |-> mcp, calling |-> calling, userFacing |-> TRUE, cwd |-> FALSE,
   granted |-> {"d"}, skills |-> {[dir |-> "a", subskills |-> {"b"}], [dir |-> "b", subskills |-> {}]},
   kept |-> {}, stored |-> {"memory", "todos", "spec"}, maxSteps |-> 0, childSteps |-> 7, globalSteps |-> 40, mode |-> mode]
FewOrMany(flags) == {s \in SUBSET flags : Cardinality(s) <= 2 \/ Cardinality(flags \ s) <= 1}
Processes ==
  {Process(on \cup more, policy, mcp, calling, mode) :
     on \in FewOrMany(ToolFlags), more \in {{}, TextFlags, TextFlags \cup {"LEAN_PROMPT", "persona"}},
     policy \in {"off", "online"}, mcp \in {<<>>, WebServer}, calling \in {"native", "json"}, mode \in {"default", "propose"}}
Agents(m) == {P!TopLevel(m), P!Child(m), P!Worker(m), P!Harness(m)}
Named(w) == UNION {s.names : s \in ToSet(P!BuildAgent(w).prompt)}
Missing(w) == Named(w) \ P!Offered(P!BuildAgent(w).registry)

\* build_agent: whoever runs the agent, its prompt tells it to call no tool that
\* it is not offered; except, with only a server for the web, web_fetch and
\* web_search, and, outside of propose mode, the propose_changes of the hygiene
\* section.
ASSUME PromptNamesOffered ==
  \A m \in Processes : \A w \in Agents(m) :
    Missing(w) = (IF w.mcp # <<>> /\ "ENABLE_WEB" \notin w.on THEN {"web_fetch", "web_search"} ELSE {})
                   \cup (IF "PROMPT_HYGIENE" \in w.on /\ "PROPOSE" \notin w.on THEN {"propose_changes"} ELSE {})

\* Registry.run: what is offered is dispatched once its required arguments are
\* there, and not before; the schemas and the registry are of one list.
ASSUME OfferedIsDispatched ==
  \A m \in Processes :
    LET a == P!BuildAgent(m)
    IN \A i \in DOMAIN a.schemas :
         LET s == a.schemas[i]
         IN /\ P!Dispatch(a.registry, s.name, s.required, FALSE).is = "result"
            /\ \A r \in s.required : P!Dispatch(a.registry, s.name, s.required \ {r}, FALSE).is = "missing"

\* The way of speaking that suits a user is for an agent that speaks to one, and
\* a child stays within the steps of a child.
ASSUME ChildrenReport ==
  \A m \in Processes :
    LET child == P!BuildAgent(P!Child(m))
    IN /\ child.steps = m.childSteps
       /\ \A s \in ToSet(child.prompt) : s.name \notin {"register", "native, answer", "memory", "backlog", "contract"}

\* grep takes `query` as well, but the registry refuses a call with only that.
ASSUME QueryAliasFact == P!Dispatch(P!BaseTools, "grep", {"query"}, FALSE).is = "missing"
-----------------------------------------------------------------------------
(* Naming. *)
Forms == [n \in {"aria", "mini", "git"} |-> "plain"]
Host(windows, venv, found, path) ==
  [windows |-> windows, venv |-> venv, onPath |-> found, path |-> path, form |-> Forms, cwdName |-> N!NoName]
Hosts == {Host(windows, venv, found, path) :
            windows, venv, found \in BOOLEAN, path \in {<<"found">>, <<"other", "venv">>}}
Var(key, value) == N!Line(key, value)
Envs == {N!NoFile, <<N!Blank>>, <<Var("user", "x"), Var("NAME", "old"), Var("user", "y"), Var("NAME", "older")>>,
         <<Var("user", "x"), Var("PERSONA", "p"), N!Blank>>}
Bodies == {N!NoFile, <<Var("user", "x"), N!Blank>>, <<Var("user", "x")>>, <<N!ProfileLine("aria"), N!Blank>>}
Disk(env, body, fails) ==
  [env |-> env, launchers |-> {[dir |-> "other", name |-> "git"]}, runnable |-> {[dir |-> "other", name |-> "git"]},
   profiles |-> <<[lines |-> body, fails |-> FALSE], [lines |-> <<Var("user", "z"), N!Blank>>, fails |-> fails]>>]
Disks == {Disk(env, body, fails) : env \in Envs, body \in Bodies, fails \in BOOLEAN}
All(w, disk, args) == N!After(disk, N!SetName(w, disk, args), Len(N!SetName(w, disk, args)))
Removed(w, disk) == N!After(disk, N!RemoveName(w, disk), Len(N!RemoveName(w, disk)))
UserLines(lines) == SelectSeq(lines, LAMBDA l : l.key = "user")
Args == {<<"aria">>, <<"aria", "--persona", "kind">>, <<"--no-profile", "aria">>, <<"git">>, <<>>}

\* _set_name: one that died after any of its writes and is run again leaves the
\* disk as one that did not, what others wrote is kept, another's command is
\* never written over, and run twice it is as run once.
ASSUME SetNameRestarts ==
  \A w \in Hosts, disk \in Disks, args \in Args :
    LET done == All(w, disk, args)
    IN /\ \A k \in 0 .. Len(N!SetName(w, disk, args)) : All(w, N!After(disk, N!SetName(w, disk, args), k), args) = done
       /\ UserLines(done.env) = UserLines(disk.env)
       /\ \A i \in DOMAIN disk.profiles : UserLines(done.profiles[i].lines) = UserLines(disk.profiles[i].lines)
       /\ [dir |-> "other", name |-> "git"] \in done.launchers
       /\ \A key \in {"NAME", "PERSONA"} : args = <<"aria">> => Len(SelectSeq(done.env, LAMBDA l : l.key = key)) <= 1
       /\ args = <<"git">> /\ "other" \in ToSet(w.path) => done = disk

\* A name that was set starts the agent, and is the name it answers to; on
\* Windows where a profile could be written.
ASSUME NamedAgentStarts ==
  \A w \in Hosts, disk \in Disks, args \in {<<"aria">>, <<"aria", "--persona", "kind">>} :
    LET done == All(w, disk, args)
    IN /\ N!AgentName(w, done) = "aria"
       /\ w.windows \/ N!BinDir(w) \in ToSet(w.path) => N!Launches(w, done, "aria")

\* _remove_name: on Windows nothing of the name that was set is left, and what
\* others wrote is.
Traces(disk, name) ==
  {l \in disk.launchers : l.name = name}
  \cup UNION {{l \in ToSet(disk.profiles[i].lines) : l = N!ProfileLine(name)} :
                i \in {j \in DOMAIN disk.profiles : ~disk.profiles[j].fails}}
  \cup {l \in ToSet(disk.env) : l.key \in {"NAME", "PERSONA"}}
ASSUME RemoveUndoesSet ==
  \A w \in {h \in Hosts : h.windows}, disk \in Disks, args \in {<<"aria">>, <<"aria", "--persona", "kind">>} :
    LET gone == Removed(w, All(w, disk, args))
    IN Traces(gone, "aria") = {} /\ UserLines(gone.env) = UserLines(disk.env)

\* Where it is not undone: a second name hides the first, a removal that died
\* after .env no longer knows what to remove, and on POSIX the launcher stays.
Plainest == Disk(<<Var("user", "x")>>, <<Var("user", "x")>>, FALSE)
ASSUME RemoveLeavesFact ==
  LET win == Host(TRUE, TRUE, TRUE, <<"found">>)
      one == All(win, Plainest, <<"aria">>)
      posix == Host(FALSE, TRUE, TRUE, <<"found">>)
  IN /\ Traces(Removed(win, All(win, one, <<"mini">>)), "aria") # {}
     /\ Traces(Removed(win, N!After(one, N!RemoveName(win, one), 1)), "aria") # {}
     /\ Traces(Removed(posix, All(posix, Plainest, <<"aria">>)), "aria") # {}

-----------------------------------------------------------------------------
(* Start-up. *)
Words == {"-C", "--add-dir", "--mode", "plan", "--memory", "--no-memory", "--resume", "fix"}
Rules(is) == [is |-> is, fields |-> [k \in {"deny"} |-> <<"r">>]]
Run(on, rules, dies) ==
  [on |-> on, modeSetting |-> "", autoApprove |-> FALSE, addDirs |-> <<"x", "">>, rulesFile |-> Rules(rules), dies |-> dies]
Argvs == Upto(Words, 3) \cup {<<"fix", "--set-name">>, <<"--set-name", "a">>, <<"--run-task", "t", "o">>, <<"--run-task">>}

\* _parse_flags: every word is a flag, the value of one, or left for the task in
\* its order; and the last of two toggles decides.
ASSUME FlagsAccountForWords ==
  \A argv \in Upto(Words, 4) :
    LET p == U!ParseFlags(argv, {})
        Is(w) == w \in U!Valued \cup {"--memory", "--no-memory"}
    IN /\ \A i \in DOMAIN argv : ~Is(argv[i]) /\ (i = 1 \/ argv[i - 1] \notin U!Valued) => argv[i] \in ToSet(p.rest)
       /\ \A i \in DOMAIN p.rest : Is(p.rest[i]) => i = Len(p.rest) /\ p.rest[i] = Last(argv) /\ p.rest[i] \in U!Valued
       /\ p.mode \in ToSet(argv) \cup {""} /\ ToSet(p.dirs) \subseteq ToSet(argv)
ASSUME LastToggleWins ==
  U!ParseFlags(<<"--memory", "--no-memory">>, {}).on = {} /\ U!ParseFlags(<<"--no-memory", "--memory">>, {}).on = {"MEMORY"}

\* main: whatever a session does, the servers it connected are disconnected; a
\* word of the command line that is wrong starts none of them; and a session
\* never begins before the window of its model is known.
Steps == {"", "secrets", "connect", "window", "warm_up", "usage", "resume", "repl", "one-shot", "worker"}
ASSUME ConnectedIsDisconnected ==
  \A argv \in Argvs, rules \in {"absent", "object", "list"}, dies \in Steps :
    LET steps == U!Main(Run({}, rules, dies), argv)
        At(s) == SelectInSeq(steps, LAMBDA t : t = s)
    IN /\ At("connect") # 0 /\ dies \notin {"connect", "window", "warm_up"} => Last(steps) = "disconnect"
       /\ At("disconnect") # 0 => At("connect") \in 1 .. At("disconnect") - 1
       /\ \A s \in {"resume", "repl", "one-shot", "worker"} : At(s) # 0 => At("window") \in 1 .. At(s) - 1
       /\ U!ParseFlags(argv, {}).mode \notin U!Modes \cup {""} => At("connect") = 0

\* An interrupt while the model warms up leaves the servers connected; a flag
\* that lacks its value becomes a word of the task; a rules file that holds a
\* list ends the process.
ASSUME StartupFact ==
  /\ Last(U!Main(Run({}, "object", "warm_up"), <<>>)) = "warm_up"
  /\ U!ParseFlags(<<"fix", "--mode">>, {}).rest = <<"fix", "--mode">>
  /\ U!Main(Run({}, "list", ""), <<>>) = <<"secrets", "raised">>

\* The mode in force is one there is, and propose mode has its tool.
ASSUME ModeInForce ==
  \A setting \in U!Modes \cup {"", "typo"}, auto \in BOOLEAN, mode \in {"", "plan", "propose"} :
    LET w == [Run({}, "absent", "") EXCEPT !.modeSetting = setting, !.autoApprove = auto]
        argv == IF mode = "" THEN <<>> ELSE <<"--mode", mode>>
        perms == U!Permitted(w, U!ParseFlags(argv, {}))
    IN /\ perms.mode \in U!Modes
       /\ perms.mode = "propose" <=> "PROPOSE" \in U!Flags(w, argv)
       /\ perms.mode = "bypass" => mode = "" /\ (setting = "bypass" \/ auto)
       /\ U!Fingerprint(perms, {}).roots = 1

\* secretsvault: a secret that was set is read back and no other is lost, and
\* what the environment holds is never replaced; a failing encryption loses all.
Vaults == {[is |-> "absent", held |-> <<>>], [is |-> "broken", held |-> <<>>], [is |-> "whole", held |-> "a" :> "1" @@ "b" :> "2"]}
ASSUME VaultKeeps ==
  \A file \in Vaults, name \in {"a", "c"} :
    LET set == U!SetSecret(file, name, "new", TRUE).file
        read == U!ReadVault(set, TRUE)
    IN /\ read[name] = "new" /\ \A n \in DOMAIN file.held \ {name} : read[n] = file.held[n]
       /\ \A env \in [{"a", "b"} -> {"e", "f"}] : \A n \in DOMAIN env : U!LoadIntoEnv(env, TRUE, set, TRUE)[n] = env[n]
ASSUME VaultLostFact ==
  \A file \in Vaults : U!ReadVault(U!SetSecret(file, "a", "new", FALSE).file, TRUE) = <<>>

\* child_env: a child never inherits a variable of the program's own, nor one
\* shaped like a secret that is not passed by name.
Kinds == [code : BOOLEAN, known : BOOLEAN, shaped : BOOLEAN]
ASSUME ChildInherits ==
  \A kind \in [{"u", "v"} -> Kinds], passed \in SUBSET {"u", "v"} :
    LET env == U!ChildEnv([x \in {"u", "v"} |-> "1"], kind, {"ENV_SCRUB"}, passed)
    IN \A x \in DOMAIN env : ~kind[x].code /\ (kind[x].shaped => x \in passed)

\* user_typed_dirs: a folder is granted only where the user typed it, whole, in a
\* clause without a negation before it, and never twice.
Said(w, at, neg, stop) == [says |-> w, at |-> at, neg |-> neg, punct |-> stop, stop |-> stop, eol |-> FALSE]
TypedWords == {Said("C:/a", TRUE, FALSE, FALSE), Said("C:/a", TRUE, FALSE, TRUE), Said("b", FALSE, FALSE, FALSE),
               Said("not", FALSE, TRUE, FALSE), Said("C:/w", TRUE, FALSE, FALSE)}
Place(depth, sensitive) == [exists |-> TRUE, depth |-> depth, sensitive |-> sensitive, system |-> FALSE, profileRoot |-> FALSE]
Places == (<<"C:/a">> :> Place(1, FALSE)) @@ (<<"C:/a", "b">> :> Place(1, FALSE)) @@ (<<"C:/w">> :> Place(1, TRUE))
ASSUME TypedIsGranted ==
  \A words \in Upto(TypedWords, 4), quotes \in {<<>>, <<<<1, 2>>>>} :
    Len(words) >= 2 =>
      LET out == U!UserTypedDirs([words |-> words, quotes |-> quotes], Places)
      IN /\ Cardinality(ToSet(out)) = Len(out)
         /\ \A d \in ToSet(out) :
              /\ U!GrantableDir(Places[d])
              /\ \E i \in 1 .. Len(words) - Len(d) + 1 :
                   /\ \A k \in DOMAIN d : words[i + k - 1].says = d[k]
                   /\ ~\E j \in 1 .. i - 1 : words[j].neg /\ \A k \in j .. i - 1 : ~words[k].stop
-----------------------------------------------------------------------------
(* Reading.  Small trees: some of these directories, in the order of a walk, and *)
(* a file of each name in each of them.                                          *)
TreeDirs == << <<>>, <<"pkg">>, <<"pkg", "mod">>, <<"pkg", "src">>, <<"node_modules">>, <<"node_modules", "a">>, <<".cfg">> >>
TreeNames == <<"m.py", "build", ".env", ".rc">>
File(path, lines, decoded) == [path |-> path, lines |-> lines, decoded |-> decoded, binary |-> FALSE]
TreeOf(keep, lines, decoded) ==
  [dirs |-> SelectSeq(TreeDirs, LAMBDA d : keep[Len(d)]),
   files |-> FlattenSeq([i \in DOMAIN TreeDirs |->
               [k \in DOMAIN TreeNames |-> File(Append(TreeDirs[i], TreeNames[k]), lines, decoded)]])]
Skips(guard, here) ==
  [skip |-> {"node_modules", "build"}, secret |-> {".env"}, dotted |-> {".env", ".rc", ".cfg"}, guard |-> guard, here |-> here]
Trees == {TreeOf([n \in 0 .. 2 |-> n <= depth], <<TRUE>>, 1) : depth \in 0 .. 2}
Settings == {Skips(guard, here) : guard \in BOOLEAN, here \in {"repo", "pkg"}}
AnyPath(fs) == {fs.files[i].path : i \in DOMAIN fs.files}
Found(w, fs) == {m[1] : m \in ToSet(G!Grep(w, fs, [text |-> "x", compiles |-> TRUE], <<>>, AnyPath(fs)).matches)}
PathsOf(fs) == {fs.files[i].path : i \in {j \in DOMAIN fs.files : Front(fs.files[j].path) \in ToSet(fs.dirs)}}

\* skip_walk_dir and skip_rel_path: the walk and the paths agree on what is
\* looked at from the workspace, but for a file that has the name of a skipped
\* directory, which only the walk sees.
ASSUME OneSourceOfSkips ==
  \A fs \in Trees, w \in Settings :
    /\ G!Glob(w, PathsOf(fs)).hits \subseteq Found(w, fs)
    /\ \A p \in Found(w, fs) : p \notin G!Glob(w, PathsOf(fs)).hits => G!Name(p) \in w.skip

\* With the guard of secrets no tool that searches or lists names one.
ASSUME SecretsUnlisted ==
  \A fs \in Trees, here \in {"repo", "pkg"} :
    LET w == Skips(TRUE, here)
        map == G!Tree(w, fs, <<>>, 3)
    IN /\ \A p \in Found(w, fs) \cup G!Glob(w, PathsOf(fs)).hits : G!Name(p) \notin w.secret
       /\ \A e \in ToSet(map.entries) : e.count = Len(TreeNames) - 1

\* tree: what is mapped is a directory of the walk within the depth, its count is
\* that of all its files whatever is shown of them, and a map that is not told to
\* be cut leaves none of them out.
ASSUME TreeCounts ==
  \A fs \in Trees, w \in Settings, root \in {<<>>, <<"pkg">>}, depth \in 0 .. 2 :
    LET map == G!Tree(w, fs, root, depth)
    IN /\ \A e \in ToSet(map.entries) : e.shown + e.more = e.count /\ e.depth \in 0 .. depth
       /\ ~map.truncated => [i \in DOMAIN map.entries |-> map.entries[i].dir] = G!Mapped(w, fs, root, depth)

\* read_file: reading on from where the last read ended shows every line once,
\* under its own number; a negative offset shows a wrong one.
ASSUME PagesCover ==
  \A n \in 0 .. 7, limit \in 1 .. 4 :
    LET pages == [k \in 1 .. n \div limit + 1 |-> G!Numbered(n, (k - 1) * limit, limit)]
    IN FlattenSeq(pages) = [i \in 1 .. n |-> [line |-> i, shown |-> i]]
ASSUME NegativeOffsetFact == G!Numbered(5, -2, 1) = <<[line |-> 4, shown |-> -1]>>

\* grep: no match is told twice or out of the file's order, and what is told is at
\* most the cap and one more for each other file of the directory that met it.
Many == [i \in 1 .. 250 |-> TRUE]
Wide(n) == [dirs |-> << <<>>, <<"d">> >>, files |-> [i \in 1 .. n |-> File(<<"m.py">>, Many, 250)] \o <<File(<<"d", "m.py">>, Many, 250)>>]
ASSUME GrepIsCapped ==
  \A n \in 1 .. 3 :
    LET told == G!Grep(Skips(TRUE, "repo"), Wide(n), [text |-> "x", compiles |-> TRUE], <<>>, AnyPath(Wide(n))).matches
    IN Len(told) = G!Cap + n - 1 /\ \A m \in ToSet(told) : m[1] = <<"m.py">>

\* A file that is no UTF-8 further down gives the matches before in a walk and an
\* error when it is asked for itself.
ASSUME UndecodableFact ==
  LET fs == [dirs |-> << <<>> >>, files |-> <<File(<<"m.py">>, <<TRUE, TRUE>>, 1)>>]
      Ask(path) == G!Grep(Skips(TRUE, "repo"), fs, [text |-> "x", compiles |-> TRUE], path, AnyPath(fs))
  IN Ask(<<>>) = [ok |-> TRUE, matches |-> << <<<<"m.py">>, 1>> >>] /\ ~Ask(<<"m.py">>).ok

-----------------------------------------------------------------------------
(* Scoring. *)
Call(tool, ok, path) == [tool |-> tool, ok |-> ok, path |-> path]
Calls == {<<>>, <<Call("ask_user", TRUE, "")>>, <<Call("read_file", TRUE, "a"), Call("read_file", FALSE, "b")>>,
          <<Call("review_repo", TRUE, ""), Call("ask_user", TRUE, "")>>}
Texts == {Q!NoText, [Q!NoText EXCEPT !.empty = FALSE, !.says = {"deflects"}],
          [Q!NoText EXCEPT !.empty = FALSE, !.says = {"leak", "secret"}, !.cites = {"a"}],
          [Q!NoText EXCEPT !.empty = FALSE, !.says = {"missing"}, !.leaks = TRUE, !.cites = {"b"}]}
Turns == {[calls |-> c, replies |-> r, closing |-> t, touched |-> {"a"}] :
            c \in Calls, r \in {<<>>} \cup {<<x>> : x \in Texts}, t \in {Q!NoText}}
Rubrics == {[depth |-> d, refusal |-> r, final |-> TRUE, must |-> m, mustNot |-> n, grounded |-> TRUE] :
              d \in {-1, 1}, r \in BOOLEAN, m \in {{}, {{"leak", "hole"}}}, n \in {{}, {{"missing"}}}}
Sessions == {<<t>> : t \in Turns} \cup {<<t, u>> : t, u \in Turns}
One == Q!Share(1, 1)

\* score: a session is perfect just when every check holds in every turn and no
\* gate ended it, and one that a gate ended is never above the cap.
ASSUME PerfectIsAllChecks ==
  \A s \in Sessions, rubric \in Rubrics, ends \in {<<>>, <<"completed">>, <<"stall", "completed">>} :
    LET r == Q!Score(s, rubric, ends)
    IN /\ Q!Whole(r.score) <=> r.checks = Q!Asked(rubric) \cup {"verified_done"}
       /\ ends = <<"stall", "completed">> => Q!AtLeast(Q!Third, r.score)
       /\ Q!AtLeast(One, r.score)

\* _turns and _is_refusal: a deflection costs its session the perfect score,
\* whichever turn it is in and however well the other ends.
ASSUME DeflectionCosts ==
  \A s \in Sessions, rubric \in Rubrics :
    (\E i \in DOMAIN s : Q!Refused(s[i])) => ~Q!Whole(Q!Score(s, rubric, <<>>).score)

\* compare: the gate promotes a model that is no worse on either axis, whatever
\* the tasks are; but over a suite in which nothing passed for the base, or which
\* is empty, it promotes any.
Marks == {Q!Share(n, 2) : n \in 0 .. 2}
Suites == {Q!RunSuite(passed, scores) : passed \in Upto(BOOLEAN, 2), scores \in Upto(Marks, 2)}
ASSUME PromotionIsOrder ==
  \A a, b, c \in Suites :
    /\ Q!Promote(a, a)
    /\ Q!Promote(a, b) /\ Q!Promote(b, c) => Q!Promote(a, c)
    /\ Q!Compare(a, b, "").verdict = "keep" <=> ~(Q!AtLeast(b.verify, a.verify) /\ Q!AtLeast(b.behavior, a.behavior))
ASSUME FailedBaseFact ==
  \A student \in Suites : Q!Promote(Q!RunSuite(<<FALSE, FALSE>>, <<Q!Share(0, 1)>>), student) /\ Q!Promote(Q!RunSuite(<<>>, <<>>), student)

\* _summarize: every result is tallied under its tier; one without, which is what
\* a task that raised has, ends the tally.
ASSUME TallyCounts ==
  \A results \in Upto([tier : {"core", "hard", Q!NoTier}, passed : BOOLEAN], 3) :
    LET s == Q!Summarize(results, <<>>)
    IN IF \E i \in DOMAIN results : results[i].tier = Q!NoTier THEN s.raises
       ELSE FoldFunction(LAMBDA t, n : t[2] + n, 0, s.tiers) = Len(results)

-----------------------------------------------------------------------------
(* Training. *)
Tokens == Upto({"p", "q"}, 3)

\* build_example: what is learnt is what follows the prompt, token for token, and
\* nothing of the prompt.
ASSUME LossOnAction ==
  \A prompt, target \in Tokens, maxLen \in 1 .. 7 :
    LET e == T!BuildExample(prompt, prompt \o target, maxLen)
    IN IF target = <<>> THEN e = T!NoExample
       ELSE /\ Len(e.labels) = Len(e.ids) /\ Len(e.ids) <= maxLen
            /\ \A i \in DOMAIN e.ids : e.labels[i] = (IF i <= Len(prompt) THEN T!Masked ELSE target[i - Len(prompt)])

\* A prompt as long as an example may be leaves nothing to learn, and is one of
\* the examples.
ASSUME NothingToLearnFact ==
  LET e == T!BuildExample(<<"p", "q", "p">>, <<"p", "q", "p", "q">>, 3)
  IN e # T!NoExample /\ ToSet(e.labels) = {T!Masked}

\* A record of each kind, and sessions of them.
Plain == [type |-> "turn", message |-> "m", sent |-> <<>>, ok |-> TRUE, retry |-> 0, turn |-> 0,
          response |-> [content |-> <<>>, reasoning |-> <<>>, calls |-> <<>>]]
Reply(content, reasoning, calls) ==
  [Plain EXCEPT !.type = "model_call", !.sent = <<"s">>,
                !.response = [content |-> content, reasoning |-> reasoning, calls |-> calls]]
RecordKinds == {Plain, Reply(<<"preamble", "answer">>, <<"plan">>, <<>>), Reply(<<"preamble">>, <<"plan">>, <<"c">>),
           [Plain EXCEPT !.type = "tool_call", !.ok = FALSE, !.retry = 2], [Plain EXCEPT !.type = "turn_outcome", !.turn = 1]}

\* _step_row: leaked reasoning is no target of a final answer, the plan is one of
\* a reply that calls tools, a row sees nothing of what came after it, and no
\* tool call is counted for two.
ASSUME RowsAreActions ==
  /\ \A rs \in Upto(RecordKinds, 4) : \A p, q \in ToSet(T!Of(rs, "model_call")) :
       p # q => ToSet(T!CallsOf(rs, p)) \cap ToSet(T!CallsOf(rs, q)) = {}
  /\ \A rs \in Upto(RecordKinds, 4), view \in {"raw", "as_sent"} :
       \A i \in DOMAIN T!ToRows(rs, {1}, view) :
         LET row == T!ToRows(rs, {1}, view)[i]
         IN /\ row.completion.calls = <<>> => "preamble" \notin ToSet(row.completion.content)
            /\ row.completion.calls # <<>> => row.completion.content[1] = "plan"
            /\ row.messages \in {T!Row(SubSeq(rs, 1, p), p, view).messages : p \in ToSet(T!Of(rs, "model_call"))}
            /\ row.maxRetry = 0 \/ FALSE \in row.oks

\* main: every session of the archive is kept, dropped for one reason, or of the
\* gate, and only a kept one gives rows.
Archived == {[eval |-> e, records |-> rs, verdict |-> v, kept |-> {1}, tools |-> t] :
               e \in BOOLEAN, rs \in {<<>>, <<Plain>>, <<Reply(<<"answer">>, <<>>, <<>>)>>},
               v \in {"kept", "refusal"}, t \in {{}, {"grep"}}}
ASSUME ReportAddsUp ==
  \A sessions \in Upto(Archived, 2) :
    LET r == T!Report(sessions, "raw", {"grep"})
    IN /\ r.total + r.excluded = Len(sessions)
       /\ r.kept + FoldFunction(LAMBDA n, sum : n + sum, 0, r.dropped) = r.total
       /\ r.reattached + r.logged = r.kept /\ (r.kept = 0 <=> r.rows = <<>>)

\* From convert to a merged student: the job accepts the flags it is handed, is
\* trained on the rows that are there, and what is merged is what it trained;
\* unless it was not downloaded, and what is merged is what was there before.
TrainRow == [renders |-> TRUE, prompt |-> <<"p">>, full |-> <<"p", "q">>, flat |-> <<"p">>, target |-> <<"q">>]
Box == [role |-> TRUE, sdk |-> TRUE]
Stale == [data |-> <<TrainRow>>, present |-> TRUE, student |-> [of |-> <<"old">>, base |-> "older"]]
Job(download) == T!Launch(Box, Stale, [model |-> "base", maxLen |-> 9, download |-> download], <<>>)
ASSUME JobTrainsRows ==
  /\ T!HyperParameters \subseteq T!SftArguments
  /\ LET m == T!Merge(Job(TRUE).disk, "", TRUE)
     IN m.code = 0 /\ m.base = "base" /\ m.of = <<T!BuildExample(<<"p">>, <<"p", "q">>, 9)>>
ASSUME StaleStudentFact == T!Merge(Job(FALSE).disk, "", TRUE).of = <<"old">>
=============================================================================
