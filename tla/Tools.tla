-------------------------------- MODULE Tools --------------------------------
(* The tool calls of one agent's turns (src/tools.py) and the judgement of the  *)
(* answer that rests on them: calls change the files, the ledger of changes,    *)
(* the read-ledger of the web and the evidence of checks; hooks run before and  *)
(* after them; a command may leave processes behind that go on changing files.  *)
(* A scenario, chosen in the initial state, says what one behaviour explores.   *)
EXTENDS Grounding, Web, Shell

E == INSTANCE Editing
L == INSTANCE CommandLines

CONSTANTS Scenarios, \* the instances a run explores, a sequence
          Near,      \* pairs of bodies that difflib finds alike
          Threshold, \* CODE_EDIT_FUZZY_THRESHOLD, in half lines
          Tie,       \* _TIE_EPSILON, in half lines
          WalkCap,   \* how many files _repo_paths looks at (8000)
          LeastFit   \* how many sources fit however long they are: 12000 / 3000

(* What is on: the settings of the grounding check. *)
Ons == [absenceStrict : BOOLEAN, runtimeDone : BOOLEAN, web : BOOLEAN, mutationClaims : BOOLEAN,
        skipGreenfield : BOOLEAN, greenfieldMax : Nat, semantic : BOOLEAN, paths : BOOLEAN,
        antiCollapse : BOOLEAN]

IsSeq(s) == s \in Seq(Range(s))

ASSUME ScenariosAssumption ==
  \A s \in Range(Scenarios) :
    /\ {s.calls, s.turns, s.hooks, s.posts, s.maxResults} \subseteq Nat
    /\ {s.enableWeb, s.netfence, s.fuzzy, s.fence} \subseteq BOOLEAN
    /\ s.on \in Ons
    /\ \A n \in s.fits : n \in Nat /\ LeastFit <= n
    /\ \A r \in s.replies : IsSeq(r.rows)
    /\ \A c \in s.tools : c.tool = "mcp" => IsSeq(c.urls)
ASSUME ThresholdAssumption == Threshold \in Nat /\ Tie \in Nat
ASSUME CapsAssumption == WalkCap \in Nat \ {0} /\ LeastFit \in Nat \ {0}

VARIABLES sc,         \* which scenario
          files,      \* path -> text
          mutations,  \* ctx.mutations: path -> action
          fetched,    \* ctx.fetched
          verifiedOk, \* ctx._verified_ok
          runtimeOk,  \* ctx._runtime_ok
          servers,    \* the MCP servers that started
          call,       \* the call in progress
          phase,      \* "ready", "pre", "tool", "command", "post" or "verify"
          hook,       \* which hook of the phase is running
          stray,      \* a process outlived the call that started it
          judged,     \* the last judgement of an answer
          turn,       \* which turn of the session
          spent,      \* calls made in this turn
          hist        \* what this turn's calls established: [passed, changed, read, seen]
toolsVars == <<sc, files, mutations, fetched, verifiedOk, runtimeOk, servers, call, phase,
               hook, stray, judged, turn, spent, hist, shellVars>>

evidence == <<mutations, fetched, verifiedOk, runtimeOk, hist>>
session  == <<sc, servers, host>>

scenario == Scenarios[sc]

Nothing == [tool |-> "none"]

\* A judgement: of which answer and turn, whether it is asked for or done, what the
\* nets said, the sources the verifier was given, its verdict, and the outcome.
Unspoken == [usable |-> FALSE, flags |-> {}]
Judgement(at, answer, clean, given) ==
  [at |-> at, turn |-> turn, answer |-> answer, clean |-> clean, given |-> given,
   verdict |-> Unspoken, fine |-> clean /\ at = "done"]
Unjudged == [at |-> "none", turn |-> 0, answer |-> {}, clean |-> TRUE, given |-> <<>>,
             verdict |-> Unspoken, fine |-> TRUE]
Fresh == [passed |-> {}, changed |-> {}, read |-> {}, seen |-> {}]

(* config.web_grounding_active *)
WebActive == scenario.enableWeb \/ \E m \in servers : m.web

Settings == [scenario.on EXCEPT !.web = WebActive]

ToolsInit == /\ sc \in DOMAIN Scenarios
             /\ host = scenario.host
             /\ files \in scenario.files
             /\ mutations = <<>> /\ fetched = <<>> /\ verifiedOk = FALSE /\ runtimeOk = FALSE
             /\ servers \in SUBSET scenario.servers  \* connect: a server that fails to start is left out
             /\ call = Nothing /\ phase = "ready" /\ hook = 0 /\ stray = FALSE
             /\ judged = Unjudged /\ turn = 1 /\ spent = 0 /\ hist = Fresh
             /\ ShellInit

------------------------------------------------------------------------------
(* A call, its hooks and the permission engine (Permissions; here any answer). *)

(* The hooks of an event run one after the other, each a spawn of its own. *)
RunHooks(event, n) == phase' = event /\ hook' = n /\ BeginHook

(* The result is there: the PostToolUse hooks see it, whatever it is. *)
Over == IF scenario.posts > 0 THEN RunHooks("post", 1)
        ELSE phase' = "ready" /\ hook' = 0 /\ proc' = Idle /\ UNCHANGED <<avail, left>>

CallTool == /\ phase = "ready" /\ spent < scenario.calls
            /\ \E c \in scenario.tools :
                 /\ c.tool = "mcp" => c.server \in servers
                 /\ call' = c
            /\ spent' = spent + 1
            /\ IF scenario.hooks > 0 THEN RunHooks("pre", 1)
               ELSE phase' = "tool" /\ hook' = 0 /\ UNCHANGED <<proc, avail, left>>
            /\ UNCHANGED <<session, files, evidence, stray, judged, turn>>

(* pretool: a deny ends the scan, whatever the hooks before it said; a hook     *)
(* that failed, timed out or said nothing usable has no opinion.                *)
PreHookEnds ==
  /\ phase = "pre" /\ Returned
  /\ \E opinion \in {"none", "ask", "deny"} :
       /\ opinion # "none" => proc.out = "ran"
       /\ \/ opinion = "deny" /\ Over
          \/ opinion # "deny" /\ hook < scenario.hooks /\ RunHooks("pre", hook + 1)
          \/ /\ opinion # "deny" /\ hook >= scenario.hooks
             /\ \/ phase' = "tool" /\ hook' = 0 /\ proc' = Idle /\ UNCHANGED <<avail, left>>
                \/ Over
  /\ stray' = (stray \/ Alive(proc))
  /\ UNCHANGED <<session, files, evidence, call, judged, turn, spent>>

(* posttool: what the hook says is not looked at. *)
PostHookEnds ==
  /\ phase = "post" /\ Returned
  /\ IF hook < scenario.posts THEN RunHooks("post", hook + 1)
     ELSE phase' = "ready" /\ hook' = 0 /\ proc' = Idle /\ UNCHANGED <<avail, left>>
  /\ stray' = (stray \/ Alive(proc))
  /\ UNCHANGED <<session, files, evidence, call, judged, turn, spent>>

------------------------------------------------------------------------------
(* The tools that change a file.  _record_mutation notes a change that was made. *)
Running(tool) == phase = "tool" /\ call.tool = tool

RecordMutation(path, action) ==
  /\ mutations' = [p \in DOMAIN mutations \cup {path} |-> IF p = path THEN action ELSE mutations[p]]
  /\ hist' = [hist EXCEPT !.changed = @ \cup {path}]
  /\ UNCHANGED <<fetched, verifiedOk, runtimeOk>>

Store(path, text) == files' = [p \in DOMAIN files \cup {path} |-> IF p = path THEN text ELSE files[p]]
Drop(path) == files' = [p \in DOMAIN files \ {path} |-> files[p]]

(* open("w") truncates the file before its text is written: a write that raises *)
(* leaves it empty or with a beginning of the text, and unrecorded.             *)
Torn(path, text) == \E n \in 0 .. Len(text) : Store(path, SubSeq(text, 1, n)) /\ UNCHANGED evidence

WriteFile ==
  /\ Running("write_file")
  /\ \/ Store(call.path, call.text) /\ RecordMutation(call.path, "write")
     \/ Torn(call.path, call.text)
     \/ UNCHANGED <<files, evidence>>
  /\ Over
  /\ UNCHANGED <<session, call, stray, judged, turn, spent>>

DeleteFile ==
  /\ Running("delete_file")
  /\ \/ call.path \in DOMAIN files /\ Drop(call.path) /\ RecordMutation(call.path, "delete")
     \/ UNCHANGED <<files, evidence>>
  /\ Over
  /\ UNCHANGED <<session, call, stray, judged, turn, spent>>

Edited == E!EditFile(files[call.path], call.edit, scenario.fuzzy, Near, Threshold, Tie)

EditFile ==
  /\ Running("edit_file")
  /\ \/ call.path \notin DOMAIN files /\ UNCHANGED <<files, evidence>>
     \/ /\ call.path \in DOMAIN files
        /\ \E result \in {Edited} :
             \/ result.ok /\ Store(call.path, result.text) /\ RecordMutation(call.path, "edit")
             \/ result.ok /\ Torn(call.path, result.text)
             \/ UNCHANGED <<files, evidence>>
  /\ Over
  /\ UNCHANGED <<session, call, stray, judged, turn, spent>>

------------------------------------------------------------------------------
(* The tools that read the web. *)
Reads(ledgerOfPages, full) ==
  /\ fetched' = ledgerOfPages
  /\ hist' = [hist EXCEPT !.read = @ \cup full, !.seen = @ \cup Ledgered(ledgerOfPages)]
  /\ UNCHANGED <<files, mutations, verifiedOk, runtimeOk>>

WebFetch ==
  /\ Running("web_fetch")
  /\ IF scenario.enableWeb /\ FetchOk(call.hops, scenario.netfence)
     THEN Reads(RecordFetch(fetched, call.url), {call.url.page})
     ELSE UNCHANGED <<files, evidence>>
  /\ Over
  /\ UNCHANGED <<session, call, stray, judged, turn, spent>>

SearchTheWeb ==
  /\ Running("web_search")
  /\ IF scenario.enableWeb
     THEN \E reply \in scenario.replies :
            Reads(WebSearch(fetched, scenario.provider, reply, scenario.maxResults), {})
     ELSE UNCHANGED <<files, evidence>>
  /\ Over
  /\ UNCHANGED <<session, call, stray, judged, turn, spent>>

CallServer ==
  /\ Running("mcp")
  /\ \E ok \in BOOLEAN : Reads(McpResult(fetched, call.server.web, ok, call.urls), {})
  /\ Over
  /\ UNCHANGED <<session, call, stray, judged, turn, spent>>

------------------------------------------------------------------------------
(* run_command: refused by the write fence, or spawned; a success of a check or *)
(* of a probe is evidence (agent.py).                                           *)
Escaping == L!Escapes(call.line, IF host.windows THEN "powershell" ELSE "bash", scenario.roots)

RunCommand ==
  /\ Running("run_command")
  /\ IF scenario.fence /\ Escaping # {} THEN Over
     ELSE phase' = "command" /\ BeginCommand /\ UNCHANGED hook
  /\ UNCHANGED <<session, files, evidence, call, stray, judged, turn, spent>>

CommandEnds ==
  /\ phase = "command" /\ Returned
  /\ \E ok \in BOOLEAN :
       /\ ok => proc.out = "ran"
       /\ verifiedOk' = (verifiedOk \/ (ok /\ call.check))
       /\ runtimeOk' = (runtimeOk \/ (ok /\ call.probe /\ scenario.on.runtimeDone))
       /\ hist' = [hist EXCEPT !.passed = @ \cup (IF ok /\ call.check THEN {"check"} ELSE {})
                                            \cup (IF ok /\ call.probe THEN {"probe"} ELSE {})]
  /\ stray' = (stray \/ Alive(proc))
  /\ Over
  /\ UNCHANGED <<session, files, mutations, fetched, call, judged, turn, spent>>

(* Ctrl-C leaves the call, and with it the turn. *)
InterruptCommand ==
  /\ phase \in {"pre", "command", "post"} /\ Interrupt
  /\ stray' = (stray \/ Alive(proc'))
  /\ phase' = "ready" /\ spent' = scenario.calls
  /\ UNCHANGED <<session, files, evidence, call, hook, judged, turn>>

SpawnStep == /\ phase \in {"pre", "command", "post"} /\ ShellStep
             /\ UNCHANGED <<session, files, evidence, call, phase, hook, stray, judged, turn, spent>>

(* What a running command, or one that was left behind, does to the files. *)
ProcessWrites ==
  /\ stray \/ (phase = "command" /\ (proc.kid = "runs" \/ proc.heir))
  /\ \E p \in scenario.elsewhere : IF p \in DOMAIN files THEN Drop(p) ELSE Store(p, <<>>)
  /\ UNCHANGED <<session, evidence, call, phase, hook, stray, judged, turn, spent, proc, avail, left>>

ProcessLives == /\ phase \in {"pre", "command", "post"} /\ Processes
                /\ UNCHANGED <<session, files, evidence, call, phase, hook, stray, judged, turn, spent>>

------------------------------------------------------------------------------
(* The closing answer is judged as the workspace and the ledgers are; a turn    *)
(* starts with empty ledgers and no evidence.                                   *)
World == [files |-> DOMAIN files, vast |-> scenario.vast,
          hollow |-> {d \in scenario.hollow : ~\E p \in DOMAIN files : Within(d, p)}]

Context == [depth |-> scenario.depth, w |-> World, hidden |-> scenario.hidden, verified |-> verifiedOk,
            reached |-> runtimeOk, fetched |-> fetched, mutations |-> DOMAIN mutations, spawn |-> TRUE]

(* The nets look at the answer, and the verifier is asked or not. *)
Judge ==
  /\ phase = "ready"
  /\ \E a \in scenario.answers, fits \in scenario.fits :
       LET asks  == Consults(a, Context, Settings)
           clean == NetProblems(a, Context, Settings) = {}
           given == IF WebActive THEN CitedFetched(a, fetched, scenario.rank, fits) ELSE <<>>
       IN /\ phase' = IF asks THEN "verify" ELSE phase
          /\ judged' = Judgement(IF asks THEN "asked" ELSE "done", a, clean, given)
  /\ UNCHANGED <<session, files, evidence, call, hook, stray, turn, spent, proc, avail, left>>

(* The verifier has answered; its flags are held against the tree as it is now. *)
CrossCheck ==
  /\ phase = "verify"
  /\ \E v \in scenario.verdicts, seen \in RepoPaths(World, scenario.unwalked, WalkCap) :
       LET clear == FlagsLeft(v, Settings, seen, scenario.bare) = {}
       IN judged' = [judged EXCEPT !.at = "done", !.verdict = v, !.fine = judged.clean /\ clear]
  /\ phase' = "ready"
  /\ UNCHANGED <<session, files, evidence, call, hook, stray, turn, spent, proc, avail, left>>

\* Mutant of EndTurn: the evidence of a check survives the turn.
EndTurnTrusting ==
  /\ phase = "ready" /\ turn < scenario.turns
  /\ turn' = turn + 1 /\ spent' = 0
  /\ mutations' = <<>> /\ fetched' = <<>> /\ runtimeOk' = FALSE /\ hist' = Fresh
  /\ judged' = Unjudged
  /\ UNCHANGED <<session, files, verifiedOk, call, phase, hook, stray, proc, avail, left>>

EndTurn ==
  /\ phase = "ready" /\ turn < scenario.turns
  /\ turn' = turn + 1 /\ spent' = 0
  /\ mutations' = <<>> /\ fetched' = <<>> /\ verifiedOk' = FALSE /\ runtimeOk' = FALSE /\ hist' = Fresh
  /\ judged' = Unjudged
  /\ UNCHANGED <<session, files, call, phase, hook, stray, proc, avail, left>>

(* A tool without a process of its own is done in one step. *)
OneStep == WriteFile \/ DeleteFile \/ EditFile \/ WebFetch \/ SearchTheWeb \/ CallServer \/ RunCommand

SpawnEnds == PreHookEnds \/ PostHookEnds \/ CommandEnds

ToolsNext == \/ CallTool \/ OneStep \/ SpawnEnds \/ InterruptCommand \/ SpawnStep
             \/ ProcessWrites \/ ProcessLives \/ Judge \/ CrossCheck \/ EndTurn

(* The interpreter runs on, waits end at their time limits and the verifier at  *)
(* its budget of steps; a command's own processes owe nothing.                  *)
Fairness == WF_toolsVars(SpawnStep) /\ WF_toolsVars(SpawnEnds) /\ WF_toolsVars(CrossCheck)

ToolsSpec == ToolsInit /\ [][ToolsNext]_toolsVars /\ Fairness

------------------------------------------------------------------------------
(* Properties *)

ToolsTypeOK == /\ phase \in {"ready", "pre", "tool", "command", "post", "verify"}
               /\ proc.at = "idle" \/ (proc.via \in Vias /\ proc.held \subseteq Handles)
               /\ avail \in {"unknown", "yes", "no"} /\ spent \in 0 .. scenario.calls
               /\ DOMAIN mutations \subseteq hist.changed

(* What a sentence of an answer claims is what the calls of this turn           *)
(* established: checks and probes that passed, changes that were made, pages    *)
(* that were put before the model; what it says of paths is so on the disk.     *)
(* With the path check on, even a sentence that truthfully calls a file missing *)
(* must name it without its directory.                                          *)
Absent(w, p) == ~IsFile(w, p) /\ ~HasEntries(w, p)

PathsCount == ~Greenfield(Context, Settings) /\ (scenario.on.paths \/ ~scenario.on.semantic)

Specific(t) == /\ Local(t) /\ Slash(t)
               /\ \/ t.ext = "code" /\ t.looks \notin {"date", "host"}
                  \/ t.ext = "known" /\ scenario.on.paths

Holds(s) ==
  /\ "success" \in s.says /\ ~s.hedged => "check" \in hist.passed
  /\ "runtime" \in s.says /\ ~s.hedged /\ ~s.negated /\ scenario.on.runtimeDone => "probe" \in hist.passed
  /\ "done" \in s.says /\ ~s.hedged /\ ~s.negated /\ s.own /\ scenario.on.mutationClaims
       => hist.changed # {}
  /\ WebActive => \A l \in s.links : l.page \in hist.seen
  /\ "absent" \in s.says /\ (scenario.on.absenceStrict => s.flat /\ ~s.meta)
       => \A t \in s.quotes : Broad(t) => Absent(World, t.path)
  /\ PathsCount => \A t \in s.quotes :
       Specific(t) => Exists(World, t.path) \/ t.path \in hist.changed

(* A flag that the tree can decide: the walk meets every file it may look at,   *)
(* and no name of the flag begins with a dot or is one of a skipped directory.  *)
(* The tree refutes it when a file it calls missing is there, or none of those  *)
(* it calls present.                                                            *)
EndsWith(tree, p) == \E q \in tree : IsSuffix(p, q)

Decidable(f) ==
  /\ Cardinality(DOMAIN files \ scenario.unwalked) <= WalkCap
  /\ \A p \in f.names : /\ Head(p) \notin DOMAIN scenario.bare
                        /\ ~EndsWith(DOMAIN files \cap scenario.unwalked, p)

Refuted(f) ==
  \/ f.denies /\ \E p \in f.names \ f.place : EndsWith(DOMAIN files, p)
  \/ f.affirms /\ ~f.denies /\ f.names # {} /\ \A p \in f.names : ~EndsWith(DOMAIN files, p)

MayGo(f)   == scenario.on.antiCollapse /\ (Decidable(f) => Refuted(f))
MayStay(f) == scenario.on.antiCollapse => (Decidable(f) => ~Refuted(f))

Raised(v) == IF v.usable THEN v.flags ELSE {}

(* An answer of the top-level agent passes the nets exactly when each of its    *)
(* sentences holds by what this turn did: nothing of an earlier turn backs it,  *)
(* and a call that was refused, failed or timed out does not.  It is accepted   *)
(* when it passed them and, if a verifier was asked, every flag that the tree   *)
(* can decide is refuted by the tree as it is when the verifier has answered;   *)
(* it is turned down only by the nets or by a flag that such a tree does not    *)
(* refute.  Excepted are the flags that the tree cannot decide: about a file    *)
(* the walk skips or does not reach, or named with a leading dot.               *)
JudgedByTheTurn ==
  [][judged' # judged /\ judged'.turn = turn /\ scenario.depth = 0 =>
       IF judged.at # "asked"
       THEN /\ judged'.clean <=> \A s \in judged'.answer : Holds(s)
            /\ judged'.at = "done" => (judged'.fine <=> judged'.clean)
       ELSE LET raised == Raised(judged'.verdict)
            IN /\ judged'.answer = judged.answer
               /\ judged'.fine => judged.clean /\ \A f \in raised : MayGo(f)
               /\ judged'.fine \/ ~judged.clean \/ \E f \in raised : MayStay(f)]_toolsVars

(* A verifier that is asked has been given every page the answer cites and this *)
(* turn fetched, from what was fetched and not from a search result, under      *)
(* whatever spelling and whatever searches and servers named the page before or *)
(* after; only when LeastFit recorded pages of the answer come before it may a  *)
(* page be left out.  (What is given of a page is its beginning.)               *)
StrongestEvidence ==
  phase = "verify" /\ WebActive =>
    LET known == Recorded(judged.answer, fetched)
    IN \A u \in CitedUrls(judged.answer) \cap hist.read :
         IF u \in DOMAIN judged.given THEN judged.given[u].tier = "fetched"
         ELSE u \in known /\ Cardinality(Ahead(u, known, scenario.rank)) >= LeastFit

(* An edit that is reported changes one place, the only one where the old text  *)
(* stands (or, with the fallback, stands that well), and every line before and  *)
(* after it survives as a line.  Excepted are a new text that does not end its  *)
(* line where the old one did, or where the fallback took the newline with the  *)
(* lines it found: the next line is then joined to it; and the empty old text   *)
(* with replace_all, which puts the new one between all characters.             *)
Joins(t, e) == ~e.new[Len(e.new)].nl /\ (E!Occurrences(t, e.old) = {} \/ e.old[Len(e.old)].nl)

Survives(t, after, i, e) ==
  LET rest == SubSeq(t, i + Len(e.old), Len(t)) IN
    /\ IsPrefix(SubSeq(t, 1, i - 1), after)
    /\ \/ rest = <<>> \/ IsSuffix(rest, after)
       \/ /\ Joins(t, e) /\ IsSuffix(Tail(rest), after)
          /\ \E l \in Range(after) : IsSuffix(rest[1].body, l.body)

OnlyPlace(t, old, i) ==
  LET apart == {j \in E!Windows(t, Len(old)) : j >= i + Len(old) \/ i >= j + Len(old)}
  IN IF E!StandsAt(t, old, i) THEN \A j \in apart : ~E!StandsAt(t, old, j)
     ELSE /\ E!Likeness(t, old, i, Near) >= Threshold
          /\ \A j \in apart : E!Likeness(t, old, j, Near) < E!Likeness(t, old, i, Near)

EditRight(t, after, e) ==
  \/ e.old = E!NoText /\ (t = <<>> \/ e.all)
  \/ \E i \in E!Windows(t, Len(e.old)) : Survives(t, after, i, e) /\ OnlyPlace(t, e.old, i)
  \/ e.all /\ \A j \in DOMAIN t :
       \/ \E i \in E!Windows(t, Len(e.old)) : E!StandsAt(t, e.old, i) /\ j \in i .. i + Len(e.old) - 1
       \/ \E l \in Range(after) : IsSuffix(t[j].body, l.body)

(* An edit that is reported (the first of its file in a turn, which the ledger  *)
(* shows) lands once; a change that is not reported is a write that failed, and *)
(* leaves a beginning of what the edit would have made of the file.             *)
EditsLandOnce ==
  [][Running("edit_file") /\ call.path \in DOMAIN files \ DOMAIN mutations /\ files' # files =>
       LET t == files[call.path]
           after == files'[call.path]
       IN IF call.path \in DOMAIN mutations' THEN EditRight(t, after, call.edit)
          ELSE Edited.ok /\ IsPrefix(after, Edited.text)]_toolsVars

(* A sandboxed spawn that comes to its end has closed every handle but, at the  *)
(* most, the read end that a process outside the job still holds open; the job  *)
(* leaves no process behind.  One that was given up leaves nothing at all, and  *)
(* a command that has to be confined never runs unconfined.  Excepted are the   *)
(* spawns that an exception or Ctrl-C cut short, which let go of all they hold, *)
(* and the processes of a hook, which a failed kill leaves running.             *)
Contained ==
  /\ host.windows /\ host.sandbox /\ host.required => ~(Busy /\ proc.via = "plain")
  /\ left.at = "ended" /\ left.out \in {"unavailable", "refused"} => left.held = {} /\ left.kid = "none"
  /\ left.at = "ended" /\ left.out \in {"ran", "timeout"} /\ left.via \in {"probe", "job"} =>
       /\ left.held \subseteq {"read"}
       /\ left.held # {} => left.kid # "over" \/ left.heir
       /\ left.caged => left.kid = "over" /\ ~left.heir

(* Every command and every hook comes to its end, whatever its processes do;    *)
(* the one place where a call may hang is the read of a killed command's pipe   *)
(* on Windows without the sandbox.                                              *)
CallEnds == []<>(phase \in {"ready", "tool"} \/ proc.at = "reap")
==============================================================================
