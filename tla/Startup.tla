------------------------------- MODULE Startup -------------------------------
(* From the command line to a running session: the settings of src/config.py,   *)
(* the flags and verbs of main in src/cli.py with what it brings up and takes   *)
(* down, what a child process inherits (src/envscrub.py), what is kept of a     *)
(* secret (src/secretsvault.py), and the folders a user types                   *)
(* (src/userdirs.py).                                                           *)
EXTENDS Integers, Sequences, FiniteSets, SequencesExt, FiniteSetsExt, Functions, TLC

(* Files of settings.  A file is [is, ...]: "absent", "unreadable" (bytes that  *)
(* are no JSON as well), "object" with its fields, or "list" of other JSON.     *)
Modes == {"default", "acceptEdits", "plan", "bypass", "propose"}
ResolvedMode(setting, autoApprove) ==
  CASE setting \in Modes -> setting
    [] setting \notin Modes /\ autoApprove -> "bypass"
    [] OTHER -> "default"

(* A relative path is the one of the install root when there is such a file.    *)
ResolveInstallPath(raw, atRoot) ==
  IF raw.text # "" /\ ~raw.absolute /\ raw.text \in atRoot THEN [raw EXCEPT !.absolute = TRUE] ELSE raw

(* The rules, or the hooks, of a file: each kind empty without it.  What is no  *)
(* object has no fields to ask for, and the loader raises.                      *)
LoadKinds(file, kinds) ==
  CASE file.is \in {"absent", "unreadable"} -> [raised |-> FALSE, rules |-> [k \in kinds |-> <<>>]]
    [] file.is = "list" -> [raised |-> TRUE, rules |-> [k \in kinds |-> <<>>]]
    [] OTHER -> [raised |-> FALSE,
                 rules |-> [k \in kinds |-> IF k \in DOMAIN file.fields THEN file.fields[k] ELSE <<>>]]
RuleKinds == {"deny", "ask", "allow"}
HookKinds == {"PreToolUse", "PostToolUse", "PermissionRequest"}
(* A bar is a sequence of words, or something else that is passed over.         *)
LoadGoalBars(file) ==
  IF file.is = "list" THEN SelectSeq(file.items, LAMBDA b : b.words # <<>> /\ b.plain) ELSE <<>>
ExtraRoots(chunks) == SelectSeq(chunks, LAMBDA c : c # "")

(* What belongs to a project is found from the workspace, what is one for all   *)
(* projects from the install root, and an absolute path stands for itself.      *)
Homes == [memory |-> "workspace", todos |-> "workspace", specs |-> "workspace",
          trajectories |-> "install", skills |-> "install", logs |-> "install"]
PlaceOf(what, setting) == IF setting.absolute THEN setting.text ELSE Homes[what]

(* safety_fingerprint: the mode and the counts of the permissions in force, the *)
(* rest as the settings stand when it is taken.                                 *)
Fingerprint(perms, on) ==
  [mode |-> perms.mode, rules |-> [k \in RuleKinds |-> Len(perms.rules[k])], roots |-> Len(perms.roots),
   on |-> on, web |-> on \cap {"ENABLE_WEB", "MCP_WEB_ACTIVE"} # {}]

-----------------------------------------------------------------------------
(* _parse_flags: a word that takes a value takes the next one; without a next   *)
(* one, and for every other word, it is left for the task.                      *)
Toggles == [on |-> {"--memory", "--todos", "--spec-first"}, off |-> {"--no-memory", "--no-todos", "--no-spec-first"}]
FlagOf == [w \in {"--memory", "--no-memory"} |-> "MEMORY"]
            @@ [w \in {"--todos", "--no-todos"} |-> "PROJECT_TODOS"]
            @@ [w \in {"--spec-first", "--no-spec-first"} |-> "SPEC_FIRST"]
Valued == {"-C", "--add-dir", "--mode", "--warmup"}
Unparsed(on) == [mode |-> "", dirs |-> <<>>, rest |-> <<>>, on |-> on, workspace |-> "cwd", bad |-> FALSE]

Take(p, flag, value) ==
  CASE flag = "-C" -> [p EXCEPT !.workspace = value]
    [] flag = "--add-dir" -> [p EXCEPT !.dirs = Append(@, value)]
    [] flag = "--mode" -> [p EXCEPT !.mode = value]
    [] flag = "--warmup" -> [p EXCEPT !.bad = value = "word"]
Toggle(p, word) ==
  IF word \in Toggles.on THEN [p EXCEPT !.on = @ \cup {FlagOf[word]}]
  ELSE [p EXCEPT !.on = @ \ {FlagOf[word]}]
ParseFlags(argv, on) ==
  LET upto[i \in 0 .. Len(argv)] ==
        IF i = 0 THEN [p |-> Unparsed(on), next |-> 1]
        ELSE LET d == upto[i - 1]
                 word == argv[i]
             IN CASE d.next > i \/ d.p.bad -> d
                  [] d.next = i /\ ~d.p.bad /\ word \in Valued /\ i < Len(argv) ->
                       [p |-> Take(d.p, word, argv[i + 1]), next |-> i + 2]
                  [] d.next = i /\ ~d.p.bad /\ word \in Toggles.on \cup Toggles.off ->
                       [p |-> Toggle(d.p, word), next |-> i + 1]
                  [] OTHER -> [p |-> [d.p EXCEPT !.rest = Append(@, word)], next |-> i + 1]
  IN upto[Len(argv)].p

(* main, as the steps it takes, in order.  `w` is the process: its flags and    *)
(* settings, the file of rules, and the step at which it is interrupted or a    *)
(* step raises ("" when none does).                                             *)
NameVerbs == {"--set-name", "--remove-name"}
Permitted(w, parsed) ==
  [mode |-> IF parsed.mode # "" THEN parsed.mode ELSE ResolvedMode(w.modeSetting, w.autoApprove),
   roots |-> ExtraRoots(w.addDirs) \o ExtraRoots(parsed.dirs),
   rules |-> LoadKinds(w.rulesFile, RuleKinds).rules]
BroughtUp == <<"connect", "window", "warm_up">>
Session(rest) ==
  CASE rest # <<>> /\ rest[1] = "--resume" -> IF Len(rest) < 2 THEN "usage" ELSE "resume"
    [] rest = <<>> -> "repl"
    [] OTHER -> "one-shot"
Plan(w, argv) ==
  LET parsed == ParseFlags(argv, w.on)
  IN CASE argv # <<>> /\ argv[1] \in NameVerbs -> <<"name">>
       [] argv # <<>> /\ argv[1] \notin NameVerbs /\ ToSet(argv) \cap NameVerbs # {} -> <<"usage">>
       [] argv = <<>> \/ ToSet(argv) \cap NameVerbs = {} ->
            CASE parsed.bad \/ (parsed.mode # "" /\ parsed.mode \notin Modes) -> <<"usage">>
              [] LoadKinds(w.rulesFile, RuleKinds).raised -> <<"raised">>
              [] parsed.rest # <<>> /\ parsed.rest[1] = "--run-task" ->
                   IF Len(parsed.rest) < 3 THEN <<"usage">> ELSE <<"window", "warm_up", "worker">>
              [] OTHER -> BroughtUp \o <<Session(parsed.rest), "disconnect">>
(* What is left when a step dies: the steps to it, and the one that is done     *)
(* whatever happens to a session.                                               *)
Main(w, argv) ==
  LET steps == <<"secrets">> \o Plan(w, argv)
      died == SelectInSeq(steps, LAMBDA s : s = w.dies)
  IN IF died = 0 THEN steps
     ELSE SubSeq(steps, 1, died)
            \o (IF w.dies \in {"usage", "resume", "one-shot", "repl"} /\ "connect" \in ToSet(steps)
                 THEN <<"disconnect">> ELSE <<>>)
(* The flags a session runs with: the propose mode turns its own on. *)
Flags(w, argv) ==
  LET parsed == ParseFlags(argv, w.on)
  IN parsed.on \cup (IF Permitted(w, parsed).mode = "propose" THEN {"PROPOSE"} ELSE {})

-----------------------------------------------------------------------------
(* A vault is a function of names, kept as one encrypted file: [is, held], and  *)
(* is "absent", "broken" or "whole".  What cannot be read holds nothing.        *)
ReadVault(file, crypt) == IF file.is = "whole" /\ crypt THEN file.held ELSE <<>>
(* The file is opened, and emptied, before its new content is encrypted.        *)
SetSecret(file, name, value, crypt) ==
  IF crypt THEN [raised |-> FALSE, file |-> [is |-> "whole", held |-> (name :> value) @@ ReadVault(file, crypt)]]
  ELSE [raised |-> TRUE, file |-> [is |-> "broken", held |-> <<>>]]
LoadIntoEnv(env, windows, file, crypt) == IF windows THEN env @@ ReadVault(file, crypt) ELSE env
(* _apply_secrets_startup: the key of the model, and the files that are locked. *)
ApplySecrets(env, w, file) ==
  LET loaded == IF "SECRETS_VAULT" \in w.on THEN LoadIntoEnv(env, w.windows, file, w.crypt) ELSE env
  IN [env |-> loaded, key |-> IF "API_KEY" \in DOMAIN loaded THEN loaded["API_KEY"] ELSE "",
      locked |-> IF "LOCK_SECRETS" \in w.on /\ w.windows THEN w.present ELSE {}]

(* child_env: a variable is [code, known, shaped]: OAC's own, one a shell or a  *)
(* toolchain needs, one whose name looks like a secret's.                       *)
ChildEnv(env, kind, on, passed) ==
  LET Kept(v) == /\ ~kind[v].code
                 /\ kind[v].known \/ v \in passed
                 /\ kind[v].shaped => v \in passed
  IN IF "ENV_SCRUB" \in on THEN Restrict(env, {v \in DOMAIN env : Kept(v)}) ELSE env

(* scrub_record: a record is its texts by the path of keys that leads to each,  *)
(* a text a sequence of pieces; what is returned is a copy.                     *)
ScrubText(text) == [i \in DOMAIN text |-> IF text[i] = "secret" THEN "marker" ELSE text[i]]
ScrubRecord(record) == [path \in DOMAIN record |-> ScrubText(record[path])]

(* configure: the log of a run, and none when it cannot be written.             *)
LogPath(setting, run, writable) ==
  IF setting.text = "" \/ ~writable THEN <<>> ELSE <<PlaceOf("logs", setting), run>>

-----------------------------------------------------------------------------
(* grantable_dir, over what a resolved path is: how deep below its drive or     *)
(* share, and which of the places that are not handed over it lies in.          *)
GrantableDir(d) ==
  /\ d.exists
  /\ d.depth >= 1
  /\ ~d.sensitive /\ ~d.system /\ ~d.profileRoot

(* user_typed_dirs.  A text is its words: what each says with the punctuation   *)
(* around it stripped, whether an absolute path begins in it (at), whether it   *)
(* negates, whether punctuation follows (punct), its clause ends with it (stop) *)
(* or its line (eol); and the quoted spans that begin with an absolute path, as *)
(* pairs of positions.                                                          *)
WordCap == 12
Says(text, i, j) == [k \in 1 .. j - i + 1 |-> text.words[i + k - 1].says]
Negated(text, i) ==
  \E j \in 1 .. i - 1 : text.words[j].neg /\ \A k \in j .. i - 1 : ~text.words[k].stop /\ ~text.words[k].eol
(* Punctuation is stripped from the ends of a candidate, not from its inside.   *)
Resolves(text, i, j, dirs) ==
  /\ \A k \in i .. j - 1 : ~text.words[k].punct
  /\ Says(text, i, j) \in DOMAIN dirs /\ GrantableDir(dirs[Says(text, i, j)])
Span(text, i, dirs) ==
  {j \in i .. Min({Len(text.words), i + WordCap - 1}) :
     Resolves(text, i, j, dirs) /\ \A k \in i .. j - 1 : ~text.words[k].eol}
Emit(out, text, i, j) ==
  IF Negated(text, i) \/ Says(text, i, j) \in ToSet(out) THEN out ELSE Append(out, Says(text, i, j))
UserTypedDirs(text, dirs) ==
  LET Quoted(out, q) == IF Resolves(text, q[1], q[2], dirs) THEN Emit(out, text, q[1], q[2]) ELSE out
      Bare(out, i) ==
        IF text.words[i].at /\ Span(text, i, dirs) # {} THEN Emit(out, text, i, Max(Span(text, i, dirs))) ELSE out
  IN FoldLeft(Bare, FoldLeft(Quoted, <<>>, text.quotes), [i \in DOMAIN text.words |-> i])
=============================================================================
