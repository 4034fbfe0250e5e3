------------------------------- MODULE Naming -------------------------------
(* The verbs that name an agent (src/cli.py, decided by src/installshim.py):    *)
(* --set-name writes a launcher, the name into .env and a line into the         *)
(* PowerShell profiles, one file after the other; --remove-name takes them back.*)
(* A text is the sequence of its lines; a line is [key, value], a blank one has *)
(* the key "blank", and one that another program wrote the key "user".          *)
EXTENDS Naturals, Sequences, FiniteSets, SequencesExt

NoName == ""
DefaultName == "OAC"
Line(key, value) == [key |-> key, value |-> value]
Blank == Line("blank", "")

(* validate_name, over what a name may be: "plain", or "odd", the name of a      *)
(* "device", or "taken" by the program itself.                                  *)
Valid(w, name) == w.form[name] = "plain"

(* _parse_set_name: --no-profile anywhere, the name first of the rest, the      *)
(* persona after its flag.                                                      *)
ParseSetName(args) ==
  LET rest == SelectSeq(args, LAMBDA a : a # "--no-profile")
      named == rest # <<>> /\ rest[1] \notin {"--persona", "--other"}
      after == IF named THEN Tail(rest) ELSE rest
      flags == SelectSeq([i \in DOMAIN after |-> i], LAMBDA i : after[i] = "--persona")
  IN [name |-> IF named THEN rest[1] ELSE NoName,
      persona |-> IF flags # <<>> /\ flags[1] < Len(after) THEN after[flags[1] + 1] ELSE "",
      noProfile |-> Len(rest) # Len(args)]

(* _upsert: in the place of the first assignment, the others dropped; none:     *)
(* appended; the empty value removes them all.                                  *)
Upsert(lines, key, value) ==
  LET first == SelectInSeq(lines, LAMBDA l : l.key = key)
      Of(i) == CASE lines[i].key # key -> <<lines[i]>>
                 [] lines[i].key = key /\ i = first /\ value # "" -> <<Line(key, value)>>
                 [] OTHER -> <<>>
      kept == FlattenSeq([i \in DOMAIN lines |-> Of(i)])
  IN IF first = 0 /\ value # "" THEN Append(lines, Line(key, value)) ELSE kept

EnvUpdate(lines, name, persona) ==
  Upsert(Upsert(lines, "NAME", name), "PERSONA", IF name = NoName THEN "" ELSE persona)

(* A body that ends in a newline is one whose last line is blank. *)
ProfileEnsure(lines, line) ==
  IF line \in ToSet(lines) THEN lines
  ELSE (IF lines[Len(lines)] = Blank THEN Front(lines) ELSE lines) \o <<line, Blank>>
ProfileRemove(lines, line) == SelectSeq(lines, LAMBDA l : l # line)

-----------------------------------------------------------------------------
(* The disk: .env (NoFile when there is none), the launchers and other commands,*)
(* those of them that may be run, and the profiles, one per shell found. The    *)
(* host `w` says which directories are on PATH, in order.                       *)
NoFile == <<>>
Read(lines) == IF lines = NoFile THEN <<Blank>> ELSE lines

(* The interpreter of the launcher: the install's own, or of the script found   *)
(* on PATH; a launcher of POSIX lands beside it.                                *)
BinDir(w) == IF w.venv \/ ~w.onPath THEN "venv" ELSE "found"
LauncherAt(w, name) ==
  IF w.windows THEN [dir |-> "scripts", name |-> name] ELSE [dir |-> BinDir(w), name |-> name]
RemovedAt(w, name) ==
  IF w.windows THEN [dir |-> "scripts", name |-> name] ELSE [dir |-> "root", name |-> name]
ProfileLine(name) == Line("source", name)

(* A write replaces one file whole, or none of it: _atomic_write. *)
Writes(w, disk, name, persona, noProfile) ==
  <<[to |-> "launcher", at |-> LauncherAt(w, name)]>>
  \o (IF w.windows THEN <<>> ELSE <<[to |-> "chmod", at |-> LauncherAt(w, name)]>>)
  \o <<[to |-> "env", lines |-> EnvUpdate(Read(disk.env), name, persona)]>>
  \o (IF ~w.windows \/ noProfile THEN <<>>
      ELSE [i \in DOMAIN disk.profiles |->
              [to |-> "profile", n |-> i,
               lines |-> ProfileEnsure(Read(disk.profiles[i].lines), ProfileLine(name))]])

Removals(w, disk, current) ==
  <<[to |-> "env", lines |-> EnvUpdate(Read(disk.env), NoName, "")]>>
  \o (IF current \in {DefaultName, "openagent-code"} THEN <<>>
      ELSE <<[to |-> "unlink", at |-> RemovedAt(w, current)]>>
           \o (IF ~w.windows THEN <<>>
               ELSE LET found == SelectSeq([i \in DOMAIN disk.profiles |-> i],
                                           LAMBDA i : disk.profiles[i].lines # NoFile)
                    IN [k \in DOMAIN found |->
                          [to |-> "profile", n |-> found[k],
                           lines |-> ProfileRemove(disk.profiles[found[k]].lines, ProfileLine(current))]]))

Apply(disk, write) ==
  CASE write.to = "launcher" -> [disk EXCEPT !.launchers = @ \cup {write.at}, !.runnable = @ \ {write.at}]
    [] write.to = "chmod" -> [disk EXCEPT !.runnable = @ \cup {write.at}]
    [] write.to = "unlink" -> [disk EXCEPT !.launchers = @ \ {write.at}]
    [] write.to = "env" -> [disk EXCEPT !.env = write.lines]
    [] write.to = "profile" /\ disk.profiles[write.n].fails -> disk
    [] OTHER -> [disk EXCEPT !.profiles[write.n].lines = write.lines]

(* A process that dies has done the first `k` of its writes. *)
After(disk, writes, k) == FoldLeft(Apply, disk, SubSeq(writes, 1, k))

(* The first command of the name on PATH: which.  A launcher of Windows is no   *)
(* command that PATH finds.                                                     *)
OnPath(w, disk, name) ==
  LET i == SelectInSeq(w.path, LAMBDA d : [dir |-> d, name |-> name] \in disk.launchers)
  IN IF i = 0 THEN {} ELSE {[dir |-> w.path[i], name |-> name]}

(* Nothing is written when a name is missing, refused, or another command's.    *)
SetName(w, disk, args) ==
  LET a == ParseSetName(args)
  IN IF a.name # NoName /\ Valid(w, a.name) /\ OnPath(w, disk, a.name) \subseteq {LauncherAt(w, a.name)}
       THEN Writes(w, disk, a.name, a.persona, a.noProfile) ELSE <<>>

(* agent_name, of a process that starts on this disk: a .env of the directory   *)
(* it is started in wins.                                                       *)
AgentName(w, disk) ==
  LET i == SelectLastInSeq(disk.env, LAMBDA l : l.key = "NAME")
  IN CASE w.cwdName # NoName -> w.cwdName
       [] w.cwdName = NoName /\ i # 0 -> disk.env[i].value
       [] OTHER -> DefaultName
RemoveName(w, disk) == Removals(w, disk, AgentName(w, disk))

(* Typing the name starts the agent. *)
Launches(w, disk, name) ==
  IF w.windows THEN /\ LauncherAt(w, name) \in disk.launchers
                    /\ \E i \in DOMAIN disk.profiles : ProfileLine(name) \in ToSet(disk.profiles[i].lines)
  ELSE OnPath(w, disk, name) \cap disk.runnable # {}
=============================================================================
