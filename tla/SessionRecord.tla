--------------------------- MODULE SessionRecord ----------------------------
(***************************************************************************)
(* The record of a session (src/src/trajectory.py), the programs that      *)
(* write it (the REPL and the one-shot run of src/src/cli.py, the labels   *)
(* of Agent.run), the session that resumes from it (src/src/session.py),   *)
(* and what training takes from it (Corpus).                               *)
(*                                                                         *)
(* The file is appended to and flushed record by record; a process may die *)
(* at any point and may leave its last line torn.  Raw messages are kept   *)
(* only where they tell the model of a directory it may read; the rest of  *)
(* them is Conversation's.                                                 *)
(***************************************************************************)
EXTENDS Corpus

CONSTANT
  Scenarios  \* what is considered: the directories there are, what the model
             \* may answer ("fine", "loop", "refusal", "phantom"), how a turn
             \* may end (terminated), who widens the fence ("user" by
             \* /add-dir, "agent" by request_dir), whether a one-shot run may
             \* begin the session, whether curation excludes, and four bounds:
             \* the turns of the session, the acts (answers, calls and checks)
             \* of a turn, the messages that name a directory, the processes
             \* that work on the session

\* RunResult.terminated, one for each way outcomes.classify treats it.
Terminations == {"completed", "max_steps", "stall", "nudge_exhausted"}

ASSUME RecordAssumption ==
  \A s \in Scenarios :
    /\ {s.turns, s.acts, s.told, s.lives} \subseteq Nat
    /\ s.answers \subseteq {"fine", "loop", "refusal", "phantom"}
    /\ s.exits \subseteq Terminations /\ s.exclude \in BOOLEAN
    /\ s.askers \subseteq {"user", "agent"} /\ s.solo \subseteq BOOLEAN

VARIABLES
  scope,      \* the scenario
  pc,         \* where the process is
  solo,       \* is it a one-shot run?
  file,       \* the trajectory file
  turns,      \* the REPL's counter of turns
  toolCalls,  \* Trajectory.tool_calls
  fence,      \* Permissions.read_only_roots
  granting,   \* the directory of the grant in hand
  serial,     \* history: turns begun on the session
  lives       \* processes that have worked on it

vars == <<scope, pc, solo, file, turns, toolCalls, fence, granting, serial, lives>>

Log(records) == file' = file \o records
-----------------------------------------------------------------------------
(* The prompt loop and the turn.                                           *)

Init ==
  /\ pc = "prompt"
  /\ scope \in Scenarios /\ solo \in scope.solo
  /\ file = <<Record("session_start", TRUE, 0)>>
  /\ turns = 0 /\ toolCalls = 0 /\ serial = 0 /\ lives = 1
  /\ fence = {} /\ granting = {}

MayAsk(who) == who \in scope.askers /\ Cardinality(Of(file, "turn")) < scope.told

\* Mutant of Grant: the model is told before the grant is on record.
GrantUnlogged ==
  /\ pc = "prompt" /\ ~solo /\ MayAsk("user")
  /\ pc' = "telling"
  /\ \E d \in scope.dirs : granting' = {d} /\ fence' = fence \cup {d}
  /\ UNCHANGED <<solo, file, turns, toolCalls, serial, lives>>

\* /add-dir, or a directory the user names: the fence and its record ...
Grant ==
  /\ pc = "prompt" /\ ~solo /\ MayAsk("user")
  /\ pc' = "telling"
  /\ \E d \in scope.dirs :
       /\ granting' = {d}
       /\ fence' = fence \cup {d}
       /\ Log(IF d \in fence THEN <<>>
              ELSE <<[Record("dir_grant", TRUE, 0) EXCEPT !.dirs = {d}]>>)
  /\ UNCHANGED <<solo, turns, toolCalls, serial, lives>>

\* ... then the message that tells the model of it.
Tell ==
  /\ pc = "telling"
  /\ pc' = "prompt"
  /\ Log(<<[Record("turn", TRUE, 0) EXCEPT !.dirs = granting]>>)
  /\ granting' = {}
  /\ UNCHANGED <<solo, turns, toolCalls, fence, serial, lives>>

Begin ==
  /\ pc = "prompt" /\ serial < scope.turns /\ (solo => serial = 0)
  /\ pc' = "turn"
  /\ turns' = IF solo THEN turns ELSE turns + 1
  /\ serial' = serial + 1
  /\ UNCHANGED <<solo, file, toolCalls, fence, granting, lives>>

Own(types) == {p \in DOMAIN file : file[p].by = serial /\ file[p].type \in types}

Acting ==
  /\ pc = "turn"
  /\ Cardinality(Own({"model_call", "permission", "verification"})) < scope.acts

\* log_model_call.  A loop may pass the guard that looks for one.
Think ==
  /\ Acting
  /\ \E a \in scope.answers :
       Log(<<[Record("model_call", a # "loop", serial) EXCEPT
                !.first = Own({"model_call"}) = {}, !.refuses = a = "refusal",
                !.cites = IF a = "phantom" THEN {"path"} ELSE {}]>>)
  /\ UNCHANGED <<pc, solo, turns, toolCalls, fence, granting, serial, lives>>

\* log_permission and log_tool_call of one call.
Use ==
  /\ Acting
  /\ \E allowed \in BOOLEAN, shows \in {{}} \cup {{"path"} : a \in scope.answers \cap {"phantom"}} :
       Log(<<Record("permission", allowed, serial),
             [Record("tool_call", TRUE, serial) EXCEPT !.shows = shows]>>)
  /\ toolCalls' = toolCalls + 1
  /\ UNCHANGED <<pc, solo, turns, fence, granting, serial, lives>>

\* request_dir, approved under CODE_TRUST_USER_DIRS: the tool's result tells
\* the model, and nothing else is logged.
Request ==
  /\ Acting /\ MayAsk("agent")
  /\ \E d \in scope.dirs :
       /\ fence' = fence \cup {d}
       /\ Log(<<Record("permission", TRUE, serial), Record("tool_call", TRUE, serial),
                [Record("turn", TRUE, serial) EXCEPT !.dirs = {d}]>>)
  /\ toolCalls' = toolCalls + 1
  /\ UNCHANGED <<pc, solo, turns, granting, serial, lives>>

\* log_verification, by a gate.
Check ==
  /\ Acting
  /\ \E ok \in BOOLEAN : Log(<<Record("verification", ok, serial)>>)
  /\ UNCHANGED <<pc, solo, turns, toolCalls, fence, granting, serial, lives>>

\* _finish: the change-list and the spec of the turn, where it has any.
Finish ==
  /\ pc = "turn"
  /\ pc' = "returned"
  /\ \E manifest, spec \in {<<>>} \cup {<<ok>> : ok \in BOOLEAN} :
       Log([k \in DOMAIN manifest |-> Record("manifest", manifest[k], serial)]
           \o [k \in DOMAIN spec |-> Record("spec", spec[k], serial)])
  /\ UNCHANGED <<solo, turns, toolCalls, fence, granting, serial, lives>>

\* outcomes.classify: is it "completed"?
Completed(terminated, calls) == terminated = "completed" /\ calls # {}

Outcome(terminated) ==
  [Record("turn_outcome", Completed(terminated, Own({"tool_call"})), serial) EXCEPT
     !.turn = turns, !.ended = terminated]

End(ok, terminated, by) == [Record("session_end", ok, by) EXCEPT !.ended = terminated]

\* log_turn_outcome
Label ==
  /\ pc = "returned" /\ ~solo
  /\ pc' = "prompt"
  /\ \E terminated \in scope.exits : Log(<<Outcome(terminated)>>)
  /\ UNCHANGED <<solo, turns, toolCalls, fence, granting, serial, lives>>

\* Mutant of Fail: a turn that raised has no label, as before specs/0070.
FailUnlabelled ==
  /\ pc = "turn" /\ ~solo
  /\ pc' = "prompt"
  /\ UNCHANGED <<solo, file, turns, toolCalls, fence, granting, serial, lives>>

\* An exception or Ctrl-C in the turn.
Fail ==
  /\ pc = "turn" /\ ~solo
  /\ pc' = "prompt"
  /\ Log(<<Outcome("error")>>)
  /\ UNCHANGED <<solo, turns, toolCalls, fence, granting, serial, lives>>
-----------------------------------------------------------------------------
(* The end of a process.                                                   *)

Off ==
  /\ pc' = "off"
  /\ fence' = {} /\ granting' = {}
  /\ turns' = 0 /\ toolCalls' = 0
  /\ UNCHANGED <<solo, serial, lives>>

\* The REPL ends the record as completed if any process of it used a tool.
Exit ==
  /\ pc = "prompt" /\ ~solo
  /\ Off
  /\ Log(<<End(toolCalls > 0, "session_end", 0)>>)

\* The one-shot run: VERIFY_COMMAND where there is one, then its outcome.
ExitSolo ==
  /\ pc = "returned" /\ solo
  /\ Off
  /\ \E terminated \in scope.exits, verify \in {<<>>} \cup {<<passed>> : passed \in BOOLEAN} :
       Log([k \in DOMAIN verify |-> Record("verification", verify[k], serial)]
           \o <<End(Completed(terminated, Own({"tool_call"})) /\ verify # <<FALSE>>, terminated, serial)>>)

FailSolo ==
  /\ pc = "turn" /\ solo
  /\ Off
  /\ Log(<<End(FALSE, "exception", serial)>>)

\* The process dies, between two writes or within one.
Crash ==
  /\ pc \in {"prompt", "telling", "turn", "returned"}
  /\ Off
  /\ \E torn \in {<<>>, <<Record("torn", TRUE, 0)>>} : Log(torn)

Granted(rs) == UNION {rs[p].dirs : p \in Of(rs, "dir_grant")}

\* session.resume and Trajectory.resume, which parses the file once more.
Resume ==
  /\ pc = "off" /\ lives < scope.lives
  /\ Of(file, "torn") = {}
  /\ pc' = "prompt"
  /\ solo' = FALSE
  /\ lives' = lives + 1
  /\ toolCalls' = Cardinality(Of(file, "tool_call"))
  /\ fence' = Granted(file)
  /\ Log(<<Record("session_resume", TRUE, 0)>>)
  /\ UNCHANGED <<turns, granting, serial>>

\* ... and does not skip a line it cannot read.
ResumeRaises ==
  /\ pc = "off" /\ lives < scope.lives
  /\ Of(file, "torn") # {}
  /\ pc' = "lost"
  /\ lives' = lives + 1
  /\ UNCHANGED <<solo, file, turns, toolCalls, fence, granting, serial>>

Next ==
  /\ UNCHANGED scope
  /\ \/ Grant \/ Tell \/ Begin \/ Think \/ Use \/ Request \/ Check \/ Finish
     \/ Label \/ Fail \/ Exit \/ ExitSolo \/ FailSolo \/ Crash
     \/ Resume \/ ResumeRaises

Spec == Init /\ [][Next]_vars
-----------------------------------------------------------------------------
(* Properties.                                                             *)

\* A turn is good if it returned by itself and nothing it recorded went wrong.
Good(rs, turn) ==
  /\ \E p \in Of(rs, "turn_outcome") \cup Of(rs, "session_end") :
       rs[p].by = turn /\ rs[p].ended = "completed"
  /\ \A p \in DOMAIN rs : rs[p].by = turn => rs[p].ok

\* Docstring of log_turn_outcome: "train/convert.py drops exactly the bad turns
\* and keeps the good ones".  Nothing of a bad turn becomes a row ...
OnlyGood(records) ==
  \A p \in Rows(records, scope.exclude) : Good(Parsed(records), Parsed(records)[p].by)

\* ... and a file that is over, was ended once and holds neither a refusal nor
\* an answer that curation excludes loses nothing of a good turn.
AllGood(records) ==
  LET rs == Parsed(records) IN
  Of(rs, "session_end") # {} /\ ~IsRefusal(rs) /\ ~(scope.exclude /\ Phantom(rs)) =>
    \A p \in Of(rs, "model_call") : Good(rs, rs[p].by) => p \in Rows(records, scope.exclude)

\* Docstring of _replay_dir_grants: "the resumed session admits the paths the
\* rehydrated history tells the model it may read".
ToldIsGranted ==
  pc \in {"prompt", "turn", "returned"} =>
    UNION {file[p].dirs : p \in Of(file, "turn")} \subseteq fence
=============================================================================
