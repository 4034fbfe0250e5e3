--------------------------- MODULE MCPermissions ---------------------------
(* Small instances of Permissions.                                         *)
EXTENDS Permissions

C == INSTANCE CommandLines

Plain(text, verb) ==
  [text |-> text, verb |-> verb, sub |-> "", args |-> <<>>, dest |-> C!NoPlace, redirect |-> C!NoPlace,
   flags |-> {}, inner |-> C!NoLine, subs |-> {}]
One(text, verb) == [segs |-> <<Plain(text, verb)>>, ops |-> <<>>]
Removal == [segs |-> <<[Plain("rm", "other") EXCEPT !.flags = {"danger"}]>>, ops |-> <<>>]

MCLines == [ls |-> One("ls", "reads"), make |-> One("make", "other"), shim |-> One("shim", "other"),
            killall |-> One("killall", "other"),
            tidy |-> [segs |-> <<[Plain("cd", "reads") EXCEPT !.subs = {Removal}]>>, ops |-> <<>>]]

MCPath     == {"a", "b", "ref", ".env"}
MCCommand  == DOMAIN MCLines
MCSegments == [ls |-> {"ls"}, make |-> {"make"}, shim |-> {"shim"}, killall |-> {"killall"},
               tidy |-> {"cd", "rm"}]
MCSegment  == MCCommand \cup UNION {MCSegments[c] : c \in MCCommand}
MCLine     == [c \in MCCommand |-> c]
MCClassOf  == [ls |-> C!ReadOnly, make |-> C!Mutating, shim |-> C!Mutating, killall |-> C!Mutating,
               tidy |-> C!Dangerous]
MCHome     == [p \in MCPath |-> IF p = "ref" THEN "elsewhere" ELSE "here"]

\* What execpolicy makes of these lines; the tables spare TLC to work it out in every state.
ASSUME MCLinesAssumption ==
  \A c \in MCCommand :
    /\ MCSegments[c] = {s.text : s \in C!SplitSegments(MCLines[c], "bash")}
    /\ MCClassOf[c] = C!Assess(MCLines[c], "bash").worst

MCHookDeny == {<<"delete_file", "b">>}
MCHookAsk  == {<<"edit_file", "a">>}

MCRules(deny, ask, allow) == [deny |-> deny, ask |-> ask, allow |-> allow]
MCRuleSets == {
  MCRules({}, {}, {}),
  MCRules({<<"delete_file", "a">>}, {}, {}),
  MCRules({<<"edit_file", "b">>, <<"run_command", "rm">>}, {<<"write_file", "a">>},
          {<<"write_file", "a">>, <<"delete_file", "a">>, <<"run_command", "cd">>}
            \cup {"run_command"} \X {"make", "shim", "killall"})}

MCPlans == {
  {[action |-> "move", path |-> "b", from |-> "a"]},
  {[action |-> "delete", path |-> "a"]}, {[action |-> "update", path |-> "b"]}}

MCCalls ==
  {[tool |-> t, target |-> "a"] : t \in Editors}
    \cup {[tool |-> t, target |-> "b"] : t \in {"edit_file", "delete_file"}}
    \cup {[tool |-> t, target |-> "ref"] : t \in {"read_file", "write_file"}}
    \cup {[tool |-> t, target |-> ".env"] : t \in {"read_file", "edit_file"}}
    \cup {[tool |-> "run_command", target |-> c] : c \in MCCommand}
    \cup {[tool |-> "pursue", target |-> "ls"],
          [tool |-> "apply_patch", target |-> "removals"],
          [tool |-> "apply_patch move", target |-> "b", from |-> "a"]}

MCFlagSets == {
  {"propose", "execpolicy"},
  {"propose", "persist", "execpolicy", "guardian", "hooks", "trust"},
  {"guardian", "guardian_interactive", "hooks", "no_propose"},
  {"propose", "autoplan", "run_after", "extend_after", "execpolicy", "hooks", "require_sandbox"}}
=============================================================================
