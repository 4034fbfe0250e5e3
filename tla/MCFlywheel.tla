----------------------------- MODULE MCFlywheel -----------------------------
(* Instances of Flywheel for TLC: whole sessions of one process, the fence *)
(* of sessions that are resumed, batches and sessions with children, and   *)
(* sessions whose answers curation judges.                                 *)
EXTENDS Flywheel

Base == [dirs |-> {"d1"}, answers |-> {"fine"}, askers |-> {}, solo |-> {FALSE}, exits |-> {"completed"},
         exclude |-> FALSE, programs |-> {"session"}, turns |-> 1, acts |-> 1, told |-> 0, lives |-> 1,
         children |-> 0, depth |-> 1]

MCScenarios ==
  {[Base EXCEPT !.answers = {"fine", "loop"}, !.exits = {"completed", "stall"}, !.turns = 2],
   [Base EXCEPT !.exits = {"completed", "stall"}, !.turns = 2, !.acts = 2],
   [Base EXCEPT !.answers = {"fine", "loop"}, !.solo = BOOLEAN, !.exits = {"completed", "stall"}, !.acts = 2],
   [Base EXCEPT !.dirs = {"d1", "d2"}, !.answers = {"refusal"}, !.askers = {"user"}, !.solo = BOOLEAN,
                !.told = 2, !.lives = 3],
   [Base EXCEPT !.answers = {"fine", "phantom"}, !.exclude = TRUE, !.acts = 3, !.solo = BOOLEAN],
   [Base EXCEPT !.askers = {"agent"}, !.solo = BOOLEAN, !.exits = {"completed", "max_steps"},
                !.acts = 2, !.told = 1, !.children = 1],
   [Base EXCEPT !.programs = {"gate"}, !.exits = {"completed", "nudge_exhausted"}, !.children = 2, !.depth = 2],
   [Base EXCEPT !.programs = {"capture"}, !.exits = {"completed", "nudge_exhausted"}, !.acts = 2, !.children = 1]}
=============================================================================
