---------------------------- MODULE MCDelegation ----------------------------
(* A small repository, its plans and workflows.                            *)
EXTENDS Delegation

MCDirs  == <<"lib", "src">>
MCFiles == <<"LICENSE", "README">>
MCTop   == [u \in {"lib", "src", "src/a", "LICENSE", "README", "naming"} |->
              IF u = "src/a" THEN "src" ELSE u]

\* A vague plan, and one that is not: root files, a concern, a part of a folder.
MCPlans == {<<"everything">>, <<"LICENSE", "README", "everything", "naming", "src/a">>}

Phase(label, jobs) == [label |-> label, jobs |-> jobs]
MCWorkflows ==
  {<<Phase("one", <<"j1", "everything", "j2", "j3", "j6">>), Phase("none", <<"everything">>),
     Phase("two", <<"j4">>), Phase("three", <<"j5">>)>>}

MCConfigs == {[width |-> 1, async |-> FALSE, mode |-> "work"],
              [width |-> 1, async |-> TRUE,  mode |-> "propose"],
              [width |-> 2, async |-> FALSE, mode |-> "work"]}

MCConcerns == <<"style">>
=============================================================================
