------------------------------- MODULE Corpus -------------------------------
(***************************************************************************)
(* From the records of agents' runs to training rows (src/train/convert.py *)
(* with src/train/curate.py and src/eval/rubric.py).                       *)
(*                                                                         *)
(* A record is one line of a trajectory file: its type, whether what it    *)
(* reports went well, the number a turn_outcome carries, how the run it    *)
(* closes ended (terminated), whether a model call is the first of its     *)
(* turn (step 0), reads as a refusal and what it cites, what a tool call   *)
(* brought to light, whether a session_start is a child's, the directories *)
(* a grant names, and, for the properties only, the turn that wrote it     *)
(* ("by", 0 outside of any).                                               *)
(***************************************************************************)
EXTENDS Naturals, Sequences, FiniteSets

Record(type, ok, by) ==
  [type |-> type, ok |-> ok, turn |-> 0, ended |-> "", first |-> FALSE, refuses |-> FALSE,
   cites |-> {}, shows |-> {}, child |-> FALSE, dirs |-> {}, by |-> by]

\* load_session: a line that does not parse is skipped.
Parsed(file) ==
  LET kept[n \in 0..Len(file)] ==
        IF n = 0 THEN <<>>
        ELSE IF file[n].type = "torn" THEN kept[n - 1] ELSE Append(kept[n - 1], file[n])
  IN  kept[Len(file)]

Of(rs, type) == {p \in DOMAIN rs : rs[p].type = type}
Labels(rs)   == Of(rs, "turn_outcome")

\* Mutant of Segment: what an earlier turn did is not forgotten.
SegmentOfAll(rs, p) == 1 .. p - 1

\* The records since the label before the one at p.
Segment(rs, p) == {q \in 1 .. p - 1 : q .. p - 1 \cap Labels(rs) = {}}

Went(rs, p, type, well) ==
  \E q \in Segment(rs, p) : rs[q].type = type /\ rs[q].ok = well

\* _contested_turns, _degenerate_turns, _unapplied_manifest_turns and
\* _unmet_spec_turns: the numbers under which something of a type went wrong.
Tainted(rs, type) == {rs[p].turn : p \in {l \in Labels(rs) : Went(rs, l, type, FALSE)}}

\* trainable_turns: the numbers judged well.  A number that comes again is
\* judged by its last label, except for what taints it.
Trainable(rs) ==
  {rs[p].turn : p \in {l \in Labels(rs) :
     /\ \A m \in Labels(rs) : rs[m].turn = rs[l].turn => m <= l
     /\ rs[l].ok
     /\ ~Went(rs, l, "verification", FALSE)}}
    \ UNION {Tainted(rs, t) : t \in {"permission", "model_call", "manifest", "spec"}}

\* rubric._turns: a turn begins at a model call of step 0, but the first takes
\* what stands before it.
RubricCuts(rs) ==
  {p \in Of(rs, "model_call") : rs[p].first /\ \E q \in Of(rs, "model_call") : q < p}
RubricTurns(rs) ==
  {{q \in DOMAIN rs : q >= s /\ \A c \in RubricCuts(rs) : c > s => q < c} : s \in {1} \cup RubricCuts(rs)}

\* is_refusal: some turn closes with a deflection and hardly used a tool.
IsRefusal(rs) ==
  \E t \in RubricTurns(rs) :
    /\ Cardinality(t \cap Of(rs, "tool_call")) <= 1
    /\ \E p \in t \cap Of(rs, "model_call") :
         rs[p].refuses /\ \A q \in t \cap Of(rs, "model_call") : q <= p

\* curation_verdict: the closing answer cites what no tool call touched or
\* listed.  A child is not judged.
Phantom(rs) ==
  /\ \A p \in Of(rs, "session_start") : ~rs[p].child
  /\ \E p \in Of(rs, "model_call") :
       /\ \A q \in Of(rs, "model_call") : q <= p
       /\ ~(rs[p].cites \subseteq UNION {rs[q].shows : q \in Of(rs, "tool_call")})

\* is_trainable for a session without labels: one unit.
WholeIsTrainable(rs) ==
  /\ \E p \in Of(rs, "session_end") :
       rs[p].ok /\ \A q \in Of(rs, "session_end") : p <= q
  /\ Of(rs, "tool_call") # {}
  /\ \A p \in DOMAIN rs : rs[p].ok \/ rs[p].type \notin
       {"verification", "permission", "model_call", "manifest", "spec"}

\* is_trainable: a session is kept or dropped.  A refusal anywhere drops it, and
\* so does curation when it is set to exclude.
IsTrainable(rs, exclude) ==
  /\ Of(rs, "session_end") # {}
  /\ ~IsRefusal(rs) /\ ~(exclude /\ Phantom(rs))
  /\ IF Labels(rs) = {} THEN WholeIsTrainable(rs) ELSE Trainable(rs) # {}

\* cur_turn in to_rows: the number a model call is filed under.
Turn(rs, p) ==
  LET before == {l \in Labels(rs) : l < p} IN
  IF before = {} THEN 1
  ELSE rs[CHOOSE l \in before : \A m \in before : m <= l].turn + 1

\* to_rows, for a session that is kept: the model calls that become rows.
Rows(file, exclude) ==
  LET rs == Parsed(file) IN
  IF ~IsTrainable(rs, exclude) THEN {}
  ELSE {p \in Of(rs, "model_call") : Labels(rs) = {} \/ Turn(rs, p) \in Trainable(rs)}

\* main: the archive without the files of the gate.  A file is [home, records, ...].
Converted(files) == {f \in files : f.home # "eval"}
=============================================================================
