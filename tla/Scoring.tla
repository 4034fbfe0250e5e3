------------------------------ MODULE Scoring ------------------------------
(* How a run is scored and a model promoted: the rubric of eval/rubric.py, the  *)
(* promotion gate of eval/compare.py, and the tally of eval/harness.py.         *)
(*                                                                              *)
(* A turn is [calls, replies, closing, touched]: its tool calls, each [tool, ok,*)
(* path], the replies of the model, what session_end closes with if it rides in *)
(* it, and what the calls brought to light.  A text is [empty, says, leaks,     *)
(* cites]: the phrases it holds, "deflects" for one of REFUSAL_PHRASES, whether *)
(* it opens with leaked reasoning, and the paths it cites.  A share is a        *)
(* fraction [n, d].                                                             *)
EXTENDS Integers, Sequences, FiniteSets, SequencesExt, FiniteSetsExt

Share(n, d) == [n |-> n, d |-> IF d = 0 THEN 1 ELSE d]
AtLeast(a, b) == a.n * b.d >= b.n * a.d
Mean(shares) ==
  FoldSeq(LAMBDA a, sum : [n |-> a.n * sum.d + sum.n * a.d, d |-> a.d * sum.d], Share(0, Len(shares)),
          [i \in DOMAIN shares |-> [shares[i] EXCEPT !.d = @ * Max({1, Len(shares)})]])

NoText == [empty |-> TRUE, says |-> {}, leaks |-> FALSE, cites |-> {}]

Reads(turn) ==
  {turn.calls[i].path : i \in {j \in DOMAIN turn.calls : turn.calls[j].tool = "read_file" /\ turn.calls[j].ok}} \ {""}
Final(turn) == IF turn.replies # <<>> THEN Last(turn.replies) ELSE turn.closing
Refused(turn) == "deflects" \in Final(turn).says /\ Len(turn.calls) <= 1
OverAsk(turn) == Len(turn.calls) > 1 /\ Last(turn.calls).tool = "ask_user"
Spawned(turn) ==
  {i \in DOMAIN turn.calls : turn.calls[i].tool \in {"spawn_agent", "review_repo"} /\ turn.calls[i].ok}

(* A topic is a set of alternatives, any of which satisfies it; what must not   *)
(* be mentioned is each of them.                                                *)
MentionsMissed(text, topics) == {t \in topics : t \cap text.says = {}}
MentionsPresent(text, topics) == UNION {t \cap text.says : t \in topics}

(* score_turn: the checks a rubric asks for, and those that are always made.    *)
(* A rubric is [depth, refusal, final, must, mustNot, grounded].                *)
Asked(rubric) ==
  {"no_over_ask", "no_reasoning_leak"}
  \cup (IF rubric.depth >= 0 THEN {"depth"} ELSE {})
  \cup (IF rubric.refusal THEN {"no_refusal"} ELSE {})
  \cup (IF rubric.final THEN {"completed"} ELSE {})
  \cup (IF rubric.must # {} THEN {"found_issues"} ELSE {})
  \cup (IF rubric.mustNot # {} THEN {"no_false_findings"} ELSE {})
  \cup (IF rubric.grounded THEN {"grounded_claims"} ELSE {})
Holds(check, turn, rubric) ==
  LET final == Final(turn)
  IN CASE check = "no_over_ask" -> ~OverAsk(turn)
       [] check = "no_reasoning_leak" -> ~final.leaks
       [] check = "depth" -> Cardinality(Reads(turn)) + Cardinality(Spawned(turn)) >= rubric.depth
       [] check = "no_refusal" -> ~Refused(turn)
       [] check = "completed" -> ~final.empty /\ ~Refused(turn)
       [] check = "found_issues" -> MentionsMissed(final, rubric.must) = {}
       [] check = "no_false_findings" -> MentionsPresent(final, rubric.mustNot) = {}
       [] check = "grounded_claims" -> final.cites \subseteq turn.touched
Passed(turn, rubric) == {c \in Asked(rubric) : Holds(c, turn, rubric)}
ScoreTurn(turn, rubric) == Share(Cardinality(Passed(turn, rubric)), Cardinality(Asked(rubric)))

(* score: the mean of the turns; a run that a gate ended is capped.  The first  *)
(* of the ends that a session has is the one that is read.                      *)
GateOutcomes ==
  {"unverified_completion", "ungrounded_completion", "degenerate", "verify_failed_edits", "goal_unmet",
   "manifest_declined", "spec_declined", "acceptance_unmet", "manifest_unapplied", "no_output",
   "narration_stall", "denial_loop", "stall"}
Third == [n |-> 34, d |-> 100]
Least(a, b) == IF AtLeast(a, b) THEN b ELSE a
Score(turns, rubric, ends) ==
  LET mean == Mean([i \in DOMAIN turns |-> ScoreTurn(turns[i], rubric)])
      verified == ends = <<>> \/ ends[1] \notin GateOutcomes
  IN [score |-> IF verified THEN mean ELSE Least(mean, Third),
      checks |-> {c \in Asked(rubric) : \A i \in DOMAIN turns : Holds(c, turns[i], rubric)}
                   \cup (IF verified THEN {"verified_done"} ELSE {}),
      refused |-> \E i \in DOMAIN turns : Refused(turns[i])]

-----------------------------------------------------------------------------
(* The two suites over one model: the tasks that are verified, each passed or   *)
(* not (an error of the task is a task not passed), and the scores of the       *)
(* agentic ones.                                                                *)
RunSuite(passed, scores) ==
  [verify |-> Share(Len(SelectSeq(passed, LAMBDA p : p)), Len(passed)), behavior |-> Mean(scores)]
Promote(base, student) ==
  AtLeast(student.verify, base.verify) /\ AtLeast(student.behavior, base.behavior)

(* compare.main: what is connected is disconnected whatever a suite does; a     *)
(* suite that raises ends the process without a verdict.                        *)
Compare(base, student, raises) ==
  IF raises # "" THEN [steps |-> <<"connect">> \o (IF raises = "student" THEN <<"base", "student">> ELSE <<"base">>)
                                  \o <<"disconnect">>, verdict |-> "none"]
  ELSE [steps |-> <<"connect", "base", "student", "disconnect">>,
        verdict |-> IF Promote(base, student) THEN "promote" ELSE "keep"]

(* harness._summarize: the tiers and what passed of each, and whether the suite *)
(* still tells models apart.  A result is [tier, passed], NoTier for a task     *)
(* that raised, which the tally cannot file; a behaviour is [tier, score].      *)
NoTier == "none"
Whole(share) == share.n = share.d
Tiers(results, behavior) == {results[i].tier : i \in DOMAIN results} \cup {behavior[i].tier : i \in DOMAIN behavior}
OfTier(items, tier) == SelectSeq(items, LAMBDA r : r.tier = tier)
Tally(results, tier) ==
  <<Len(SelectSeq(OfTier(results, tier), LAMBDA r : r.passed)), Len(OfTier(results, tier))>>
Saturated(results, behavior) ==
  /\ results # <<>> \/ behavior # <<>>
  /\ \A i \in DOMAIN results : results[i].passed
  /\ \A i \in DOMAIN behavior : Whole(behavior[i].score)
Summarize(results, behavior) ==
  IF NoTier \in Tiers(results, behavior) THEN [raises |-> TRUE, tiers |-> <<>>, gate |-> "none"]
  ELSE [raises |-> FALSE, tiers |-> [t \in Tiers(results, behavior) |-> Tally(results, t)],
        gate |-> IF Saturated(results, behavior) THEN "saturated" ELSE "discriminates"]
=============================================================================
