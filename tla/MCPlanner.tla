------------------------------ MODULE MCPlanner ------------------------------
EXTENDS Planner, BoundedChecks

Say(t) == [Nothing EXCEPT !.text = t]

(* An empty reply, one cut by the output cap, one of reasoning only, text  *)
(* that is an action, an answer or prose, and two calls of two parts.      *)
MCMessages ==
  {Nothing, [Nothing EXCEPT !.cut = TRUE], [Nothing EXCEPT !.think = TRUE],
   Say("action"), Say("finish"), Say("prose"),
   [Nothing EXCEPT !.think = TRUE, !.calls = <<<<"a1", "a2">>, <<"b1", "b2">>>>]}

Fixed(on) == [on |-> on, policy |-> "off", floor |-> 1, cap |-> High,
              default |-> NoEffort, pin |-> NoEffort]

(* Endpoints to warm or not, streamed or not, in both tool modes.          *)
MCEndpoints ==
  {Fixed(on) : on \in {{"api_base", "warmup", "native", "verify_manifest"},
                       {"api_base", "native", "stream"},
                       {"stream", "api_base", "warmup"}}}

Laddered(p, f, c, d, n) ==
  [on |-> {"native", "adaptive"}, policy |-> p, floor |-> f, cap |-> c, default |-> d, pin |-> n]

(* The policies, with a floor that covers what is sent without an effort,  *)
(* a cap below the floor, a pin on the ladder and one beyond it.           *)
MCLadders ==
  {Laddered("off", 1, 2, 1, -1), Laddered("reactive", 1, 2, 1, -1), Laddered("reactive", 1, 0, -1, -1),
   Laddered("reactive", 0, 1, -1, 0), Laddered("reactive", 0, 2, -1, Beyond), Laddered("online", 0, 2, 0, -1)}

MCConfigs == MCEndpoints \cup MCLadders
=============================================================================
