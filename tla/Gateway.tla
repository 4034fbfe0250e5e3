------------------------------- MODULE Gateway -------------------------------
(***************************************************************************)
(* The model gateway (src/src/model.py): one call of the model as          *)
(* Model.complete makes it, with its attempts, its backoff, the streaming  *)
(* of a reply and the re-warming of a cold endpoint, and warm_up itself,   *)
(* which the drivers also run once at start-up.                            *)
(*                                                                         *)
(* A message is a record: what its text is (none, or the planner's view of *)
(* it), whether it carries reasoning, its tool calls, each a sequence of   *)
(* the parts of its arguments, and whether the output cap cut it.  An      *)
(* exception is a record of the two things _non_retryable looks at.        *)
(***************************************************************************)
EXTENDS Integers, Sequences, SequencesExt

CONSTANTS
  Retries,        \* config.MODEL_RETRIES
  WarmupBudget,   \* config.WARMUP_BUDGET, seconds
  ProbeTime,      \* seconds a probe may take
  Messages,       \* the replies an endpoint may give
  Configs,        \* configurations: records whose field "on" is the set of options set
  EmptyLimit      \* answers without a tool call that end a warm-up: 40 in the code

ASSUME GatewayAssumption ==
  /\ Retries \in Nat /\ WarmupBudget \in Nat /\ EmptyLimit \in Nat
  /\ ProbeTime \subseteq Nat /\ ProbeTime # {}

(* How an exception is read: the class of its name, and whether its text   *)
(* speaks of a context overflow.                                           *)
Errors == [name : {"throttle", "bad_request", "other"}, overflow : BOOLEAN]

\* Mutant of NonRetryable: the text is read before the name.
NonRetryableByText(e) == e.overflow \/ e.name = "bad_request"
NonRetryable(e) ==
  /\ e.name # "throttle"
  /\ e.name = "bad_request" \/ e.overflow

Nothing == [text |-> "none", think |-> FALSE, calls |-> <<>>, cut |-> FALSE]

Schemas(c) == "native" \in c.on

(* An empty native reply is the sign of a worker gone cold; a reply cut by *)
(* the output cap, or one of reasoning only, is a reply.                   *)
Dropped(c, m) ==
  /\ Schemas(c) /\ m.text = "none" /\ m.calls = <<>>
  /\ ~m.cut /\ ~m.think

VARIABLES
  conf,      \* the options of this process
  phase,     \* where the gateway is
  attempt,   \* the attempt of the current call, from 0
  warmed,    \* warmed_once
  served,    \* the message the endpoint is streaming
  arrived,   \* what _assemble_stream has folded so far
  probe,     \* warm_up's own counters
  reply,     \* the message the call returned
  lastly,    \* history: why the call stands where it stands
  logged     \* log_model_call records

gatewayVars == <<conf, phase, attempt, warmed, served, arrived, probe,
                 reply, lastly, logged>>

NoProbe == [attempt |-> 0, empties |-> 0, errors |-> 0, elapsed |-> 0, why |-> "start"]

Unstreamed == [text |-> "none", think |-> FALSE, slots |-> <<>>]

GatewayInit ==
  /\ conf \in Configs
  /\ phase = "start" /\ attempt = 0 /\ warmed = FALSE
  /\ served = Nothing /\ arrived = Unstreamed
  /\ probe = NoProbe
  /\ reply = Nothing /\ lastly = "none" /\ logged = 0

OnLast == attempt = Retries

(***************************************************************************)
(* warm_up                                                                 *)
(***************************************************************************)

Warmable == {"warmup", "api_base"} \subseteq conf.on

Nap(k) == IF k >= 3 THEN 8 ELSE 2 ^ k

(* Entered at start-up, and from a call whose reply was dropped.  Without  *)
(* warm-up, or without an endpoint to warm, it returns at once.            *)
WarmUp(why) ==
  /\ probe' = [NoProbe EXCEPT !.why = why]
  /\ phase' = IF Warmable THEN "probing" ELSE IF why = "start" THEN "idle" ELSE "sending"

Startup ==
  /\ phase = "start"
  /\ WarmUp("start")
  /\ UNCHANGED <<conf, attempt, warmed, served, arrived, reply, lastly, logged>>

AfterWarmUp == IF probe.why = "start" THEN "idle" ELSE "sending"

(* One probe: a tool call ends the warm-up, an answer without one and an   *)
(* exception count towards their own limit and reset the other, and the    *)
(* budget is looked at after both limits.                                  *)
Probe ==
  /\ phase = "probing"
  /\ \E answer \in {"call", "empty", "error"}, t \in ProbeTime :
       LET spent == [probe EXCEPT !.elapsed = @ + t,
                                  !.empties = IF answer = "empty" THEN @ + 1 ELSE 0,
                                  !.errors = IF answer = "error" THEN @ + 1 ELSE 0]
           over == \/ answer = "call" \/ spent.errors >= 3 \/ spent.empties >= EmptyLimit
                   \/ spent.elapsed >= WarmupBudget
       IN  IF over
           THEN probe' = NoProbe /\ phase' = AfterWarmUp
           ELSE probe' = [spent EXCEPT !.attempt = @ + 1] /\ phase' = "napping"
  /\ UNCHANGED <<conf, attempt, warmed, served, arrived, reply, lastly, logged>>

NapEnds ==
  /\ phase = "napping"
  /\ probe' = [probe EXCEPT !.elapsed = @ + Nap(probe.attempt)]
  /\ phase' = "probing"
  /\ UNCHANGED <<conf, attempt, warmed, served, arrived, reply, lastly, logged>>

(***************************************************************************)
(* Model.complete                                                          *)
(***************************************************************************)

Complete ==
  /\ phase = "idle"
  /\ phase' = "sending" /\ attempt' = 0 /\ warmed' = FALSE
  /\ reply' = Nothing /\ lastly' = "none"
  /\ UNCHANGED <<conf, served, arrived, probe, logged>>

\* Mutant of Backoff: the attempt is not counted.
BackoffForever ==
  /\ phase = "waiting" /\ phase' = "sending"
  /\ UNCHANGED <<conf, attempt, warmed, served, arrived, probe, reply, lastly, logged>>

(* _backoff, then the next turn of the loop.                               *)
Backoff ==
  /\ phase = "waiting"
  /\ phase' = "sending" /\ attempt' = attempt + 1
  /\ UNCHANGED <<conf, warmed, served, arrived, probe, reply, lastly, logged>>

(* What complete does with a message, streamed or not.  Re-warming leaves  *)
(* by its own way: the attempt is spent as well.                           *)
Receive(m) ==
  /\ lastly' = IF Dropped(conf, m) THEN "dropped" ELSE "replied"
  /\ IF Dropped(conf, m) /\ ~OnLast
     THEN /\ IF "api_base" \in conf.on /\ ~warmed
             THEN WarmUp("call") /\ warmed' = TRUE /\ attempt' = attempt + 1
             ELSE phase' = "waiting" /\ UNCHANGED <<probe, warmed, attempt>>
          /\ UNCHANGED <<reply, logged>>
     ELSE /\ phase' = "returned" /\ reply' = m /\ logged' = logged + 1
          /\ UNCHANGED <<attempt, probe, warmed>>

Fail(e) ==
  /\ phase' = IF OnLast \/ NonRetryable(e) THEN "raised" ELSE "waiting"
  /\ lastly' = IF e.name = "throttle" THEN "throttled"
               ELSE IF NonRetryable(e) THEN "refused" ELSE "failed"
  /\ UNCHANGED <<attempt, warmed, probe, reply, logged>>

(* One request: answered whole, begun as a stream, or failed.              *)
Send ==
  /\ phase = "sending"
  /\ \/ \E m \in Messages :
          IF "stream" \in conf.on
          THEN /\ served' = m /\ phase' = "streaming"
               /\ UNCHANGED <<attempt, warmed, probe, reply, lastly, logged>>
          ELSE Receive(m) /\ UNCHANGED served
     \/ \E e \in Errors : Fail(e) /\ UNCHANGED served
  /\ arrived' = Unstreamed
  /\ UNCHANGED conf

(***************************************************************************)
(* _assemble_stream                                                        *)
(***************************************************************************)

Slot(i) == IF i \in DOMAIN arrived.slots THEN arrived.slots[i] ELSE <<>>

(* A fragment of a tool call is filed under its index; the fragments of    *)
(* one call come in order, those of different calls in any.                *)
Fold(i, part) ==
  [j \in DOMAIN arrived.slots \cup {i} |-> IF j = i THEN Append(Slot(i), part) ELSE Slot(j)]

Chunk ==
  /\ phase = "streaming"
  /\ \/ /\ arrived.text # served.text
        /\ arrived' = [arrived EXCEPT !.text = served.text]
     \/ /\ arrived.think # served.think
        /\ arrived' = [arrived EXCEPT !.think = TRUE]
     \/ \E i \in DOMAIN served.calls :
          /\ Len(Slot(i)) < Len(served.calls[i])
          /\ arrived' = [arrived EXCEPT !.slots = Fold(i, served.calls[i][Len(Slot(i)) + 1])]
  /\ UNCHANGED <<conf, phase, attempt, warmed, served, probe, reply, lastly, logged>>

(* The calls in the order of their indices.                                *)
Assembled(cut) ==
  LET order == SetToSortSeq(DOMAIN arrived.slots, <)
  IN  [text |-> arrived.text, think |-> arrived.think, cut |-> cut,
       calls |-> [k \in 1 .. Len(order) |-> arrived.slots[order[k]]]]

Everything ==
  /\ arrived.text = served.text /\ arrived.think = served.think
  /\ \A i \in DOMAIN served.calls : Len(Slot(i)) = Len(served.calls[i])

StreamEnds ==
  /\ phase = "streaming" /\ Everything
  /\ Receive(Assembled(served.cut))
  /\ UNCHANGED <<conf, served, arrived>>

(* The connection breaks in the middle of the stream.                      *)
StreamBreaks ==
  /\ phase = "streaming"
  /\ Fail([name |-> "other", overflow |-> FALSE])
  /\ UNCHANGED <<conf, served, arrived>>

(* Ctrl-C is not an Exception: it leaves complete, or warm_up, from        *)
(* wherever it is, and nothing is logged.                                  *)
Interrupt ==
  /\ phase \in {"sending", "streaming", "waiting", "probing", "napping"}
  /\ phase \in {"probing", "napping"} => probe.why = "call"
  /\ phase' = "interrupted"
  /\ UNCHANGED <<conf, attempt, warmed, served, arrived, probe, reply, lastly, logged>>

GatewayStep == Startup \/ Probe \/ NapEnds \/ Backoff \/ Send \/ Chunk \/ StreamEnds \/ StreamBreaks

(* What must happen without the user: the endpoint answers, or the request *)
(* timeout raises, and the process goes on after a sleep.                  *)
GatewayFairness ==
  /\ WF_gatewayVars(Startup) /\ WF_gatewayVars(Probe) /\ WF_gatewayVars(NapEnds)
  /\ WF_gatewayVars(Backoff) /\ WF_gatewayVars(Send)
  /\ WF_gatewayVars(Chunk) /\ WF_gatewayVars(StreamEnds)

-----------------------------------------------------------------------------
(* The call fails, or hands back a reply that a cold worker dropped, only  *)
(* with its attempts used up: what retrying can fix was retried to the     *)
(* end, a throttle whose text speaks of too many tokens too (model.py,     *)
(* complete and _non_retryable).                                           *)
RetriedToTheEnd ==
  \/ phase = "returned" /\ Dropped(conf, reply)
  \/ phase = "raised" /\ lastly # "refused"
  => OnLast

(* Every model call comes back: with a reply or with an exception.         *)
CallReturns ==
  phase \in {"start", "sending"} ~> phase \in {"idle", "returned", "raised", "interrupted"}
=============================================================================
