--------------------------- MODULE Planner_proofs ----------------------------
(***************************************************************************)
(* Theorems about Planner and the gateway it extends, for any endpoint,    *)
(* any number of retries and any configuration.                            *)
(***************************************************************************)
EXTENDS Planner, TLAPS

-----------------------------------------------------------------------------
(* Retries.                                                                *)

\* The attempts of a call are counted, and a wait is for one that is left.
RetryInv ==
  /\ attempt \in 0 .. Retries
  /\ phase = "waiting" => attempt < Retries
  /\ RetriedToTheEnd

LEMMA ReceiveStep ==
  ASSUME RetryInv, NEW m, Receive(m), UNCHANGED conf
  PROVE  RetryInv'
<1>1. attempt \in Nat /\ Retries \in Nat /\ attempt <= Retries
  BY GatewayAssumption DEF RetryInv
<1>2. CASE Dropped(conf, m) /\ ~OnLast
  <2>1. attempt < Retries
    BY <1>1, <1>2 DEF OnLast
  <2>2. CASE "api_base" \in conf.on /\ ~warmed
    <3>1. attempt' = attempt + 1 /\ phase' \in {"probing", "idle", "sending"}
      BY <1>2, <2>2 DEF Receive, WarmUp
    <3>2. attempt' \in 0 .. Retries
      BY <1>1, <2>1, <3>1
    <3> QED
      BY <3>1, <3>2 DEF RetryInv, RetriedToTheEnd
  <2>3. CASE ~("api_base" \in conf.on /\ ~warmed)
    <3>1. attempt' = attempt /\ phase' = "waiting"
      BY <1>2, <2>3 DEF Receive
    <3> QED
      BY <2>1, <3>1 DEF RetryInv, RetriedToTheEnd
  <2> QED
    BY <2>2, <2>3
<1>3. CASE ~(Dropped(conf, m) /\ ~OnLast)
  <2>1. attempt' = attempt /\ phase' = "returned" /\ reply' = m
    BY <1>3 DEF Receive
  <2>2. Dropped(conf', reply') => attempt' = Retries
    BY <1>3, <2>1 DEF OnLast
  <2> QED
    BY <2>1, <2>2 DEF RetryInv, RetriedToTheEnd, OnLast
<1> QED
  BY <1>2, <1>3

LEMMA FailStep ==
  ASSUME RetryInv, NEW e, Fail(e), UNCHANGED conf
  PROVE  RetryInv'
<1>1. attempt \in Nat /\ Retries \in Nat /\ attempt <= Retries /\ attempt' = attempt
  BY GatewayAssumption DEF RetryInv, Fail
<1>2. CASE OnLast
  <2>1. phase' = "raised" /\ attempt' = Retries
    BY <1>1, <1>2 DEF Fail, OnLast
  <2> QED
    BY <1>1, <2>1 DEF RetryInv, RetriedToTheEnd, OnLast
<1>3. CASE ~OnLast /\ NonRetryable(e)
  <2>1. phase' = "raised" /\ lastly' = "refused"
    BY <1>3 DEF Fail, NonRetryable
  <2> QED
    BY <1>1, <2>1 DEF RetryInv, RetriedToTheEnd
<1>4. CASE ~OnLast /\ ~NonRetryable(e)
  <2>1. phase' = "waiting" /\ attempt < Retries
    BY <1>1, <1>4 DEF Fail, OnLast
  <2> QED
    BY <1>1, <2>1 DEF RetryInv, RetriedToTheEnd
<1> QED
  BY <1>2, <1>3, <1>4

LEMMA GatewayRetries ==
  ASSUME RetryInv, GatewayStep \/ Interrupt
  PROVE  RetryInv'
<1>1. attempt \in Nat /\ Retries \in Nat /\ attempt <= Retries
  BY GatewayAssumption DEF RetryInv
<1>2. CASE Startup
  BY <1>2 DEF RetryInv, RetriedToTheEnd, Startup, WarmUp
<1>3. CASE Probe
  <2>1. attempt' = attempt /\ phase' \in {"idle", "sending", "napping"}
    BY <1>3 DEF Probe, AfterWarmUp
  <2> QED
    BY <2>1 DEF RetryInv, RetriedToTheEnd
<1>4. CASE NapEnds \/ Chunk
  <2>1. attempt' = attempt /\ phase' \in {"probing", "streaming"}
    BY <1>4 DEF NapEnds, Chunk
  <2> QED
    BY <2>1 DEF RetryInv, RetriedToTheEnd
<1>5. CASE Backoff
  <2>1. attempt < Retries /\ attempt' = attempt + 1 /\ phase' = "sending"
    BY <1>5 DEF Backoff, RetryInv
  <2>2. attempt' \in 0 .. Retries
    BY <1>1, <2>1
  <2> QED
    BY <2>1, <2>2 DEF RetryInv, RetriedToTheEnd
<1>6. CASE Send
  <2>1. \/ \E m \in Messages : Receive(m)
        \/ phase' = "streaming" /\ attempt' = attempt
        \/ \E e \in Errors : Fail(e)
    BY <1>6 DEF Send
  <2>2. UNCHANGED conf
    BY <1>6 DEF Send
  <2>3. CASE phase' = "streaming" /\ attempt' = attempt
    BY <2>3 DEF RetryInv, RetriedToTheEnd
  <2> QED
    BY <2>1, <2>2, <2>3, ReceiveStep, FailStep
<1>7. CASE StreamEnds
  <2>1. \E m : Receive(m)
    BY <1>7 DEF StreamEnds
  <2> QED
    BY <1>7, <2>1, ReceiveStep DEF StreamEnds
<1>8. CASE StreamBreaks
  <2>1. \E e : Fail(e)
    BY <1>8 DEF StreamBreaks
  <2> QED
    BY <1>8, <2>1, FailStep DEF StreamBreaks
<1>9. CASE Interrupt
  <2>1. attempt' = attempt /\ phase' = "interrupted"
    BY <1>9 DEF Interrupt
  <2> QED
    BY <2>1 DEF RetryInv, RetriedToTheEnd
<1> QED
  BY <1>2, <1>3, <1>4, <1>5, <1>6, <1>7, <1>8, <1>9 DEF GatewayStep

LEMMA TurnRetries ==
  ASSUME RetryInv, StartTurn \/ TurnStep
  PROVE  RetryInv'
<1>1. CASE StartTurn \/ OutOfSteps
  BY <1>1 DEF StartTurn, OutOfSteps, gatewayVars, RetryInv, RetriedToTheEnd, OnLast
<1>2. CASE Ask
  <2>1. phase' = "sending" /\ attempt' = 0
    BY <1>2 DEF Ask, Complete
  <2> QED
    BY <2>1, GatewayAssumption DEF RetryInv, RetriedToTheEnd
<1>3. CASE Act \/ Finish \/ NoOutput \/ Slip \/ Broken
  <2>1. phase' = "idle" /\ attempt' = attempt
    BY <1>3 DEF Act, Finish, NoOutput, Slip, Broken, Consume
  <2> QED
    BY <2>1 DEF RetryInv, RetriedToTheEnd
<1> QED
  BY <1>1, <1>2, <1>3 DEF TurnStep

\* A call fails, or hands on a reply that was dropped, only with its attempts
\* used up (RetriedToTheEnd): an error that is not retried is one that
\* retrying cannot mend (model.py, complete and _non_retryable).
THEOREM RetriesAreUsedUp == Spec => []RetriedToTheEnd
<1>1. Init => RetryInv
  BY GatewayAssumption DEF Init, GatewayInit, RetryInv, RetriedToTheEnd
<1>2. RetryInv /\ [Next]_vars => RetryInv'
  <2> SUFFICES ASSUME RetryInv, [Next]_vars PROVE RetryInv'
    OBVIOUS
  <2>1. CASE UNCHANGED vars
    BY <2>1 DEF vars, gatewayVars, RetryInv, RetriedToTheEnd, OnLast
  <2> QED
    BY <2>1, GatewayRetries, TurnRetries DEF Next
<1>3. RetryInv => RetriedToTheEnd
  BY DEF RetryInv
<1> QED
  BY <1>1, <1>2, <1>3, PTL DEF Spec

-----------------------------------------------------------------------------
(* Effort.                                                                 *)

\* The ladder starts no lower than what is sent without it.
FloorCovers == Adaptive => Baseline >= Sent(NoEffort)

Levels ==
  /\ conf \in Configs
  /\ effort \in Int /\ effort >= NoEffort
  /\ asked \in Int /\ fails \in Nat /\ reasks \in Nat /\ peak \in Int

EffortInv == Levels /\ (FloorCovers => ThinksNoLess)

LEMMA Rungs ==
  ASSUME Levels
  PROVE  /\ Baseline \in Int /\ Baseline >= 0 /\ Decide \in Int /\ NextEffort \in Int
         /\ NextEffort = effort \/ (Adaptive /\ NextEffort > effort /\ NextEffort > Baseline)
         /\ Sent(NoEffort) \in Int
<1>1. /\ conf.floor \in 0 .. High /\ conf.cap \in 0 .. High
      /\ conf.default \in Int /\ conf.pin \in Int
  BY PlannerAssumption DEF Levels, NoEffort, High, Beyond
<1>2. Baseline \in Int /\ Baseline >= 0
  BY <1>1 DEF Baseline, High
<1>3. Decide \in Int
  <2> DEFINE struggling == fails + reasks >= Threshold
             bumped == struggling \/ (conf.policy = "online" /\ Helped)
             base   == IF bumped THEN Bump(Baseline) ELSE Baseline
             target == Greater(asked, base)
  <2>1. Bump(Baseline) \in Int
    BY <1>2 DEF Bump, Lesser, High
  <2> HIDE DEF bumped
  <2>2. base \in Int
    BY <1>2, <2>1
  <2> HIDE DEF base
  <2>3. target \in Int
    BY <2>2 DEF Greater, Levels
  <2> HIDE DEF target
  <2>4. Capped(target) \in Int
    BY <1>1, <2>3 DEF Capped, Lesser, High
  <2>5. Decide = IF conf.policy = "off" THEN Baseline ELSE Capped(target)
    BY DEF Decide, target, base, bumped
  <2> QED
    BY <1>2, <2>4, <2>5
<1>4. Adaptive /\ Decide > Greater(effort, Baseline) => Decide > effort /\ Decide > Baseline
  BY <1>2, <1>3 DEF Greater, Levels
<1>5. NextEffort = effort \/ (Adaptive /\ NextEffort = Decide /\ Decide > Greater(effort, Baseline))
  BY DEF NextEffort
<1>6. Sent(NoEffort) \in Int
  BY <1>1 DEF Sent
<1> QED
  BY <1>2, <1>3, <1>4, <1>5, <1>6 DEF Levels

\* The effort of the next call is no less than that of any before it.
LEMMA AskStep ==
  ASSUME EffortInv, Ask
  PROVE  EffortInv'
<1> DEFINE next == NextEffort
<1>1. /\ effort' = next /\ peak' = Greater(peak, Sent(next)) /\ running
      /\ UNCHANGED <<conf, asked, fails, reasks>>
  BY DEF Ask, Complete
<1>2. /\ Levels /\ Baseline \in Int /\ Baseline >= 0 /\ next \in Int
      /\ next = effort \/ (Adaptive /\ next > effort /\ next > Baseline)
      /\ Sent(NoEffort) \in Int
  BY Rungs DEF EffortInv
<1> HIDE DEF next
<1>3. next >= NoEffort
  BY <1>2 DEF Levels, NoEffort
<1>4. \A e \in Int : e # NoEffort => Sent(e) = e
  BY DEF Sent
<1>5. Sent(next) \in Int
  BY <1>2, <1>4
<1>6. Levels'
  BY <1>1, <1>2, <1>3, <1>5 DEF Levels, Greater
<1>7. (FloorCovers' <=> FloorCovers) /\ Sent(effort)' = Sent(next)
  BY <1>1 DEF FloorCovers, Adaptive, PinOverridesLadder, Baseline, Sent
<1>8. ASSUME FloorCovers PROVE Sent(next) >= peak
  <2>1. Sent(effort) >= peak /\ peak \in Int
    BY <1>1, <1>8 DEF EffortInv, ThinksNoLess, Levels
  <2>2. CASE next = effort
    BY <2>1, <2>2
  <2>3. CASE Adaptive /\ next > effort /\ next > Baseline
    <3>1. Sent(next) = next
      BY <1>2, <1>4, <2>3 DEF NoEffort
    <3>2. CASE effort = NoEffort
      BY <1>2, <1>8, <2>1, <2>3, <3>1, <3>2 DEF FloorCovers
    <3>3. CASE effort # NoEffort
      <4>1. Sent(effort) = effort /\ effort \in Int
        BY <1>2, <1>4, <3>3 DEF Levels
      <4> QED
        BY <1>2, <2>1, <2>3, <3>1, <4>1
    <3> QED
      BY <3>2, <3>3
  <2> QED
    BY <1>2, <2>2, <2>3
<1>9. FloorCovers => Sent(next) >= Greater(peak, Sent(next))
  BY <1>2, <1>5, <1>8 DEF Greater, Levels
<1> QED
  BY <1>1, <1>6, <1>7, <1>9 DEF EffortInv, ThinksNoLess

\* No other step changes what a call carries.
LEMMA RestStep ==
  ASSUME EffortInv, UNCHANGED <<conf, effort, peak>>,
         asked' \in Int, fails' \in Nat, reasks' \in Nat, running' => running
  PROVE  EffortInv'
<1>1. Levels'
  BY DEF EffortInv, Levels
<1>2. (FloorCovers' <=> FloorCovers) /\ Sent(effort)' = Sent(effort)
  BY DEF FloorCovers, Adaptive, PinOverridesLadder, Baseline, Sent
<1> QED
  BY <1>1, <1>2 DEF EffortInv, ThinksNoLess

\* Where the ladder's floor covers what is sent without it, the effort of a
\* task's calls never falls (ThinksNoLess): a request, a struggle and what was
\* learned only raise it, and a cap below the floor only keeps it (agent.py,
\* the loop; effort.py, Policy).
THEOREM EffortOnlyRises == Spec => [](FloorCovers => ThinksNoLess)
<1>1. Init => EffortInv
  <2> SUFFICES ASSUME Init PROVE EffortInv
    OBVIOUS
  <2>1. /\ conf \in Configs /\ ~running /\ effort = NoEffort /\ asked = NoEffort
        /\ fails = 0 /\ reasks = 0 /\ peak = Sent(NoEffort)
    BY DEF Init, GatewayInit
  <2>2. Sent(NoEffort) \in Int
    <3>1. conf.default \in Int /\ conf.pin \in Int
      BY <2>1, PlannerAssumption DEF NoEffort, High, Beyond
    <3> QED
      BY <3>1 DEF Sent
  <2> QED
    BY <2>1, <2>2 DEF EffortInv, Levels, ThinksNoLess, NoEffort
<1>2. EffortInv /\ [Next]_vars => EffortInv'
  <2> SUFFICES ASSUME EffortInv, [Next]_vars PROVE EffortInv'
    OBVIOUS
  <2>1. Levels
    BY DEF EffortInv
  <2>2. CASE Ask
    BY <2>2, AskStep
  <2>3. CASE StartTurn
    <3>1. /\ effort' = NoEffort /\ asked' = NoEffort /\ fails' = 0 /\ reasks' = 0
          /\ peak' = Sent(NoEffort) /\ UNCHANGED conf
      BY <2>3 DEF StartTurn, gatewayVars
    <3>2. Sent(NoEffort) \in Int /\ Sent(effort)' = Sent(NoEffort)
      BY <2>1, <3>1, Rungs DEF Sent
    <3>3. Levels'
      BY <2>1, <3>1, <3>2 DEF Levels, NoEffort
    <3> QED
      BY <3>1, <3>2, <3>3 DEF EffortInv, ThinksNoLess
  <2>4. CASE Act
    <3>1. UNCHANGED <<conf, effort, peak, running, reasks>>
      BY <2>4 DEF Act, Consume
    <3>2. fails' \in Nat /\ asked' \in Int
      <4>1. \/ UNCHANGED <<fails, asked>>
            \/ fails' \in {0, Lesser(fails + 1, Threshold)} /\ UNCHANGED asked
            \/ fails' = 0 /\ \E level \in 0 .. High : asked' = Greater(asked, level)
        BY <2>4 DEF Act
      <4>2. Lesser(fails + 1, Threshold) \in Nat
        BY <2>1, PlannerAssumption DEF Levels, Lesser
      <4>3. \A level \in 0 .. High : Greater(asked, level) \in Int
        BY <2>1 DEF Levels, Greater, High
      <4> QED
        BY <2>1, <4>1, <4>2, <4>3 DEF Levels
    <3> QED
      BY <2>1, <3>1, <3>2, RestStep DEF Levels
  <2>5. CASE Finish \/ NoOutput \/ Slip \/ OutOfSteps \/ Broken
    <3>1. UNCHANGED <<conf, effort, peak, asked, fails>>
      BY <2>5 DEF Finish, NoOutput, Slip, OutOfSteps, Broken, Consume, End, gatewayVars
    <3>2. (running' => running) /\ reasks' \in Nat
      BY <2>1, <2>5 DEF Finish, NoOutput, Slip, OutOfSteps, Broken, End, Consume, Levels
    <3> QED
      BY <2>1, <3>1, <3>2, RestStep DEF Levels
  <2>6. CASE (GatewayStep \/ Interrupt) /\ UNCHANGED plannerVars
    <3>1. UNCHANGED conf
      BY <2>6 DEF GatewayStep, Startup, Probe, NapEnds, Backoff, Send, Chunk, StreamEnds, StreamBreaks, Interrupt
    <3> QED
      BY <2>1, <2>6, <3>1, RestStep DEF Levels, plannerVars
  <2>7. CASE UNCHANGED vars
    BY <2>1, <2>7, RestStep DEF Levels, vars, gatewayVars, plannerVars
  <2> QED
    BY <2>2, <2>3, <2>4, <2>5, <2>6, <2>7 DEF Next, TurnStep
<1>3. EffortInv => (FloorCovers => ThinksNoLess)
  BY DEF EffortInv
<1> QED
  BY <1>1, <1>2, <1>3, PTL DEF Spec
=============================================================================
