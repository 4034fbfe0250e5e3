---------------------------- MODULE Conversation ----------------------------
(***************************************************************************)
(* What the model is sent, and what is kept of it (src/src/context.py, the *)
(* messages of Agent.run in src/src/agent.py, the prompt loop of           *)
(* src/src/cli.py and the rehydration of src/src/session.py).              *)
(*                                                                         *)
(* The trajectory keeps every message raw and for ever.  The live context  *)
(* is what is sent: a soft pass summarizes its older part, a hard pass     *)
(* summarizes or trims it until it fits the model's window, a turn that    *)
(* raises restores the snapshot it took, and a resumed session rebuilds it *)
(* from the raw record.  A message is reduced to its role, the calls it    *)
(* makes or answers, its weight, and the raw messages it stands for.       *)
(* Truncation of one message (_capped) is part of the weights.             *)
(***************************************************************************)
EXTENDS Integers, Sequences, FiniteSets, SequencesExt

CONSTANTS
  MaxCalls,    \* bound: tool calls in one decision
  MaxSteps,    \* CODE_MAX_STEPS
  MaxAsks,     \* bound: messages the user causes at the prompt
  MaxLives,    \* bound: processes that work on the session
  Digest,      \* bound: the /result commands that find a finished task
  KeepRecent,  \* CODE_COMPACT_KEEP_RECENT
  CompactAt,   \* CODE_COMPACT_AT_TOKENS, 0 is off
  HardCap,     \* COMPACT_HARD_AT_TOKENS
  MaxRounds,   \* the rounds of _enforce_hard_cap, 500
  Base,        \* the weight of the system prompt and the pins
  ToolWeight,  \* the weight of a tool result; any other message weighs 1
  Gists,       \* the weights a summary may have
  Flags

ConversationFlags == {"drop_noise", "situational", "breaker", "interrupt"}

ASSUME ConversationAssumption ==
  /\ {MaxCalls, MaxSteps, MaxLives, HardCap, MaxRounds} \subseteq Nat \ {0}
  /\ {MaxAsks, KeepRecent, CompactAt, Base, ToolWeight} \subseteq Nat
  /\ Gists \subseteq Nat
  /\ Flags \subseteq ConversationFlags

Id == 1..MaxCalls

VARIABLES
  pc,        \* where the process is
  raw,       \* the `turn` records of the trajectory
  working,   \* ContextManager.working
  mark,      \* the snapshot run() took, what it stood for, and when
  step,      \* the step of the turn; at MaxSteps it is the synthesis
  todo,      \* the calls of the current decision that have no result yet
  pending,   \* pending_results of the prompt loop
  lives,     \* processes that have worked on the session
  asks,      \* messages the user has caused
  pulled,    \* history: results pulled, and not lost with their process
  live,      \* history: the raw positions the live context should stand for
  failed,    \* history: the positions of turns that did not return
  torn,      \* history: has this process left a decision without its results?
  rounds,    \* the `guard` of _enforce_hard_cap
  opening    \* history: the size of the context its loop began with

vars == <<pc, raw, working, mark, step, todo, pending, lives, asks, pulled, live,
          failed, torn, rounds, opening>>

On(flag) == flag \in Flags
-----------------------------------------------------------------------------
(* Messages.  "covers" are the raw positions a message stands for: its own *)
(* or, for a summary, those of everything it replaced.  "noise" marks a    *)
(* decision made only of prints and the nudges that tell it to stop, where *)
(* they are looked for at all.                                             *)

Plain(role) == [role |-> role, calls |-> {}, id |-> 0, noise |-> FALSE,
                folds |-> {}, weight |-> 1, covers |-> {}]

System         == Plain("system")
User           == Plain("user")
Stop           == [User EXCEPT !.noise = On("drop_noise")]
Request(D)     == [User EXCEPT !.folds = D]
Reply          == Plain("assistant")
Acts(C, print) == [Reply EXCEPT !.calls = C, !.noise = print]
Result(i)      == [Plain("tool") EXCEPT !.id = i, !.weight = ToolWeight]

Covers(w) == UNION {w[i].covers : i \in DOMAIN w}

Weight(w) ==
  LET sum[n \in 0 .. Len(w)] == IF n = 0 THEN 0 ELSE sum[n - 1] + w[n].weight
  IN  sum[Len(w)]

\* The messages of w at the positions in I, in their order.
Among(w, I) == FlattenSeq([i \in DOMAIN w |-> IF i \in I THEN <<w[i]>> ELSE <<>>])

\* The tool results that directly follow the i-th message.
Results(w, i) == {j \in i + 1 .. Len(w) : \A k \in i + 1 .. j : w[k].role = "tool"}

\* The calls of the i-th message those results leave open.
Open(w, i) == w[i].calls \ {w[j].id : j \in Results(w, i)}

\* What drop_narration_noise drops.
Noise(w) ==
  LET heads == {i \in DOMAIN w : w[i].noise} IN
  heads \cup UNION {Results(w, i) : i \in {h \in heads : w[h].role = "assistant"}}

\* Mutant of DropNoise: the results of a dropped decision stay.
DropNoiseHeads(w) ==
  IF On("drop_noise") THEN Among(w, {i \in DOMAIN w : ~w[i].noise}) ELSE w

\* drop_narration_noise.
DropNoise(w) == IF On("drop_noise") THEN Among(w, DOMAIN w \ Noise(w)) ELSE w

\* sanitize_tail, for the message at i and the results that follow it: open
\* calls get a stub, or at the tail the whole group goes.
Rehydrate(w, i) ==
  LET end == i + Cardinality(Results(w, i)) IN
  IF w[i].role = "tool" \/ (Open(w, i) # {} /\ end = Len(w))
    THEN <<>>
    ELSE SubSeq(w, i, end) \o Among([c \in Id |-> Result(c)], Open(w, i))

Sanitize(w) == FlattenSeq([i \in DOMAIN w |-> Rehydrate(w, i)])
-----------------------------------------------------------------------------
(* Compaction.                                                             *)

\* Mutant of SafeCut: results may be cut off from their decision.
SafeCutBlind(w) == IF Len(w) > KeepRecent THEN Len(w) - KeepRecent ELSE 0

\* _safe_cut: how many of the oldest messages a summary may replace.
SafeCut(w) ==
  LET cut == Len(w) - KeepRecent
      ok  == {c \in 1..Len(w) : c <= cut /\ (c = Len(w) \/ w[c + 1].role # "tool")}
  IN  CHOOSE c \in {0} \cup ok : \A d \in ok : d <= c

Old(w) == SubSeq(w, 1, SafeCut(w))

\* The candidate of _compact, for a summary of weight g.
Compacted(w, g) ==
  <<[User EXCEPT !.weight = g, !.covers = Covers(Old(w))]>>
    \o SubSeq(w, SafeCut(w) + 1, Len(w))

\* Mutant of Compacts: applied whether or not it shrinks the context.
CompactsAlways(g) ==
  /\ SafeCut(working) > 0
  /\ working' = Compacted(working, g)
  /\ UNCHANGED live

\* _compact: applied only when it shrinks the context.
Compacts(g) ==
  /\ SafeCut(working) > 0
  /\ g < Weight(Old(working))
  /\ working' = Compacted(working, g)
  /\ UNCHANGED live

\* What a summary of weight g cannot shrink.
Incompressible(g) == SafeCut(working) = 0 \/ g >= Weight(Old(working))

\* _trim_oldest: the oldest message, and the results it would orphan.
Trims ==
  LET n == 1 + Cardinality(Results(working, 1)) IN
  /\ working' = SubSeq(working, n + 1, Len(working))
  /\ live' = live \ Covers(SubSeq(working, 1, n))

Heavy(limit) == Base + Weight(working) > limit

\* What every round makes smaller.
Size == Weight(working) + Len(working)
-----------------------------------------------------------------------------
(* The prompt loop of the REPL.                                            *)

NoMark == [working |-> <<>>, live |-> {}, at |-> 0]

Init ==
  /\ pc = "prompt"
  /\ raw = <<[System EXCEPT !.covers = {1}]>>
  /\ working = <<>>
  /\ mark = NoMark
  /\ step = 0 /\ todo = {} /\ asks = 0 /\ lives = 1
  /\ pending = {} /\ pulled = {}
  /\ live = {} /\ failed = {} /\ torn = FALSE
  /\ rounds = 0 /\ opening = 0

\* ContextManager.add, for one message after another.
Add(ms) ==
  LET stamped == [k \in DOMAIN ms |-> [ms[k] EXCEPT !.covers = {Len(raw) + k}]] IN
  /\ raw' = raw \o stamped
  /\ working' = working \o stamped
  /\ live' = live \cup Covers(stamped)

\* The request and, when the situation is captured, a raw-only record of it.
AddRequest(D) ==
  LET n == Len(raw)
      request == [Request(D) EXCEPT !.covers = {n + 1}]
  IN
  /\ raw' = raw \o <<request>> \o (IF On("situational")
                                      THEN <<[System EXCEPT !.covers = {n + 2}]>>
                                      ELSE <<>>)
  /\ working' = Append(working, request)
  /\ live' = live \cup {n + 1}

\* /result: a digest to fold into the next request.  A task may be pulled as
\* often as the user asks; each pull is an element of its own.
Pull ==
  /\ pc = "prompt"
  /\ \E d \in Digest \ (pulled \cup UNION {m.folds : m \in Range(raw)}) :
       /\ pulled' = pulled \cup {d}
       /\ pending' = pending \cup {d}
  /\ UNCHANGED <<pc, raw, working, mark, step, todo, lives, asks,
                 live, failed, torn>>

\* /add-dir, and a directory the user names: a message outside any turn.
Note ==
  /\ pc = "prompt" /\ asks < MaxAsks
  /\ asks' = asks + 1
  /\ Add(<<User>>)
  /\ UNCHANGED <<pc, mark, step, todo, pending, lives, pulled, failed, torn>>

\* Agent.run up to its loop.
StartTurn ==
  /\ pc = "prompt" /\ asks < MaxAsks
  /\ asks' = asks + 1
  /\ mark' = [working |-> working, live |-> live, at |-> Len(raw)]
  /\ AddRequest(pending)
  /\ pc' = "soft"
  /\ step' = 0
  /\ UNCHANGED <<todo, pending, lives, pulled, failed, torn>>

Leave ==
  /\ mark' = NoMark
  /\ todo' = {}
  /\ step' = 0

Closes == torn' = (torn \/ todo # {})

\* Mutant of Finish: the results are handed over again.
FinishKeeping ==
  /\ pc' = "prompt"
  /\ Leave /\ Closes
  /\ UNCHANGED <<pending, lives, asks, pulled, failed>>

\* run() returned: the results it was given are delivered.
Finish ==
  /\ pc' = "prompt"
  /\ pending' = {}
  /\ Leave /\ Closes
  /\ UNCHANGED <<lives, asks, pulled, failed>>

\* The next iteration, or the synthesis when there is none.
Continue ==
  /\ step' = step + 1
  /\ \/ step' < MaxSteps /\ pc' = "soft"
     \/ step' = MaxSteps /\ pc' = "synthesis"
  /\ todo' = {}
  /\ UNCHANGED <<mark, pending, lives, asks, pulled, failed, torn>>
-----------------------------------------------------------------------------
(* One step of Agent.run.                                                  *)

\* context(): at most one compaction over the soft budget ...
SoftPass ==
  /\ pc = "soft"
  /\ pc' = "hard"
  /\ IF CompactAt > 0 /\ Heavy(CompactAt)
       THEN \E g \in Gists : \/ Compacts(g)
                             \/ Incompressible(g) /\ UNCHANGED <<working, live>>
       ELSE UNCHANGED <<working, live>>
  /\ rounds' = 0 /\ opening' = Size'
  /\ UNCHANGED <<raw, mark, step, todo, pending, lives, asks, pulled, failed, torn>>

Loaded == pc = "hard" /\ working # <<>> /\ Heavy(HardCap)

\* ... then as many as the window needs, MaxRounds at most, trimming where none
\* helps.
HardPass ==
  /\ Loaded /\ rounds < MaxRounds
  /\ rounds' = rounds + 1
  /\ \E g \in Gists : Compacts(g) \/ (Incompressible(g) /\ Trims)
  /\ UNCHANGED <<pc, raw, mark, step, todo, pending, lives, asks, pulled, failed,
                 torn, opening>>

\* The window is respected, or the loop has run out of rounds.
Send ==
  /\ pc = "hard" /\ (Loaded => rounds = MaxRounds)
  /\ pc' = "sent"
  /\ UNCHANGED <<raw, working, mark, step, todo, pending, lives,
                 asks, pulled, live, failed, torn, rounds, opening>>

\* The measures of the pass end with its request.
Forget == rounds' = 0 /\ opening' = 0

Asked == pc = "sent" /\ step < MaxSteps

\* An answer that ends the turn, whatever its label.
Answer ==
  /\ Asked
  /\ Add(<<Reply>>)
  /\ Finish

\* A malformed reply, a fragment or a failed gate: the model is asked again.
Reask ==
  /\ Asked
  /\ Add(<<Reply, User>>)
  /\ Continue

Act ==
  /\ Asked
  /\ \E n \in Id, print \in {FALSE, On("drop_noise")} :
       /\ Add(<<Acts(1..n, print)>>)
       /\ todo' = 1..n
  /\ pc' = "calls"
  /\ UNCHANGED <<mark, step, pending, lives, asks, pulled, failed, torn>>

\* The next call of the decision has its result.
Answered ==
  /\ pc = "calls"
  /\ \E i \in todo :
       /\ \A j \in todo : i <= j
       /\ Add(<<Result(i)>>)
       /\ todo' = todo \ {i}
  /\ UNCHANGED <<pc, mark, step, pending, lives, asks, pulled, failed, torn>>

\* The breaker over denials returns with calls still open.
BreakOff ==
  /\ pc = "calls" /\ todo # {} /\ On("breaker")
  /\ Finish
  /\ UNCHANGED <<raw, working, live>>

\* The guards over the step: go on, tell the model to stop, or end the turn.
Guard ==
  /\ pc = "calls" /\ todo = {}
  /\ \/ UNCHANGED <<raw, working, live>> /\ Continue
     \/ Add(<<Stop>>) /\ Continue
     \/ UNCHANGED <<raw, working, live>> /\ Finish
-----------------------------------------------------------------------------
(* Out of steps: one more request, to write up the work.                   *)

Synthesize ==
  /\ pc = "synthesis"
  /\ pc' = "soft"
  /\ Add(<<User>>)
  /\ UNCHANGED <<mark, step, todo, pending, lives, asks, pulled, failed, torn>>

\* Mutant of Synthesized: an empty synthesis is asked for again.
SynthesizedAgain ==
  /\ step = MaxSteps
  /\ \/ pc = "sent" /\ Add(<<Reply>>) /\ Finish
     \/ /\ pc = "sent" /\ pc' = "soft"
        /\ UNCHANGED <<raw, working, live, mark, step, todo, pending, lives, asks,
                       pulled, failed, torn>>

\* An empty or failed synthesis leaves its request behind.
Synthesized ==
  /\ step = MaxSteps
  /\ \/ pc = "sent" /\ Add(<<Reply>>)
     \/ pc \in {"soft", "hard", "sent"} /\ UNCHANGED <<raw, working, live>>
  /\ Finish
-----------------------------------------------------------------------------
(* Turns that do not return, and processes that end.                       *)

Rollback == working' = mark.working

\* `except Exception` in run, and the loop of the REPL: back to the snapshot,
\* with the results still pending.
Raise ==
  /\ pc \in {"soft", "hard", "sent", "calls"} /\ step < MaxSteps
  /\ pc' = "prompt"
  /\ Rollback
  /\ live' = mark.live
  /\ failed' = failed \cup (mark.at + 1 .. Len(raw))
  /\ Leave
  /\ UNCHANGED <<raw, pending, lives, asks, pulled, torn>>

\* Ctrl-C in a turn: the REPL catches it, the turn does not.
Interrupt ==
  /\ On("interrupt")
  /\ pc \notin {"prompt", "off"}
  /\ pc' = "prompt"
  /\ failed' = failed \cup (mark.at + 1 .. Len(raw))
  /\ Leave /\ Closes
  /\ UNCHANGED <<raw, working, pending, lives, asks, pulled, live>>

\* The user leaves, or the process dies.  Only the trajectory stays.
Stopped ==
  /\ pc # "off"
  /\ pc' = "off"
  /\ working' = <<>>
  /\ pending' = {} /\ pulled' = pulled \ pending /\ live' = {}
  /\ Leave /\ torn' = FALSE
  /\ UNCHANGED <<raw, lives, asks, failed>>

\* What a resumed session should stand for: every message, rolled back or not,
\* but the system's, the noise, and a last decision left without its results.
Restorable(turns) ==
  LET last == {i \in DOMAIN turns : /\ Open(turns, i) # {}
                                    /\ i + Cardinality(Results(turns, i)) = Len(turns)}
      cut  == last \cup (IF On("drop_noise") THEN Noise(turns) ELSE {})
                   \cup UNION {Results(turns, i) : i \in last}
  IN  UNION {turns[i].covers : i \in DOMAIN turns \ cut}

\* session.resume.
Resume ==
  /\ pc = "off" /\ lives < MaxLives
  /\ lives' = lives + 1
  /\ pc' = "prompt"
  /\ LET turns == Among(raw, {p \in DOMAIN raw : raw[p].role # "system"}) IN
       /\ working' = DropNoise(Sanitize(turns))
       /\ live' = Restorable(turns)
  /\ UNCHANGED <<raw, mark, step, todo, pending, asks, pulled, failed, torn>>

Turn ==
  \/ SoftPass \/ HardPass \/ Send
  \/ /\ \/ Answer \/ Reask \/ Act \/ Answered \/ BreakOff \/ Guard
        \/ Synthesize \/ Synthesized
     /\ Forget

Next ==
  \/ Turn
  \/ (Pull \/ Note \/ StartTurn \/ Raise \/ Interrupt \/ Stopped \/ Resume) /\ Forget

Spec == Init /\ [][Next]_vars

\* A turn that runs goes on by itself: each step follows from the one before it
\* in one thread, and the calls to the model and the tools end (they time out).
FairSpec == Spec /\ WF_vars(Turn)
-----------------------------------------------------------------------------
(* Properties.                                                             *)

Paired(w) ==
  /\ w # <<>> => w[1].role # "tool"
  /\ \A i \in DOMAIN w : w[i].role # "tool" =>
       /\ {w[j].id : j \in Results(w, i)} = w[i].calls
       /\ Cardinality(Results(w, i)) = Cardinality(w[i].calls)

\* Whatever is sent pairs each call with one result right after it, and each
\* result with a call: after compactions, trims, rollbacks and resumes, unless
\* an interrupt or the breaker cut a decision off in THIS process; one that
\* resumes from such a record is sound again (sanitize_tail, _safe_cut,
\* _trim_oldest, rollback).
SentPaired == pc = "sent" /\ ~torn => Paired(working)

\* The live context stands for each message it should exactly once, in the
\* order of the record: compaction, rollback and resume neither lose one nor
\* bring one back twice.
Accounted ==
  /\ Covers(working) = live
  /\ \A i, j \in DOMAIN working : i < j =>
       \A p \in working[i].covers, q \in working[j].covers : p < q

\* A request that the pins alone leave room for goes out over the window only
\* after MaxRounds rounds, each of which made the context smaller: none was
\* spent on a summary that saved nothing (_enforce_hard_cap, _compact).
SentFits ==
  pc = "sent" /\ Base <= HardCap =>
    ~Heavy(HardCap) \/ Size + MaxRounds <= opening

\* What one /result pulled is in the request of one turn that returned, or
\* still pending, and never both (fold_result, pending_results).
DeliveredOnce ==
  pc = "prompt" =>
    \A d \in pulled :
      Cardinality({p \in DOMAIN raw \ failed : d \in raw[p].folds})
        = IF d \in pending THEN 0 ELSE 1

\* Docstring of ContextManager.rollback: "the live context never ends on an
\* orphaned tool-result or a dangling assistant tool_call".
NeverDangling == pc = "prompt" => Paired(working)

\* A turn always comes back to the prompt, or the process ends: the passes
\* over the context converge and the steps are bounded.
TurnReturns == pc \notin {"prompt", "off"} ~> pc \in {"prompt", "off"}
=============================================================================
