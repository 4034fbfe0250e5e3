# A verification of openagent-code

openagent-code is a coding agent for the terminal: a loop in which a language model
decides, tools act on a working tree, and gates judge what the model says it has done.
This directory holds TLA+ models of its core logic, TLC configurations that check them,
and proofs of the most important results for every value of the constants. All paths are
relative to the repository's root: the Python package is `src/src/`, the training
scripts are `src/train/`, and the design records that comments cite are `specs/NNNN`.

Contents: [the system](#the-system) · [hard behaviours](#hard-behaviours) ·
[modules](#modules) · [runs](#runs) · [bounds](#bounds) · [fairness](#fairness) ·
[theorems](#theorems) · [disagreements](#where-code-and-docs-disagree) ·
[limits](#what-is-not-modelled) · [plan](#plan)

## The system

One process, one agent, one thread of control for the turn; background workflows are
processes of their own. The user types at a prompt (`cli.py`). A request starts a *turn*
(`agent.py`, `Agent.run`): up to `CODE_MAX_STEPS` calls to the model, each answered by
tool calls or by a closing text. Every tool call passes the permission engine. A closing
text is accepted only by a chain of gates. Everything is written, raw, to an append-only
trajectory, from which a session can be resumed and from which training rows are made.

| Component | State | Operations | What makes it correct |
|---|---|---|---|
| apply_patch (`patch.py`, `editmatch.py`) | a plan, an undo list, the mutation ledger | parse, validate each operation, apply, roll back | all or nothing; denied paths untouched; the ledger tells the truth about the disk |
| agent turn (`agent.py`, `outcomes.py`, `goal.py`, `verify_edits.py`, `grounding.py`) | step, retries of each gate, plan, ledger, goal, spec, manifest, streaks, reward records | `run`, its gates and guards, `_finish` | an accepted answer passes every gate that is on; no turn runs for ever; blame and reward are the turn's own |
| conversation (`context.py`, messages of `agent.py`) | raw record, live list, snapshot, pins | `add`, `context`, compaction, trim, `rollback`, `drop_narration_noise`, `sanitize_tail` | every call sent has its result; nothing is lost or doubled; the window is respected as far as the rounds go |
| session and trajectory (`trajectory.py`, `session.py`) | the record file, counters, the granted roots | the `log_*` methods, `resume` | what a resumed session rebuilds agrees with the record |
| training filter and pipeline (`train/`) | the archive, the rows, the adapter | `capture`, `load_session`, `trainable_turns`, `is_trainable`, `to_rows`, `sft`, `launch_sm`, `merge` | exactly the good turns become rows; nothing of the held-out gate does |
| evaluation (`eval/`) | the tasks' sandboxes and files | `run_task`, `run_agentic_task`, `score`, `compare` | a score means the same for every turn; a promotion is an order |
| background tasks (`tasks.py`) | the registry, workers, result files | `submit`, `refresh`, `drain_finished`, `pull`, `cancel`, teardown | each task ends once, honestly, is announced once, and leaves no orphan but one that would not end |
| REPL and one-shot driver (`cli.py`) | turn counter, pending results | commands, turns, interrupts, resume, exit, install verbs | labels and results reach the turn they belong to; what was brought up is taken down |
| permission engine (`permissions.py`, `execpolicy.py`, `sandbox.py`; `propose_changes`, `request_dir`) | rules, mode, granted roots, the signed list and its phase, the counted and the reviewed calls | `decide`, `decide_move`, `hard_block`, `readonly_view`, `classify`; `/mode`, `/approve`, `/add-dir` | no later stage widens what an earlier one refused; nothing is done on a consent that was not given |
| tools (`tools.py`, `editmatch.py`) | the tool context, the ledger of changes, the read-ledger | about forty tools | each checks before it acts and records what it did |
| guardian and hooks (`guardian.py`, `hooks.py`) | the verdicts of the turn | review, pre/post hooks | they answer what would be asked, and nothing else |
| grounding (`grounding.py`) | none of its own; reads the turn's ledgers | `problems` and the checks under it | an answer stands on what this turn did |
| isolation (`winsandbox.py`, `sandbox.py`, `envscrub.py`, `secretsvault.py`) | processes, handles, a job; the vault | spawn, probe, scrub, set and load secrets | nothing is left behind; a command that must be confined never runs free |
| model gateway (`model.py`) | endpoint readiness, the window | call with retries and warm-up, `summarize` | retries are made, and end; an error is reported as one |
| planner and effort (`planner.py`, `effort.py`, `effort_online.py`) | nudges, the level of a task, the learner's table | `decide`, the policies | a lost reply is no answer; a task never comes to think less |
| fan-out (`fanout.py`, `subagent.py`, `orchestrator.py`, `workflow.py`, `skills.py`) | child agents, results | plan, delegate, run workflow | results in the order of the tasks; one writer; what is left out is named |
| stores (`todos.py`, `specstore.py`, `memory.py`) | Markdown and JSON files in the workspace | load, change, save | what was saved survives, is numbered once and is not written over |
| web (`search.py`, `netfence.py`, `mcp_client.py`) | the read-ledger | fetch, search, calls of servers | only public addresses; the ledger keeps the strongest evidence |
| prompts, configuration, start-up (`prompts.py`, `toolset.py`, `runtime.py`, `config.py`, `userdirs.py`, `installshim.py`) | settings, `.env`, launchers, profiles | `build_system_prompt`, `main`, `--set-name` | a prompt names only what is offered; a verb that died can be run again |

Interactions, as the code has them:

- **Shared state.** `ToolContext` carries the plan, ledger, goal, spec, manifest and
  `_verified_ok` from the tools (writers) to the gates (readers). `Agent.run` resets them
  at the start of each turn.
- **Calls.** The turn calls the model, the permission engine and the tools, in one thread.
  The prompt loop calls the turn, and polls the task registry before each prompt.
- **Files.** The trajectory is written by the context manager and the turn, and read by
  `session.py`, `trajectory.py` (a second time) and `train/convert.py`. A worker and the
  registry share a result file, which may show up late.
- **Outside actors.** The user (an editor on the same tree, Ctrl-C, consent questions),
  background processes, and a crash at any point.

## Hard behaviours

`PROJECT.json` lists the hazards, each at its line, with the property that watches it.
They fall into these groups.

- *Chained gates with their own retries* (agent turn): a re-prompt by a late gate lets the
  model undo what an early gate has passed.
- *State that outlives its turn* (agent turn, conversation): ledger, consents, pins.
- *Partial failure* (apply_patch): a fault at any file operation, or in the undo itself.
- *Crash and resume* (conversation, session): between a decision and its results, between
  a grant and the message that tells of it, within one line of the record.
- *Interrupts and early returns* (conversation): Ctrl-C, or the denial breaker, between two
  calls of one decision.
- *Scans that must agree* (training filter): five passes over a record, each with its own
  flag, and a turn number that several processes use.
- *One order, spelled out three times* (permission engine): a call, a command and a move each
  have their own ladder of hooks, rules, modes, lists and reviewers.
- *Consent that outlives its turn* (permission engine): lists, unlocks, persistence, and modes
  switched in between.
- *Polling* (background tasks): an exit seen before its file, a file before the exit.
- *Retries over a faulty endpoint* (gateway): drops, empty replies, throttles and cold starts,
  each with a budget of its own, within one call.
- *Delegation* (fan-out): a pool, children of children, Ctrl-C while it shuts down.
- *Files without locks* (stores): two sessions, a write cut short, a file that cannot be read.
- *Evidence* (tools, grounding): ledgers filled under several spellings, by calls that failed, timed
  out or ran in an earlier turn.
- *Processes that outlive their parent* (isolation): a grandchild that holds the pipe.
- *Termination* (agent turn, conversation, gateway, fan-out): guards that reset one another; a compaction
  that does not shrink.

## Modules

Each module's first comment says what it stands for; `PROJECT.json` maps each definition
to its lines. History variables (marked `history:`) record what the program forgets; no
guard reads them, except `serial` and `pulled`, which also bound the model.

**`ApplyPatch`** — one call of `apply_patch`. `Parse`, the `Validate*` actions, `ReadUpdate`,
`ResolveHunk` and `PlanUpdate` are the passes before the first write; `ApplyDelete`,
`ApplyRename`, `ApplyWrite` are the three branches of the apply loop; `WriteFails` and
`StepFails` are an `OSError` after and before an effect; `UndoLast`, `UndoFails`,
`RolledBack` are the rollback; `Succeed` records the ledger. A text is a set of tokens, and
a hunk replaces one token by another: whether it matches, and what it makes of the text
the earlier hunks left, are all the properties see. `trail` keeps the disk before each
applied step. `os.rename` replaces an existing destination, as on POSIX.

**`AgentTurn`** — `Agent.run`. `pc` is the place in the loop: `ask` (the model is called),
`call` (the calls of one decision), `narration` and `stall` (the guards over a step), and
the five gates of an answer in their order. `Asking` is the loop's condition; `Printed`,
`Broken`, `Nudged`, `Answer` and `Act` are what a decision may be; `Run` and `Denied` are
what is common to all calls, `Write`, `Delete`, `Shell`, `Check`, `UpdatePlan`, `Pursue`,
`Propose`, `WriteSpec`, `MarkDone` and `NoEffect` are the tools as the gates see them;
`Reprompt` is the pattern of a bounded gate; `End` is `_finish`. The world is one `exists`
and one `sound` flag for each file. Anything may change it between turns, and within one:
`Outside` is the user's editor or a background process at any moment of a turn, `RunBar` the
command that the goal gate runs behind two gates that have passed. `stirred` remembers what
changed after the last look of those gates. `GroundingGate` ends the chain, with the digest of a review
put in the place of a receipt (`REVIEW_DELIVER_DIGEST`), as `Printed` may. `Outcome`
is `outcomes.classify`; `Kept` is what `train/convert.py` makes of a turn's records.

**`Conversation`** — the messages. `raw` is the record, `working` the live list, and each
message carries the positions of the record it stands for (`covers`), which makes "nothing
lost, nothing doubled" a statement about two sequences. `SoftPass`, `HardPass` and `Send`
are `ContextManager.context`; `Compacts` and `Trims` its two ways to shrink; `Raise` the
rollback; `Stopped` and `Resume` the end of a process and `session.resume`, built from
`Sanitize` and `DropNoise`; `Pull`, `Note`, `StartTurn` the prompt loop. `HardPass` is one
iteration of `_enforce_hard_cap`, counted in `rounds` up to `MaxRounds` (500 in the code), after
which `Send` lets the context go as it is; `opening` is the size at which the loop began.

**`SessionRecord`** and **`Corpus`** — the record as the programs write it, and what training
takes from it. `Corpus` has no state: `Parsed`, `Segment`, `Tainted`, `Trainable`,
`WholeIsTrainable`, `IsTrainable`, `Turn` and `Rows` are the functions of
`train/convert.py`. `SessionRecord` has one action for each write that another part of the
program reads back (`Think`, `Use`, `Request`, `Check`, `Finish`, `Label`, `Fail`, ...), the
exits of both drivers, a `Crash` that may tear the last line, and `Resume`. A grant and the
message that tells of it are two actions (`Grant`, `Tell`) because they are two writes.

**`BackgroundTasks`** over **`TaskLifecycle`** — the registry, its workers and the prompt loop
around them. A worker `Writes` its file, the file `Appears` (possibly late), it `Exits` or
`Dies`. `Refresh`, `Drain`, `Submit`, `Cancel` and the teardown are the registry's; a cancellation
whose `terminate` or `wait` raises leaves the worker alive under a task that is an error (`Outlives`,
recorded in `outlived`), `Exit` leaves the loop from any of its places, and `Abort` is Ctrl-C in the
middle of the teardown.
`TaskLifecycle` states what a task is promised; `ImplementsLifecycle` is the refinement,
with `phase <- state`, `delivered <-` the workers that exited well, `told <- announced`. `loop` is the
place in the prompt loop. `Conversation` models the other half of that loop; the names of the two
modules are apart (`TasksSpec`, `BeginTurn`, ...), as are those of `Tools` and `AgentTurn`
(`ToolsSpec`, `CallTool`, ...), so that one module of proofs can speak of both.

**`Permissions`** — every decision on a call. `Ladder`, `MoveLadder` and `Tier` are the ladders of
`_decide_core` / `_decide_command`, `decide_move` and `decide`; `Hard` is what each of them
refuses first, `Effects` what a call that ran has touched, found without them, `Relaxed` and `Unlocks` are the relaxations of propose mode, `Doubted` is
`_escalate_allow`. `Decide` ends a call or puts it to somebody (`pc = "ask"`), where
`OutOfBudget`, `AskHook`, `AskGuardian` and `AskPerson` are the approvers in their order.
`Propose` is `propose_changes` with its check before the signature (`Probes`, `HardBlock`),
`Unlock` the unlock of `_propose_autoplan`, `ChildCall` a call of a subagent under `Child`
(`_child_permissions`), and `SetMode`, `Approve`, `AddDir` are what the user types. An
envelope is a call of its own whose operations are then decided one by one, and the first
refused one ends it. A rule is the pair of a tool and one target that it matches, so a pattern
is a set of rules; what `execpolicy` finds in a command line is a constant.

**`CommandLines`** — `execpolicy.classify` and `sandbox.command_write_dests`: a line of segments
and operators, what class it has and where it writes. `Permissions` and `Tools` use it; the tables of
classes that `MCPermissions` gives are what it computes (`MCLinesAssumption`).

**`Flywheel`** over `SessionRecord` — who writes trajectories: a session, the tasks of
`eval/harness.py` and `train/capture.py`, and children at any depth (`subagent.py`). The runs
that wait for a child are a stack; `Archive` is what `train.convert` would find at any moment,
a run in progress included.

**`Gateway`** and **`Planner`** — one call of the model and the turn around it. `Send`, `Chunk`,
`StreamEnds`, `Backoff`, `Probe` and `NapEnds` are the attempts of `Model.complete`, its stream and
`warm_up`; the endpoint answers, drops, cuts, breaks off or refuses as it likes. `Planner` adds
both planners' reading of a reply, the nudges of `JsonPlanner`, and the level of the next call
(`NextEffort`, `Sent`, the learner's `Decide`).

**`Delegation`** over **`OrderedMap`** — `spawn_agent`, `run_parallel`, `review_repo`, `run_workflow`
and `run_skill`. An agent is its path in the tree; `Start` and `Return` are a child's life in the
pool, `Interrupt` is Ctrl-C, which leaves running children behind. `Begin` and `End` are a call of a
tool that writes, which takes time (`using`); `Writes` says which ones an agent is let through with:
"edit" for the tools that the permission engine knows as mutating, "note" for those it takes for
readers. `Submit` hands a workflow to the background. `OrderedMap` is what
`fanout.py` promises; `ImplementsOrderedMap` is the refinement.

**`Stores`** — the backlog, the notes, the specs and the learner's table, by the system calls that
their tools make (open, which empties; close, which fills), of two sessions that may die in
between. `hurt` marks a store that met what it is not said to survive.

**`Tools`** over **`Grounding`**, **`Web`**, **`Shell`** and **`Editing`** — the calls of a turn and
the judgement of its answer. `Grounding` has an operator for each check of `grounding.problems`,
over an answer that is a set of sentences. Its judgement takes two actions of `Tools`, because a
verifier works in between: `Judge` is the nets and what the verifier is given (`CitedFetched`, with
its caps as a number of sources that fit), `CrossCheck` the verdict held against the tree as it then
is (`RepoPaths`, with the directories it skips and its limit of files). `Web` has the fence, the
providers and the read-ledger; `Shell` the life of one spawned command, primitive by primitive, each of
which may fail, with a grandchild that may hold its pipe; `Editing` the three strategies of
`editmatch.py` and what is left of a text (`Put`, `Replace`). `Torn` is a write that raises after `open` has
emptied the file. `hist` is what the calls of the turn established, the reference by which its answer
is judged.

**Modules without state** — what the code computes, as operators and recursive functions:
`Window` (the window and its budgets, the cap on a reply, `bounded_summary`, pins, the environment
block), `Prompt` (the toolset, the registry, the sections of the prompt for each kind of agent),
`Naming` (`--set-name` and `--remove-name` as sequences of file writes that may stop anywhere),
`Startup` (settings, flags, the steps of `main`, secrets, what a child inherits, the folders a user
types), `Reading` (`read_file`, `grep`, `glob`, `tree`), `Scoring` (the rubric, the promotion gate,
the tally) and `Training` (the rows, the examples, the job, the merge). **`BoundedChecks`** states
of each what it has to compute, as assumptions over bounded inputs.

The modules meet in what they share, each abstracting the others: `AgentTurn` produces the
labels and records that `SessionRecord` writes, and its `Denied` is a refusal of
`Permissions`; what its grounding gate finds is what `Grounding` computes from a turn of
`Tools`; `Conversation` has the turn as a sequence of
messages and `SessionRecord` as a sequence of records; both have the same prompt loop,
`BackgroundTasks` the part of it that polls; a fan-out of `Delegation` that runs in the background
is a task there. `Flywheel` extends `SessionRecord`, which extends `Corpus`; `Planner` extends
`Gateway`; `BackgroundTasks` and `Delegation` meet their specifications by `INSTANCE`.

An operator whose comment begins "Mutant of" is a plausible bug in the definition that
follows it. It is used nowhere; substituting it shows that a property can fail.

## Runs

Runs that pass:

| Run | Configuration | What it shows |
|---|---|---|
| `patch` | `MCApplyPatch.cfg` | Every envelope of up to three operations on three paths, every fault: a rollback restores (`RollbackExact`), disjoint operations all land (`AllOpsLand`), the ledger accounts for the disk (`LedgerAccountsForDisk`) |
| `turn` | `MCAgentTurn.cfg` | All gates and guards on, one retry each, over files that the bar and somebody outside change too: an accepted answer is backed at the end of the turn, but for what changed behind its gates and for a review's digest (`FinalIsBacked`), a turn kept for training delivered what it promised (`KeptIsDelivered`), evidence of a check is of this turn where every verifier is installed (`VerifiedByACheck`), every turn returns (`TurnEnds`) |
| `conversation` | `MCConversation.cfg` | Three processes, a tight window, rollbacks, compactions, interrupts, the denial breaker and crashes anywhere: what is sent is paired, unless this process itself has left a decision open (`SentPaired`), fits unless all rounds of the hard pass went into making it smaller (`SentFits`), and is accounted for (`Accounted`); pulled results arrive once (`DeliveredOnce`); turns return (`TurnReturns`) |
| `tasks` | `MCBackgroundTasks.cfg` | Three workflows over a cap of two: a task that is done really is (`DoneIsGenuine`), is told at the next prompt (`PromptTold`), leaves no orphan but one that would not end (`NoOrphans`); `ImplementsLifecycle` |
| `records` | `MCFlywheel.cfg` | Every record that sessions, one-shot runs, batches of the gate and of a capture, and their children write, read at any moment: rows come only from good turns unless the session was resumed (`TrainedUnlessResumed`), and from all of them (`GoodTurnsKept`); the fence agrees with the messages (`ToldIsGranted`); the held-out gate yields no row (`HeldOut`) |
| `permissions` | `MCPermissions.cfg` | Four choices of features, three rule files (one of them empty), with and without a person: what is done is nothing that a deny rule or the fence forbids, whatever call does it, nor, a move aside, that a hook or a fixed refusal does (`HardRulesHold`); propose mode only reads before an approval (`ReadOnlyUntilApproved`) and does unasked only what was signed or is allowed by rule (`OnlyTheListUnasked`); a signed list can be carried out (`PlanExecutable`); a present person is overruled by nothing but the cap (`HumanBackstop`) |
| `planner` | `MCPlanner.cfg` | Three tasks over a faulty endpoint, streamed and not, warmed and not, in both tool modes, under six settings of the effort ladder: what retrying can fix is retried to the end (`RetriedToTheEnd`), every call returns (`CallReturns`), a task never comes to think less (`ThinksNoLess`). Its module extends `BoundedChecks`, so this run evaluates [the bounded checks](#bounded-checks) too |
| `delegation` | `MCDelegation.cfg` | Reviews, workflows, skills and spawned children, serial and on two threads, two Ctrl-C's: no two calls that edit are under way at once (`OneWriter`); a digest names what it leaves out, but for two cuts (`NothingSkipped`); results are in the order of the tasks (`ImplementsOrderedMap`); every fan-out ends (`FanOutReturns`) |
| `stores` | `MCStores.cfg` | Two sessions, crashes, unreadable files, writes cut short: the backlog, the notes and the approved specs survive what they are said to survive (`BacklogKept`, `NotesKept`, `SpecsApart`) |
| `tools` | `MCTools.cfg` | Two turns of calls, answers judged under two sets of settings, every edit of a short file, commands and hooks on every kind of host: the nets pass exactly what this turn bears out and the tree decides a verifier's flags (`JudgedByTheTurn`), the verifier is given the pages that were fetched as such (`StrongestEvidence`), an edit lands in the one place it means and a failed one leaves a beginning of it (`EditsLandOnce`), a spawn that comes to its end leaves nothing behind (`Contained`) and ends (`CallEnds`) |

The runs that expect a
violation are the subject of [a section of their own](#where-code-and-docs-disagree).

`CHECK_DEADLOCK FALSE` stands where the program really stops: a patch call that has
returned, a session that has ended, a bounded number of tasks or calls that is spent. `AgentTurn`
has no end (another turn can always start), so its run checks deadlock too.

### Bounded checks

`BoundedChecks` holds named assumptions, each over all inputs of a bound that its statement shows
(`Windows`, `Upto(set, n)`, a set of trees, archives or command lines). TLC evaluates them before the
`planner` run starts and stops it when one is false.

| Module | What is checked of it |
|---|---|
| `Window` | `BudgetsNest`, `ReplyFits`: a summary fits what may be sent, that fits the window, and a request leaves room for its reply from a window of 20000 on. `SetWindowStands`. `ChunksPartition`, `SummaryBounded`: nothing is lost or moved, and no call of a summary exceeds the budget while summaries shrink. `PinsOfThisTask`: a digest or goal that is sent was set after its task. `BlockIsShort` |
| `Prompt` | `PromptNamesOffered`: whoever runs the agent, under every choice of flags, its prompt names no tool that it is not offered. `OfferedIsDispatched`, `ChildrenReport` |
| `Naming` | `SetNameRestarts`: a verb that died after any of its writes and is run again leaves the disk as one that did not. `NamedAgentStarts`, `RemoveUndoesSet` |
| `Startup` | `FlagsAccountForWords`, `LastToggleWins`, `ConnectedIsDisconnected`, `ModeInForce`, `VaultKeeps`, `ChildInherits`, `TypedIsGranted` |
| `Reading` | `OneSourceOfSkips`: walks and globs agree on what is skipped. `SecretsUnlisted`, `TreeCounts`, `PagesCover`, `GrepIsCapped` |
| `Scoring` | `PerfectIsAllChecks`, `DeflectionCosts`, `PromotionIsOrder`, `TallyCounts` |
| `Training` | `LossOnAction`: what is learnt is the action, token for token. `RowsAreActions`, `ReportAddsUp`, `JobTrainsRows` |

A name that ends in `Fact` (`NamelessRowFact`, `SummaryBeyondBudgetFact`, `QueryAliasFact`,
`RemoveLeavesFact`, `StartupFact`, `VaultLostFact`, `NegativeOffsetFact`, `UndecodableFact`,
`FailedBaseFact`, `NothingToLearnFact`, `StaleStudentFact`) pins what the code does where a reader may
expect otherwise; each is among the [disagreements](#where-code-and-docs-disagree).

### Bounds

| Module | Bound | Why it is enough |
|---|---|---|
| `ApplyPatch` | 3 paths, 3 tokens, 3 operations | two operations that interfere and a third that fails are the smallest case of every hazard; the theorems cover the rest |
| `AgentTurn` | 1 file, 1 acceptance item, 4 steps, 1 call a decision, 1 retry a gate | four steps let two gates re-prompt and the model undo its work in between; the theorems cover the rest of the safety |
| `Conversation` | 2 calls a decision, 1 step a turn, 2 messages caused by the user, 3 processes, one digest | a compaction needs three old messages, a split decision two results, a doubled result two turns. The hard pass has 2 rounds (`MaxRounds`) where the code has 500, so that a context that needs a third one is sent too heavy |
| `Flywheel` | 2 turns of 1 or 2 acts; 2 grants over 3 processes; 1 child of a session, 2 levels under a task of the gate | contamination takes two turns; a counter or a fence rebuilt twice takes three processes; a verifier of a child takes two levels |
| `BackgroundTasks` | 3 tasks, cap 2, grace 3 (the code's value of `_GRACE_POLLS`) | the smallest instance in which the cap refuses; tasks are symmetric |
| `Permissions` | 4 paths (one outside, one secret and protected), 5 commands (one of each kind), 16 calls, 3 lists, a cap of 1, one review a turn (`MaxReviews`) | decisions do not depend on one another but through the list, the phase, the counted calls and the verdicts; a cap of one is reached by the first destructive call, a list is replaced by a second one, and every feature is on in one of the four sets. A guardian that answers before a person in propose mode is left to the theorems |
| `Planner` | 3 tasks of 4 steps, 2 retries, a cold start of 0 or 20 seconds against a budget of 20, streams of two chunks | an attempt that fails, one that is dropped and one that is re-warmed fit one call; a level that rises twice and a reset fit three tasks |
| `Delegation` | 2 folders, 2 root files of which 1 is listed (`MaxListed`, 40 in the code), 2 plans, 2 areas, a fan-out of 3 over a phase of 4 usable jobs, depth 2, 2 phases of 3, 1 concern, 2 Ctrl-C's | a merge, a split and a cut of areas, a root file that is not listed, a child beyond the fan-out and the phase beyond the cap all happen; a second Ctrl-C hits the pool's shutdown |
| `Stores` | 2 sessions, 2 items, 2 slugs, 3 starts, 3 to 6 calls | a lost update takes two sessions, a renumbered item two saves and a load; sessions and items are symmetric |
| `Tools` | 2 files and one each below a skipped and a dotted directory, 2 turns of 2 or 3 calls, 3 URLs of 2 pages of which 1 or 2 fit (`LeastFit` is 1; 4 in the code), a walk of 2 files (`WalkCap`; 8000 in the code), files of up to 3 lines over 2 bodies and 2 indentations, edits of one, two or no lines, 1 command with 1 grandchild and up to 2 hooks | evidence of an earlier turn takes two; a page that is cut off takes two pages; with two files the walk may miss one; three lines hold two candidates for an edit; the pipe is held by one grandchild |

Counters that the program leaves unbounded stay unbounded in the models (`polls`, `looks`,
`toolCalls`, streaks) and are bounded by what drives them.

### Fairness

Fairness is weak throughout, of what the program's own threads do when they can, and never of the
user, of a worker or of an interrupt.

- `AgentTurn!FairSpec` and `Conversation!FairSpec`: the turn's own steps. A turn runs in one
  thread, without waiting for another one, and its calls end.
- `Gateway!GatewayFairness`: each step of a call. The client has a timeout on every request and
  every read, so an endpoint that is silent is an attempt that fails. `Planner!FairSpec` adds the turn.
- `Delegation!FairSpec`: every agent that can go on does (`Work(a)`, one condition for each), as
  threads of a pool do; a pool's threads are never starved by one another since each waits only for
  a call of the model.
- `Tools!Fairness`: the interpreter's own steps of a spawn, the time limits of its waits, and the end of
  a verifier (a subagent, whose turn ends). A spawned process owes nothing: it may run, write and hold the
  pipe for ever.

No liveness of background tasks is claimed: a
worker may run for ever, and the registry only looks when the user does something;
`SettledInTime` counts looks, and is a safety property. `Stores` and `Flywheel` have none: a session
may stop anywhere.

## Theorems

Checked by TLAPS, for every value of the constants that satisfies the module's assumption
(`PatchAssumption`, `TurnAssumption`, `ScenariosAssumption`, `ConversationAssumption`,
`TasksAssumption`, `PermissionsAssumption`, `GatewayAssumption`, `PlannerAssumption`,
`DelegationAssumption`, `StoresAssumption`, `RecordAssumption`, `FlywheelAssumption`). The assumptions
give constants their types; `ScenariosAssumption` does so for each scenario of `Tools`, so its theorems
hold whatever calls, files, replies, hooks and settings a scenario has. `TurnAssumption` also says that a verifiable, a runnable and a named file
are files; `PlannerAssumption` that the settings of the effort lie on the ladder and the learner's
threshold is not zero; `DelegationAssumption` that a pool has a thread, that a workflow may have a
phase, and that a folder is its own top folder and not called like the bucket of the root's files.

| Theorem | Says | Argument |
|---|---|---|
| `ApplyPatch_proofs!TypeCorrect` | types | inductive as it stands |
| `ApplyPatch_proofs!RollbackCorrect` | `RollbackExact` | The property is silent until the call ends, so it is not inductive. `IInv` adds what carries it: planned and undone steps follow the envelope's operations (`PlanFollowsPatch`, `UndoFollowsPlan`); each undo record leads from the disk after its step to the disk before it (`History`); a file that was not there at first has a record that made it (`Appeared`); and during the rollback the disk is the one on the trail (`Present`), except for a file that an Add made and a Move then replaced, which the Add's record still accounts for |
| `ApplyPatch_proofs!DeniedNeverWritten` | `DeniedUntouched` | An action property. `Gated`: every operation validated so far names allowed paths only. `OnlyAllowed`: so do the plan and the undo list. Then each step that writes, the rollback's included, writes an allowed path |
| `AgentTurn_proofs!TypeCorrect` | types | with `StepOK`: inside a step, the budget is not yet spent |
| `AgentTurn_proofs!FinalBacked` | `FinalIsBacked` | `Judged` says, of each place in the chain, what the gates before it have established of the files that did not change behind them (`stirred`); the bar and the world outside add to those, and every re-prompt leaves the chain and starts it over |
| `AgentTurn_proofs!KeptDelivered` | `KeptIsDelivered` | `Promise`: an approved spec is the one last promised; `Logged`: a denial is in the records from the moment it happens, manifest and spec from the moment the turn returns |
| `Conversation_proofs!TypeCorrect` | types | part of the invariant below |
| `Conversation_proofs!DoneGenuine` | `DoneIsGenuine` | `Honest`: a live worker belongs to a running task, a good exit comes with a good result, an unknown task has no worker |
| `Conversation_proofs!LifecycleImplemented` | `ImplementsLifecycle` | initial states map to initial states; under the invariant every step of the registry, its workers and the prompt loop is a step of `TaskLifecycle` or a stutter |
| `Conversation_proofs!SentIsPaired` | `SentPaired` | Types do not carry it; `Sound` does. `Context`: the live list, the snapshot a rollback goes back to and the record are `Closed` (each call of a decision has one result behind it, in order) but for the decision in hand, whose open calls `Deciders` counts; `Course`: where in a turn the loop is and what it still has to add. A summary or a trim takes whole exchanges (`SafeCut`); a repair at a resume closes what a dead process left open (`Rehydrate`, `Sanitize`, by induction over the record) |
| `Conversation_proofs!LiveIsAccounted` | `Accounted` | `Recorded`: what each live message stands for lies in the record and lies apart from what the others stand for, in order (`OrderedAppend`). `Holds`: no position is missing but those that a rollback or a repair took away. What a resume rebuilds from the record has both again (`RestorableIs`, `ResumeSound`) |
| `Conversation_proofs!SentIsBounded` | `SentFits` | `Shrinking`: the size of the live list and the rounds spent add up to no more than the size at which the loop began, since a summary that is taken saves weight and a trim takes a message (`ShrinkingKept`; weights are natural numbers that add up, `WeightType`) |
| `Conversation_proofs!ResultsDeliveredOnce` | `DeliveredOnce` | `Delivered`: what was pulled is partitioned into what is pending, what the turn in hand was `Given` and what returned turns were told; `InTurn`: only a turn that has begun holds some |
| `Permissions_proofs!TypeCorrect` | types | inductive as it stands |
| `Permissions_proofs!HardRules`, `ProposeReadsOnly`, `ListOnly`, `OffPlanEscalated`, `PersonDecides`, `ChildrenRead` | `HardRulesHold`, `ReadOnlyUntilApproved`, `OnlyTheListUnasked`, `OffPlanAsked`, `HumanBackstop`, `ChildrenReadOnly` | One invariant for all six. `EffectsAreSubjects`, `EffectsAreFenced`: whatever a call touches, the parts of a line and both ends of a move, is what the ladders asked about. `Consent`: a graduated session has an agreement, an approved phase one of this turn or a persistent one, and the approved paths were signed. `Waiting`: a call that waits for its answer has passed the hard rules, and propose mode. Lemmas about the ladders then show that every decision is `Judged` when it is taken, and `JudgedDecisions` that a judged decision has the six properties |
| `Permissions_proofs!CapKept` | `CapHolds` | with the finiteness of the counted calls: `CountedWithin` adds one of them under a budget that was asked |
| `ApplyPatch_proofs!LedgerAccounts` | `LedgerAccountsForDisk` | `Recorded`: there is a map from the ledger's entries to the planned steps, in their order, under which each step has an entry for every path it touches, and a "delete" exactly where it erases. `Applied`: of each path, the last step done that touches it decides whether the file is there |
| `ApplyPatch_proofs!SuccessCarriesOut` | `AllOpsLand` | `Carried`: the plan has the envelope's operations, one by one, each read from the disk at first. `Resolving`: the text in hand is the file after the hunks before this one, in order. `Lands`: with disjoint paths, each operation that is done stays done |
| `AgentTurn_proofs!EvidenceIsOfThisTurn` | `VerifiedByACheck` | inductive with the types: `_verified_ok` is set by a check that passed, or by the touched-files gate, which runs every verifier that is installed |
| `AgentTurn_proofs!AnswersAreJudgedByTheTurn` | `JudgedByTheTurn` | An action property. `Backing`: the flags, the ledger of changes and the ledger of pages say exactly what the calls of this turn did (`Checked`, `Probed`, `Changed`, `Paged`). One lemma for each check of `grounding.problems` says when it finds nothing (`AbsenceNet`, `WebNet`, `PathNet`, `DeterministicIs`; together `NetsIs`), and `DropIs`, `VerifierNet` what the walk leaves of a verdict. `Waiting`: while a verifier works, the question it was asked stands |
| `AgentTurn_proofs!StrongestIsGiven` | `StrongestEvidence` | from `Backing`, and `Given`: what a waiting verifier was given is what the ledger held, which nothing changes meanwhile. `Grows`: whatever is recorded, every entry keeps its page, and a fetched one stays fetched (`RecordAllGrows`, by induction over the URLs of a search); `BestOf`: then the entry that is chosen is a fetched one. Only the places ahead of a page, a finite set (`LedgeredFinite`), keep it out |
| `AgentTurn_proofs!SpawnsAreContained` | `Contained` | `ShellInv`: at every place of its way a spawn holds just the handles that were opened, and knows whether its process was born, caged or killed (`Boxed` for the sandboxed way, `Piped` for the other, `Tidy` once it is over). One lemma for each kind of step, with every answer of the system calls |
| `AgentTurn_proofs!ToolsTypeCorrect` | types of `Tools` | from the two invariants above |
| `Conversation_proofs!ToldAtThePrompt` | `PromptTold` | `Told`: between a refresh and its banner, what has ended and is not announced is what the refresh found |
| `Conversation_proofs!NoneLeftBehind` | `NoOrphans` | the invariant of `DoneGenuine`, with what `Cancel` leaves of each task: no worker, or one in `outlived` under an error that has been told, which no later poll looks at |
| `Permissions_proofs!SignedPlansRun` | `PlanExecutable` | `Feasible`: an approved list is the one the phase rests on, and the check that was made of it before the signature still holds, since directories are only granted (`BlockedLess`). `ItemFree`: what that check lets pass, no ladder of an item's own call refuses |
| `Planner_proofs!RetriesAreUsedUp` | `RetriedToTheEnd` | `RetryInv`: attempts are counted, and a wait is for one that is left |
| `Planner_proofs!EffortOnlyRises` | `ThinksNoLess` | `EffortInv`: within a task the level climbs a ladder (`Rungs`). The theorem says when: where the ladder's floor covers what is sent without one (`FloorCovers`), as in each of the run's settings |
| `Delegation_proofs!WritersWait` | `OneWriter` | `CrewInv`: the agents at work form a tree (`Rooted`, `Chains`), whoever has a child at work that may edit waits for it, and only a pool has several, which may not (`Crew`, `Readers`). `Hands`: an agent has one call under way at most, of a kind it is let through with, and none while it waits |
| `Delegation_proofs!DigestsTellAll` | `NothingSkipped` | `CallTells`: what the call in progress still has to do, has done and has named make up the whole. `ReviewCovers` and `PhaseLists` say it of the plans when they are made, after every split, merge and cut, with the files that the bucket lists |
| `Delegation_proofs!FanOutIsOrderedMap` | `ImplementsOrderedMap` | `Assigned`: each child has the task of its place in the list. Then every step of a pool, its threads and an interrupt is a step of `OrderedMap` or a stutter |
| `Stores_proofs!NotesStay` | `NotesKept` | `Shape` gives the records of the state their fields; the file of notes is only ever appended to |
| `Stores_proofs!ApprovedStay` | `SpecsApart` | `SpecsInv`: an approved spec is on disk under its number, no call in progress that brings another one aims at its file, and a number is minted past all that are seen (`MintFresh`). `CallsLive`: a call belongs to a live session |
| `Stores_proofs!BacklogStays` | `BacklogKept` | `TodosInv`: at most one call is about the backlog; what it is to write records each item as the call leaves it (`Records`: once, with its status, and nothing else); and a number that a session was shown, and that is not stale, is still that item's place. `AddRecords`, `SetRecords` and `ClearRecords` say that the three changes keep a record, the last by induction over the list (`KeptItems`) |
| `Flywheel_proofs!GateIsHeldOut` | `HeldOut` | `Apart`: while the gate runs, every frame of the stack is at home in "eval" and hands "eval" on, and so is every file that is over |
| `Flywheel_proofs!RehydratedFence` | `ToldIsGranted` | `Fenced`: what a file in hand or a waiting one tells is inside the fence, which only grows while a process lives. `OnRecord`: what it tells is granted in the same file. The theorem says when (`ByTheBook`): `request_dir` tells without a record, so either it is not used or nobody resumes |
| `Flywheel_proofs!OnlyGoodIsTrained`, `NothingGoodIsLost` | `TrainedUnlessResumed`, `GoodTurnsKept` | `Ordered`: a session's file has one label a turn, with its number, behind what the turn wrote and before what later turns did (`Turnly`), and is `Midway` in a turn and labelled to the last (`Between`) at the prompt; the file of any other run is of one turn and without labels (`Whole`); each stays so while children run above it. `ParsedIsSound`: of a torn file training reads all but the last line. Lemmas about `Corpus` then say of any file in this order what becomes a row: a model call is filed under the turn that made it (`FiledByTurn`), and what taints or judges a turn stands in its segment (`InSegment`) |

`DeniedUntouched`, `OffPlanAsked`, `CapHolds`, `ChildrenReadOnly` and the types are proved and no longer
part of a run: the proofs say more than the small instances did.

`Conversation_proofs` holds the theorems of both halves of the prompt loop, `AgentTurn_proofs` those of
the turn and of the tools it calls.

Only model-checked: `EditsLandOnce` of the tools.

Out of the prover's reach, and left to TLC for good:

- *Liveness*: `TurnEnds`, `TurnReturns`, `CallReturns`, `FanOutReturns`, `CallEnds`.
- *What the bounded checks state of every input*: the induction theorems of the library take the
  predicate as an operator, which no backend can instantiate. Where an invariant needs a recursive
  function of numbers, its proof uses the set of the numbers for which the claim holds instead (`NatInd`,
  from the well-foundedness of `<`): so for the hunks of an Update (`Resolved`), the lists of a plan
  (`Only`), the lines that a torn file leaves (`Parsed`), what clearing leaves of the backlog
  (`ClearDone`), the weight of a list and the repair of a record (`Weight`, `Sanitize`) and the URLs
  of a search (`RecordAll`).

## Where code and docs disagree

Each run below checks one sentence of the repository and finds it violated by what the code
does. The quotations are in `PROJECT.json`, under `findings`.

| Run | The sentence is about | What happens |
|---|---|---|
| `patch_moves` | "on ANY error, no file is changed" | two moves onto one destination, then a fault: one of the two files cannot be given back |
| `conversation_interrupt` | the live context "never ends on ... a dangling" call | Ctrl-C during a call leaves one |

Other disagreements met while modelling have no run. The models have them, and the passing
properties say where they stop holding:

- A second `Update` of one file in an envelope is planned against the file on disk and
  discards the first one's hunks (`patch.py:294`): `AllOpsLand` speaks of disjoint paths.
- Prints alone are the reply, before any gate, a pursued bar included (`agent.py:519`):
  `FinalIsBacked` speaks of answers that were not printed. The digest of a review that takes the place of
  a receipt (`agent.py:511`, `695`) is not judged by grounding, though "grounding judges the REAL
  final answer" (`agent.py:608`); `FinalIsBacked` names it.
- The goal's bar is a command that runs behind the gates of completion and of touched files
  (`agent.py:613`), which do not look again: what it breaks, the accepted answer does not know of, nor
  of what somebody else changes between a gate and the answer. `FinalIsBacked` leaves out the files
  that changed behind a gate (`stirred`).
- A declined second spec disarms the gate of the approved one (`tools.py:1352`):
  `FinalIsBacked` speaks of the stored spec. The training filter still sees the first one
  (`KeptIsDelivered`).
- A verifier that is not installed counts as a pass (`verify_edits.py:120`):
  `VerifiedByACheck` speaks of worlds in which every verifier is.
- The denial breaker returns before the results of a decision are added (`agent.py:721`):
  `SentPaired` is silent from then on, as after an interrupt (`torn`), until the next
  process repairs the history.
- "this always converges and the context provably fits the window" (`context.py:410`): pins that are
  heavier than the window are sent all the same, and so is any context that 500 rounds have not
  brought within it (`context.py:416`). `SentFits` assumes that the pins fit, and says what the rounds
  have achieved by then.
- "an unattended exit never leaves orphaned subprocesses" (`cli.py:445`): a `terminate` or a `wait` of five
  seconds that raises is swallowed and the task is marked an error (`tasks.py:213`), its worker possibly
  alive; Ctrl-C while one is waited for breaks the teardown off and leaves the rest running.
  `NoOrphans` names both.
- A resumed session numbers its turns from one again, so a later label replaces an earlier
  one (`cli.py:318`): `GoodTurnsKept` is checked of a session of one process.
- A torn last line is skipped by `session._load_records`, which says that the old loader
  "made --resume crash", but `Trajectory.resume` parses the same file once more and raises
  (`trajectory.py:95`; `ResumeRaises` in `SessionRecord`).
- The check before a list is signed (`hard_block`, `permissions.py:343`) knows nothing of
  protected paths, nor of a deny rule about `apply_patch` itself, so such a list can be signed
  and not be carried out: `PlanExecutable` excludes protected paths, and speaks of an item's own
  call, not of the envelope around it.
- "escalate to a human" (`permissions.py:603`): past the cap a call is refused even where a
  person is present, who is not asked. `HumanBackstop` names the cap.
- With `CODE_PROPOSE_EXTEND_AFTER_APPROVAL` alone, a file change falls to a question after an
  approval but the envelope of `apply_patch` does not (`permissions.py:395`), so a move, which
  exists only there, is refused before its own relaxation (`permissions.py:775`) is reached.
- "an explicit hook DENY hard-blocks ANY tool BEFORE the engine runs" (`permissions.py:211`): a move in an
  envelope goes through `decide_move` (`permissions.py:750`), which asks no PreToolUse hook, and neither
  ask rules nor protected or secret paths. `HardRulesHold` speaks of moves only as far as deny rules and
  the fence go. (A bar given to `pursue` is decided on twice, as that call and as the command it
  is, `tools.py:1048`: two calls in `Permissions`.)
- The off-list question (`_offplan`) looks at the phase of the calling context, and a subagent's is
  never approved: `OffPlanAsked` speaks of the session's own calls.
- A process that dies in a turn leaves its steps without a label; after a resume and an exit
  `session_end` speaks of the restored count of calls (`trajectory.py:100`), so the truncated turn is a
  success, against `cli.py:395` and "drops exactly the bad turns" (`trajectory.py:253`):
  `TrainedUnlessResumed` is silent of resumed sessions.
- A directory granted through `request_dir` leaves no `dir_grant` record (`tools.py:551`), so
  a resumed session is told of access that it no longer has: `ToldIsGranted` is checked of
  the user's own grants (`Askers`).

Of the gateway, the planner and the effort:

- "escalate-only" (`effort.py:72`): a floor below what would be sent without an effort lowers it
  (`agent.py:474`). `ThinksNoLess` is about one task.
- "the SAME condition model.py retries on" (`planner.py:66`): `model.py:301` retries on another one.
- A reply whose tool arguments were cut becomes a call with none (`planner.py:59`).
- `bounded_summary` "never hands `summarize_once` more than `budget_chars`": it does when a summary does
  not shrink, or one message is beyond the budget (`SummaryBeyondBudgetFact`).
- A real window below 8000 is raised to 8000, and one below 20000 leaves less than the 12000 tokens
  kept for a reply (`BudgetsNest`). A row of `/models` without an id is taken for every model
  (`NamelessRowFact`).

Of delegation and the stores:

- The worst case of `config.py:1067` and `docs/DATASHEET.md:105` leaves out that a workflow's children may
  spawn children of their own.
- An area `src/a` counts all of `src` as covered (`orchestrator._balance_plan`); the note of
  `review_repo` offers a second review with `path`, which the same turn answers from its cache;
  `run_skill` cuts its concerns at `MAX_REVIEW_AREAS` without a word: `NothingSkipped` leaves skills out.
- "a concurrent child can read its scope but can never write/edit/delete/run" (`permissions.py:199`,
  `subagent.py:74`): the gate lets every tool that is not in `MUTATING` pass as a reader
  (`permissions.py:121`, `288`), so a child in plan mode may still append a note (`remember`), change the
  backlog (`project_todos`) or call an MCP server, side by side with its siblings. `OneWriter` speaks of the
  tools that edit; what two notes written at a time may come to is in `Stores`.
- "surface dropped-over-cap phases in the DIGEST" (`workflow.py:195`): with `CODE_WORKFLOWS_ASYNC` the
  phases over the cap are dropped before the workflow is handed to the background (`workflow.py:166`),
  and neither the answer nor the worker's digest names them; a review without a plan lists the first 40
  root files and is silent of the others (`orchestrator.py:200`), where every other cut is named
  (`orchestrator.py:230`). `NothingSkipped` names both.
- A second Ctrl-C while a pool shuts down leaves read-only children running.
- `specstore.save` "never clobbers": two sessions mint one number, and with one slug one file;
  `next_number` is 1 when the directory cannot be listed. `SpecsApart` speaks of approved specs.
- `todos.load` gives an empty list when the file cannot be read, and the next save writes it; a crash
  within a save loses what was not yet written; the learner's state likewise. `hurt` marks these.

Of the tools and the isolation:

- On Windows without the sandbox the timeout of a command reads its pipe to the end
  (`tools.py:439`), which `hooks.py:98` avoids for hooks: `CallEnds` names the place.
- The results of `AssignProcessToJobObject`, `ResumeThread` and `TerminateProcess` are not looked at
  (`winsandbox.py:265`), against "Raises SandboxUnavailable if any sandbox primitive fails"; an exception of
  `open_osfhandle` or of the reader's start (`winsandbox.py:271`, `282`) leaves `_spawn` with its handles
  open and its process running, and so does an interrupt during a wait. `Contained` names each.
  `_call_sync` of `mcp_client.py` waits without a timeout under its lock.
- "fail-open (process tree killed)" (`hooks.py:136`): a `taskkill` that exits with an error raises nothing
  and kills nothing (`hooks.py:105`). `Contained` promises nothing of a hook's processes.
- A span found by the fuzzy match takes whole lines, with the last newline (`editmatch.py:14`), so a new
  text without one runs into the line that follows. `EditsLandOnce` has it so.
- An empty `old_string` is found before every character (`tools.py:329`): with `replace_all`, or in an
  empty file, the new text is inserted at each of these places. `EditsLandOnce` has it so, too.
- A write that raises has emptied its file (`tools.py:337`, `351`) and is in no ledger; the same of
  `write_file`. `EditsLandOnce` says what is left: a beginning of the new text.
- What the verifier is given of a page is its first 3000 characters, and of all pages 12000 (`grounding.py:459`);
  the first that does not fit ends the list. `StrongestEvidence` names the pages that may be left out.
- "cross-check a semantic flag's FILESYSTEM claim against the real tree" (`grounding.py:603`): the walk
  skips six directories by name and stops at 8000 files, and the match takes the leading dots off a
  token, so a flag that denies `dist/x.js` stands although it exists, and one that affirms
  `.github/ci.yml` is dropped although it does. `JudgedByTheTurn` names the flags that the tree cannot decide.
- An honest claim of absence with a path in it is flagged by the check of cited paths
  (`grounding.py:748`, `856`): `JudgedByTheTurn` has it as the code does; a flag that
  names two files is dropped when one of them exists; the URL pattern of the ledger stops at a
  parenthesis and that of grounding does not; `_verified_ok` stays true after later edits of the turn.
- `grep` stops after the file that met its cap, so each further file of that directory adds one match
  (`GrepIsCapped`); a file that cannot be decoded gives part of its matches in a walk and an error when
  asked for (`UndecodableFact`); `glob` hides a file named like a skipped directory
  (`OneSourceOfSkips`); a negative offset of `read_file` shows wrong line numbers (`NegativeOffsetFact`);
  `grep` "accepts 'query'" but the registry refuses a call without `pattern` (`QueryAliasFact`).

Of start-up, prompts and names:

- `load_permission_rules` and `load_hooks_config` "never raise on a bad file": JSON that is a list raises,
  and a kind given as a string becomes its characters. A flag that lacks its value becomes a word of
  the task; Ctrl-C while the model warms up skips `disconnect` (`StartupFact`).
- `set_secret` opens, and so empties, the vault before it encrypts (`VaultLostFact`).
- `plan_remove` "targets exactly what a set created": on POSIX it looks in another directory; a second
  name hides the first; a removal that dies after `.env` forgets the name (`RemoveLeavesFact`).
- The web section names `web_fetch` and `web_search` when only a server offers the web; the hygiene
  section names `propose_changes` outside of propose mode (`PromptNamesOffered` has the two exceptions).
- A resumed session keeps the `tool_schemas` of its first process while it offers its own
  (`toolset.py`: "all agree").

Of evaluation and training:

- "Isolate per-task failures": the result of a task that raised has no tier, and the summary of
  the batch raises on it (`TallyCounts`).
- The gate "keeps a regression from ever being deployed": over a base that failed every task, or an
  empty suite, any student is promoted (`FailedBaseFact`).
- `build_example` "returns None if there's nothing to train on": a prompt as long as an example may
  be gives one whose labels are all masked (`NothingToLearnFact`).
- `launch_sm --no_download` followed by `merge` merges the student of before (`StaleStudentFact`).

## What is not modelled

- **Texts.** Prompts, wording, formatting, layout, the phrases that grounding looks for, the tokens of
  a message: abstracted to the few cases the control tells apart (a pattern matches or not, a section is
  there or not, a text has a length). The text guards of `prompts.py` (leaked reasoning, tool tokens,
  repetition) and the narration guards of `agent.py` are only whether they fire; `specstore` and
  `todos` are not parsed; the guardian's verdict is not.
- **Within the state modules.** The subagent branch of `Agent.run`; directories in `apply_patch`;
  truncation of one message; the restored plan of a resumed session; the tools that name no target, the
  syntax of rules; grants that a resumed session replays are in `SessionRecord`, not in `Permissions`; a wait for a
  process that itself fails; paths that are equal up to case are one path; an edit names whole lines or
  nothing; the disk reads of the nets of one judgement are one step.
- **Concurrency left out.** The event loop and the thread of `mcp_client.py`, its lock and its
  disconnect; two threads of a pool inside the permission object, which they only read
  (`OneWriter`).
- **Outside.** What a restricted token or an access list denies (guarantees of the OS), the
  tokenizer and the optimiser of the training, the endpoint's replies beyond their shape, HTTP headers and
  sampling options, most numeric options of `config.py`, the scripts and the test harness.

## Plan

Ordered by what matters most to the system; done items first.

1. *Done.* `ApplyPatch` with proofs: the tool with most failure paths.
2. *Done.* `AgentTurn` with proofs: the loop and its gates, the heart of the program.
3. *Done.* `Conversation`: what the model sees.
4. *Done.* `TaskLifecycle`, `BackgroundTasks` with proofs: the first refinement.
5. *Done.* `Corpus`, `SessionRecord`, `Flywheel`: what is remembered and what is learned, of every
   kind of run.
6. *Done.* `Permissions` with proofs: rules, modes, hooks, guardian, consent and propose mode;
   `CommandLines` for what a command does.
7. *Done.* `Gateway`, `Planner`: retries, warm-up and timeouts against a faulty endpoint, the planners
   and the effort of a task.
8. *Done.* `OrderedMap`, `Delegation`: the second refinement.
9. *Done.* `Stores`: what outlives a session.
10. *Done.* `Tools` with `Grounding`, `Web`, `Shell` and `Editing`: calls, evidence and spawned processes.
11. *Done.* `Window`, `Prompt`, `Naming`, `Startup`, `Reading`, `Scoring`, `Training`, checked over
    bounded inputs.
12. *Done.* Proofs of `Planner`, `Delegation`, `Stores` and `Flywheel`, and of what was left of
    `ApplyPatch`, `AgentTurn`, `BackgroundTasks` and `Permissions`.
13. *Done.* Proofs of `Conversation` and `Tools`.
14. The event loop of the MCP client, with its lock and its disconnect.
