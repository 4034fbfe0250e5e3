------------------------------- MODULE Window -------------------------------
(* How much may be sent at a time: the context window of config.py and         *)
(* model.py and what is derived from it, the summary of src/context.py that    *)
(* has to fit it, and the block of src/envcontext.py that is sent every turn.  *)
(* Texts are lengths; a file of the repository under src/ is named without it. *)
EXTENDS Integers, Sequences, FiniteSets, SequencesExt, FiniteSetsExt

(* A setting as the environment holds it: unset or blank, a number, or a word. *)
Unset == [is |-> "blank", n |-> 0]
Number(n) == [is |-> "number", n |-> n]
Word(w) == [is |-> w, n |-> 0]

AsInt(raw, default) == IF raw.is = "number" THEN raw.n ELSE default

-----------------------------------------------------------------------------
(* The window and its two budgets: where a request is compacted by force, and  *)
(* what one summary may be given. *)
Least == 8000
Fallback == 131072
Budgets(window) ==
  LET w == Max({Least, window})
  IN [window |-> w, hard |-> Max({Least, w - 12000}), summary |-> Max({Least, w - 35000})]

InitialWindow(raw) == AsInt(raw, Fallback)
IsAuto(raw) == raw.is = "auto"

(* A row of the endpoint's list: the id, and the three lengths it may name.  A *)
(* row that is no record at all ends the search with nothing.                  *)
Names(id, served) ==
  \/ id = served
  \/ IsSuffix(<<"/">> \o served, id)
  \/ IsSuffix(id, served)
Lengths(row) == SelectSeq(row.lengths, LAMBDA n : n # 0)
FetchedLength(rows, served) ==
  LET broken == {i \in DOMAIN rows : rows[i].is = "broken"}
      told   == {i \in DOMAIN rows : rows[i].is = "row" /\ Names(rows[i].id, served) /\ Lengths(rows[i]) # <<>>}
      first  == Min(told)
  IN IF told = {} \/ \E i \in broken : i < first THEN 0 ELSE Lengths(rows[first])[1]

(* resolve_model_window: litellm's map first (0: unknown), then the endpoint.  *)
ResolvedWindow(raw, known, apiBase, rows, served) ==
  LET fetched == IF known = 0 /\ apiBase THEN FetchedLength(rows, served) ELSE known
  IN IF IsAuto(raw) /\ fetched # 0 THEN fetched ELSE InitialWindow(raw)

(* The cap on a reply: none (0), a fixed one, or what the window has left. *)
MinOutput == 512
Margin(raw) == Max({0, AsInt(raw, 4096)})
OutputSetting(raw) == IF IsAuto(raw) THEN 0 ELSE Max({0, AsInt(raw, 0)})
OutputCap(raw, margin, window, estimate) ==
  IF IsAuto(raw) THEN Max({MinOutput, window - estimate - margin}) ELSE OutputSetting(raw)

-----------------------------------------------------------------------------
(* A summary within a budget.  A message is [role, content], the lengths of    *)
(* the two; rendering puts "[role] " before it and a blank line between two.   *)
Rendered(m) == m.role + 3 + m.content
RenderLen(m) == Rendered(m) + 2
Sum(lengths) == FoldSeq(LAMBDA a, b : a + b, 0, lengths)
Joined(lengths) == Sum(lengths) + 2 * Max({0, Len(lengths) - 1})
Render(messages) == Joined([i \in DOMAIN messages |-> Rendered(messages[i])])

(* chunk_messages: the last group takes a message while it has room for it. *)
ChunkMessages(messages, budget) ==
  LET Size(group) == Sum([i \in DOMAIN group |-> RenderLen(group[i])])
      Add(groups, m) ==
        IF groups # <<>> /\ Size(groups[Len(groups)]) + RenderLen(m) <= budget
          THEN [groups EXCEPT ![Len(groups)] = Append(@, m)]
          ELSE Append(groups, <<m>>)
  IN FoldLeft(Add, <<>>, messages)

(* chunk_text: slices of the budget, the last of what is left; one at least. *)
ChunkText(length, budget) ==
  LET n == Max({1, (length + budget - 1) \div budget})
  IN [i \in 1 .. n |-> IF i < n THEN budget ELSE length - (n - 1) * budget]

(* bounded_summary: what summarize_once, a function of lengths, is given, *)
(* in order, and the length of what comes back.                                *)
Rounds == 20
Folded(length, budget, once) ==
  LET Result(slices) == Joined([i \in DOMAIN slices |-> once[slices[i]]])
      from[round \in 0 .. Rounds, text \in Nat] ==
        IF text <= budget \/ round = Rounds THEN [given |-> <<>>, text |-> text]
        ELSE LET slices == ChunkText(text, budget)
                 rest   == from[round + 1, Result(slices)]
             IN [given |-> slices \o rest.given, text |-> rest.text]
  IN from[0, length]

BoundedSummary(messages, budget, once) ==
  LET whole  == Render(messages)
      chunks == ChunkMessages(messages, budget)
      sizes  == [i \in DOMAIN chunks |-> Render(chunks[i])]
      parts  == [i \in DOMAIN sizes |-> once[sizes[i]]]
      folded == Folded(Joined(parts), budget, once)
  IN CASE whole <= budget -> [given |-> <<whole>>, result |-> once[whole]]
       [] whole > budget /\ Len(parts) = 1 -> [given |-> sizes, result |-> parts[1]]
       [] OTHER -> [given |-> sizes \o folded.given \o <<folded.text>>, result |-> once[folded.text]]

(* Model.summarize: what one call of the endpoint is given with its prompt. *)
Summary(messages, window, once) == BoundedSummary(messages, Budgets(window).summary * 4, once)

-----------------------------------------------------------------------------
(* The pins: what is sent with every request and never compacted.  A pin is    *)
(* the text it holds, NoPin when there is none.                                *)
NoPin == ""
NoPins == [task |-> NoPin, goal |-> NoPin, plan |-> NoPin, review |-> NoPin, env |-> NoPin]
SetTask(pins, text) == [pins EXCEPT !.review = NoPin, !.goal = NoPin, !.task = text]
SetPin(pins, slot, text) == [pins EXCEPT ![slot] = text]
BaseOrder == <<"task", "goal", "plan", "review", "env">>
Pinned(pins) == SelectSeq(BaseOrder, LAMBDA slot : pins[slot] # NoPin)

(* The environment block of a turn: its lines, in order.  `on` holds the flags *)
(* (git, shell_hints, lean, extra_hints), `effort` whether one is told.        *)
MaxDirs == 12
MaxGitFiles == 20
Listed(items, limit) ==
  [shown |-> SubSeq(items, 1, Min({limit, Len(items)})), more |-> Max({0, Len(items) - limit})]

(* _git_status: nothing without the binary, outside a repository, or on an     *)
(* error of either command; files are those of a line that is not blank.       *)
GitLine(repo, porcelain) ==
  IF repo.binary /\ repo.branch = "ok" /\ repo.status # "raises"
    THEN <<[line |-> "git", list |-> Listed(SelectSeq(porcelain, LAMBDA f : f # ""), MaxGitFiles)]>>
    ELSE <<>>

EnvContext(on, windows, effort, dirs, repo, porcelain) ==
  LET Plain(name) == [line |-> name, list |-> Listed(<<>>, 0)]
      When(p, line) == IF p THEN <<line>> ELSE <<>>
      hints == windows /\ "shell_hints" \in on
      named == SelectSeq(dirs, LAMBDA d : d # "")
  IN <<Plain("header"), Plain("cwd"), Plain("os"), Plain("shell"), Plain("date")>>
     \o When(effort, Plain("effort"))
     \o When(hints, Plain(IF "lean" \in on THEN "lean shell rules" ELSE "shell rules"))
     \o When(hints /\ "extra_hints" \in on, Plain("more shell rules"))
     \o When(named # <<>>, [line |-> "granted dirs", list |-> Listed(named, MaxDirs)])
     \o (IF "git" \in on THEN GitLine(repo, porcelain) ELSE <<>>)
=============================================================================
