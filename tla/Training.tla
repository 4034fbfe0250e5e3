------------------------------ MODULE Training ------------------------------
(* From records to a served student: the rows of train/convert.py and what it   *)
(* reports, the examples and exits of train/sft.py, the job of                  *)
(* train/launch_sm.py and the merge of train/merge.py.                          *)
(*                                                                              *)
(* A record is [type, ...]: a "turn" holds a message; a "model_call" what was   *)
(* sent and its response [content, reasoning, calls]; a "tool_call" its ok and  *)
(* retry; a "turn_outcome" its turn.  A content is the pieces of a text,        *)
(* "preamble" for leaked reasoning that can be cut.                             *)
EXTENDS Integers, Sequences, FiniteSets, SequencesExt, FiniteSetsExt, Functions, Folds

(* _assistant_from_response: the reasoning of a tool-calling reply is folded    *)
(* into its content; _step_row then strips that of a final answer.              *)
Strip(content) == SelectSeq(content, LAMBDA piece : piece # "preamble")
Completion(response) ==
  IF response.calls = <<>> THEN [content |-> Strip(response.content), calls |-> <<>>]
  ELSE [content |-> response.reasoning \o response.content, calls |-> response.calls]

(* to_rows: a step is a model call with the tool calls that follow it, up to    *)
(* the next model call or the end of its turn; its prefix the messages so far.  *)
Of(rs, type) == SelectSeq([i \in DOMAIN rs |-> i], LAMBDA i : rs[i].type = type)
CallsOf(rs, p) ==
  LET ends == {q \in p + 1 .. Len(rs) : rs[q].type \in {"model_call", "turn_outcome"}} \cup {Len(rs) + 1}
  IN SelectSeq(Of(rs, "tool_call"), LAMBDA q : q > p /\ q < Min(ends))
PrefixRaw(rs, p) == LET before == SelectSeq(Of(rs, "turn"), LAMBDA q : q < p)
                    IN [i \in DOMAIN before |-> rs[before[i]].message]
Row(rs, p, view) ==
  LET raw  == PrefixRaw(rs, p)
      used == IF view = "raw" /\ raw # <<>> THEN "raw"
              ELSE IF view = "as_sent" THEN "as_sent" ELSE "as_sent_fallback"
      calls == CallsOf(rs, p)
  IN [messages |-> IF used = "raw" THEN raw ELSE rs[p].sent,
      completion |-> Completion(rs[p].response), view |-> used,
      oks |-> {rs[calls[i]].ok : i \in DOMAIN calls},
      maxRetry |-> Max({0} \cup {rs[calls[i]].retry : i \in DOMAIN calls})]

(* `kept` are the turns to train on; without a label all is one.                *)
TurnOf(rs, p) == LET l == SelectLastInSubSeq(rs, 1, p, LAMBDA r : r.type = "turn_outcome")
                 IN IF l = 0 THEN 1 ELSE rs[l].turn + 1
ToRows(rs, kept, view) ==
  LET steps == SelectSeq(Of(rs, "model_call"), LAMBDA p : Of(rs, "turn_outcome") = <<>> \/ TurnOf(rs, p) \in kept)
  IN [i \in DOMAIN steps |-> Row(rs, steps[i], view)]

(* The schemas of a row: those its session logged, or the current ones.         *)
ToolsForSession(logged, current) ==
  IF logged # {} THEN [tools |-> logged, from |-> "logged"] ELSE [tools |-> current, from |-> "reattached"]

(* main: each session is left out as the gate's, dropped for a reason, or kept  *)
(* with its rows.  A session is [eval, records, verdict, kept, tools], verdict  *)
(* "kept" or the reason it is not.                                              *)
Fate(s, view) ==
  CASE s.records = <<>> -> "empty"
    [] s.records # <<>> /\ s.verdict # "kept" -> s.verdict
    [] s.records # <<>> /\ s.verdict = "kept" /\ ToRows(s.records, s.kept, view) = <<>> -> "no_model_calls"
    [] OTHER -> "kept"
Report(sessions, view, current) ==
  LET corpus == SelectSeq(sessions, LAMBDA s : ~s.eval)
      good   == SelectSeq(corpus, LAMBDA s : Fate(s, view) = "kept")
      bad    == SelectSeq(corpus, LAMBDA s : Fate(s, view) # "kept")
      rows   == FlattenSeq([i \in DOMAIN good |-> ToRows(good[i].records, good[i].kept, view)])
      From(src) == Len(SelectSeq(good, LAMBDA s : ToolsForSession(s.tools, current).from = src))
  IN [total |-> Len(corpus), excluded |-> Len(sessions) - Len(corpus), kept |-> Len(good), rows |-> rows,
      dropped |-> [r \in {Fate(bad[i], view) : i \in DOMAIN bad} |-> Len(SelectSeq(bad, LAMBDA s : Fate(s, view) = r))],
      reattached |-> From("reattached"), logged |-> From("logged"), warns |-> From("reattached") > 0]

-----------------------------------------------------------------------------
(* build_example: a template renders the prompt and the whole; a label is the   *)
(* token to learn, or Masked.  A template that cannot render the calls is       *)
(* replaced by flat text, which always begins with its prompt.                  *)
Masked == "-100"
NoExample == [ids |-> <<>>, labels |-> <<>>]
BuildExample(prompt, full, maxLen) ==
  LET n == IF IsPrefix(prompt, full) THEN Len(prompt) ELSE Min({Len(prompt), Len(full)})
      all == [i \in DOMAIN full |-> IF i <= n THEN Masked ELSE full[i]]
      cut == Min({Len(full), maxLen})
  IN IF n >= Len(full) THEN NoExample
     ELSE [ids |-> SubSeq(full, 1, cut), labels |-> SubSeq(all, 1, cut)]
Flat(prompt, target, eos) == prompt \o target \o eos
Example(row, maxLen, eos) ==
  IF row.renders THEN BuildExample(row.prompt, row.full, maxLen)
  ELSE BuildExample(row.flat, Flat(row.flat, row.target, eos), maxLen)

(* sft.main over the files of its host: which dataset, where to, and the exit.  *)
DefaultData == "dataset"
DefaultOut == "student"
SmokeRows == 64
DataOf(host, setting) ==
  CASE host.channel # "" -> IF host.channel \in DOMAIN host.files THEN host.channel ELSE "directory"
    [] host.channel = "" /\ "bundled" \in DOMAIN host.files /\ setting \notin DOMAIN host.files -> "bundled"
    [] OTHER -> setting
OutOf(host, setting) == IF host.modelDir # "" THEN host.modelDir ELSE setting
Examples(rows, args, eos) ==
  LET taken == IF args.smoke THEN SubSeq(rows, 1, Min({SmokeRows, Len(rows)})) ELSE rows
  IN SelectSeq([i \in DOMAIN taken |-> Example(taken[i], args.maxLen, eos)], LAMBDA e : e # NoExample)
Sft(host, args, eos) ==
  LET data == DataOf(host, args.data)
      examples == IF data \in DOMAIN host.files THEN Examples(host.files[data], args, eos) ELSE <<>>
      Exit(code) == [code |-> code, out |-> "", trained |-> <<>>, base |-> ""]
  IN CASE args.model = "" /\ ~args.smoke -> Exit(2)
       [] (args.model # "" \/ args.smoke) /\ (~host.sdk \/ examples = <<>>) -> Exit(1)
       [] OTHER -> [code |-> 0, out |-> OutOf(host, args.out), trained |-> examples,
                    base |-> IF args.model # "" THEN args.model ELSE "smoke"]

-----------------------------------------------------------------------------
(* launch_sm: the dataset is bundled with the script, the job runs it with the  *)
(* flags below, and what it leaves in its model directory is unpacked over the  *)
(* local student.  `disk` is [data, student]: the rows, the adapter, and "none" *)
(* when there is none.                                                          *)
HyperParameters == {"model", "epochs", "lr", "batch", "grad-accum", "max-len", "load-4bit"}
SftArguments == HyperParameters \cup {"data", "out", "smoke"}
Staged(data) == [channel |-> "", modelDir |-> "artifact", sdk |-> TRUE,
                 files |-> [f \in {"bundled"} |-> data]]
Launch(host, disk, args, eos) ==
  LET job == Sft(Staged(disk.data), [model |-> args.model, data |-> DefaultData, out |-> DefaultOut,
                                     smoke |-> FALSE, maxLen |-> args.maxLen], eos)
      Exit == [disk |-> disk, exited |-> TRUE]
  IN IF ~host.role \/ ~disk.present \/ ~host.sdk \/ job.code # 0 THEN Exit
     ELSE [disk |-> IF args.download THEN [disk EXCEPT !.student = [of |-> job.trained, base |-> job.base]] ELSE disk,
           exited |-> FALSE]

(* merge: the base an adapter names, unless one is given, with the adapter in   *)
(* it, beside the adapter.                                                      *)
NoAdapter == [of |-> <<>>, base |-> ""]
Merge(disk, base, sdk) ==
  LET chosen == IF base # "" THEN base ELSE disk.student.base
  IN IF disk.student = NoAdapter \/ chosen = "" \/ ~sdk THEN [code |-> 1, of |-> <<>>, base |-> ""]
     ELSE [code |-> 0, of |-> disk.student.of, base |-> chosen]
=============================================================================
