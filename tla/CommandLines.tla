----------------------------- MODULE CommandLines -----------------------------
(* What a command line does, as src/execpolicy.py and src/sandbox.py read it:   *)
(* its segments, the class of each, and the places it writes to.                *)
(*                                                                              *)
(* A line is [segs, ops]: a sequence of segments and the operators between      *)
(* them.  A segment is [text, verb, sub, args, dest, redirect, flags, inner,    *)
(* subs]:                                                                       *)
(*   verb      "blank", or the table the command's name stands in: "reads",     *)
(*             "sort", "yq", "each" (ForEach-Object), "multi" (git, npm and the *)
(*             like), "copies", "tees", "dd", "shell_writes" (Out-File and the  *)
(*             like), "downloads", "shell" or "other"                           *)
(*   sub       "reads" when the subcommand of a "multi" is one that only reads  *)
(*   args      the arguments that are not options, as places                    *)
(*   dest      the place an option names (-o, of=, -Destination), or NoPlace    *)
(*   redirect  the file an output is redirected to, or NoPlace                  *)
(*   flags     subset of {"danger", "version", "inplace", "block"}; "danger"    *)
(*             when a pattern of _DANGEROUS_PATTERNS matches                    *)
(*   inner     the line an interpreter is given to run, in plain, or NoLine     *)
(*   subs      the lines it substitutes                                         *)
(* A place is [name, far, at]: far when it is absolute, names a device or goes  *)
(* through a parent, at the directory it resolves into.                         *)
EXTENDS Naturals, Sequences, FiniteSets, SequencesExt

NoPlace == [name |-> "", far |-> FALSE, at |-> ""]
NoLine  == [segs |-> <<>>, ops |-> <<>>]

ReadOnly == "read_only"
Mutating == "mutating"
Dangerous == "dangerous"

(* _split_top_level: a single & separates commands for bash and not for         *)
(* PowerShell, where what it joins stays one segment.                           *)
Joined(a, b) == [a EXCEPT !.args = @ \o b.args, !.flags = @ \cup b.flags,
                          !.subs = @ \cup b.subs,
                          !.redirect = IF @ = NoPlace THEN b.redirect ELSE @]

SplitTopLevel(line, shell) ==
  LET Cut(i) == i = 1 \/ line.ops[i - 1] # "&" \/ shell # "powershell"
      starts == SetToSortSeq({i \in DOMAIN line.segs : Cut(i)}, <)
      Run(n) == SubSeq(line.segs, starts[n],
                       IF n = Len(starts) THEN Len(line.segs) ELSE starts[n + 1] - 1)
  IN [n \in DOMAIN starts |-> FoldLeft(Joined, Run(n)[1], Tail(Run(n)))]

(* _collect: the line, what its interpreters are given to run and what it       *)
(* substitutes are all split, and so are the lines found in those.              *)
Inner(line, shell) ==
  LET own == Range(SplitTopLevel(line, shell))
  IN UNION {s.subs : s \in own} \cup {s.inner : s \in {t \in own : t.inner # NoLine}}

Level(line, shell, n) ==
  FoldLeft(LAMBDA lines, k : UNION {Inner(l, shell) : l \in lines}, {line}, [k \in 1 .. n |-> k])

LinesOf(line, shell) ==
  LET from[n \in Nat] == IF Level(line, shell, n) = {} THEN {} ELSE Level(line, shell, n) \cup from[n + 1]
  IN from[0]

SplitSegments(line, shell) == UNION {Range(SplitTopLevel(l, shell)) : l \in LinesOf(line, shell)}

------------------------------------------------------------------------------
(* classify: the first of these that applies. *)

ToFile(place) == IF place.far THEN Dangerous ELSE Mutating

(* _flag_write_class: a command that reads, told to write. *)
FlagWrites(seg) == \/ seg.verb = "sort" /\ seg.dest # NoPlace
                   \/ seg.verb = "yq" /\ "inplace" \in seg.flags

OnlyReads(seg) == \/ seg.verb \in {"reads", "sort", "yq"}
                  \/ seg.verb = "each" /\ "block" \notin seg.flags
                  \/ seg.verb = "multi" /\ seg.sub = "reads"

Classify(seg) ==
  IF seg.verb = "blank" THEN ReadOnly
  ELSE IF "danger" \in seg.flags THEN Dangerous
  ELSE IF seg.redirect # NoPlace THEN ToFile(seg.redirect)
  ELSE IF "version" \in seg.flags THEN ReadOnly
  ELSE IF FlagWrites(seg) THEN IF seg.verb = "sort" THEN ToFile(seg.dest) ELSE Mutating
  ELSE IF OnlyReads(seg) THEN ReadOnly ELSE Mutating

(* _PIPE_TO_SHELL is looked for in the line as it was written. *)
PipedToShell(line, shell) ==
  \E l \in LinesOf(line, shell) : \E i, j \in DOMAIN l.ops :
    /\ i <= j /\ l.segs[i].verb = "downloads"
    /\ l.ops[j] \in {"|", "||"} /\ l.segs[j + 1].verb = "shell"

(* assess: [worst, flagged, invalid]. *)
Assess(line, shell) ==
  LET segs == SplitSegments(line, shell)
      classes == {Classify(s) : s \in segs} \cup (IF PipedToShell(line, shell) THEN {Dangerous} ELSE {})
  IN [worst |-> CASE Dangerous \in classes -> Dangerous
                  [] Dangerous \notin classes /\ Mutating \in classes -> Mutating
                  [] OTHER -> ReadOnly,
      flagged |-> {s.text : s \in {t \in segs : Classify(t) = Dangerous}},
      invalid |-> shell = "powershell" /\ UNION {Range(l.ops) : l \in LinesOf(line, shell)} \cap {"&&", "||"} # {}]

------------------------------------------------------------------------------
(* sandbox: the places a segment's command writes to, by the kind of command. *)
CommandWriteDests(seg) ==
  CASE seg.verb = "copies" -> IF Len(seg.args) >= 2 THEN {Last(seg.args)} ELSE {}
    [] seg.verb = "tees" -> Range(seg.args)
    [] seg.verb \in {"dd", "sort"} -> {seg.dest}
    [] seg.verb = "yq" -> IF "inplace" \in seg.flags /\ seg.args # <<>> THEN {Last(seg.args)} ELSE {}
    [] seg.verb = "shell_writes" -> IF seg.dest # NoPlace THEN {seg.dest}
                                    ELSE Range(SubSeq(seg.args, 1, 1))
    [] OTHER -> {}

WriteTargets(line, shell) ==
  UNION {{s.redirect} \cup CommandWriteDests(s) : s \in SplitSegments(line, shell)} \ {NoPlace}

Escapes(line, shell, roots) ==
  IF roots = {} THEN {} ELSE {t.name : t \in {u \in WriteTargets(line, shell) : u.at \notin roots}}
==============================================================================
