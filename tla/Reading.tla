------------------------------ MODULE Reading ------------------------------
(* How the workspace is read: read_file, grep, glob, tree and ask_user of       *)
(* src/tools.py, over what src/config.py says is skipped, kept secret or        *)
(* protected.  A path is the sequence of its names from the workspace; what     *)
(* lies outside begins with "..".                                               *)
(*                                                                              *)
(* A tree of files `fs` is [dirs, files]: the directories in the order a walk   *)
(* meets them, and files as [path, lines, decoded, binary]: which of the lines  *)
(* match, and how many are decoded before the first that is no UTF-8.  The      *)
(* settings `w` are [skip, secret, dotted, guard, here]: the names of SKIP_DIRS,*)
(* those the secret globs match, those that begin with a dot, SECRET_DENY_READ  *)
(* and the name of the workspace.                                               *)
EXTENDS Integers, Sequences, FiniteSets, SequencesExt, FiniteSetsExt

Name(path) == path[Len(path)]
SkipWalkDir(w, name, parent) ==
  \/ name \in w.skip
  \/ name = "mod" /\ (IF parent = <<>> THEN w.here ELSE Name(parent)) = "pkg"
SkipRelPath(w, rel) ==
  \/ ToSet(rel) \cap w.skip # {}
  \/ \E i \in 1 .. Len(rel) - 1 : rel[i] = "pkg" /\ rel[i + 1] = "mod"
LooksLikeDepCache(fs, path) == path \o <<"mod", "cache">> \in ToSet(fs.dirs)
IsSecret(w, rel) == w.guard /\ Name(rel) \in w.secret

(* is_protected_path: below a .git, a .env, or below or at a .env.something.    *)
IsProtected(rel) == rel # <<>> /\
  \/ \E i \in 1 .. Len(rel) - 1 : rel[i] = ".git"
  \/ Name(rel) = ".env"
  \/ ".env.local" \in ToSet(rel)

(* The directories a walk from `root` enters: no step below the root is one     *)
(* that is skipped, or hidden; what the root itself lies in is not asked.       *)
Walk(w, fs, root, hidden) ==
  SelectSeq(fs.dirs, LAMBDA d :
    /\ IsPrefix(root, d)
    /\ \A i \in Len(root) + 1 .. Len(d) : d[i] \notin hidden /\ ~SkipWalkDir(w, d[i], SubSeq(d, 1, i - 1)))
FilesIn(fs, dir) == SelectSeq(fs.files, LAMBDA f : Front(f.path) = dir)
At(fs, path) == LET i == SelectInSeq(fs.files, LAMBDA f : f.path = path) IN IF i = 0 THEN {} ELSE {fs.files[i]}

-----------------------------------------------------------------------------
(* read_file: a slice of the lines, as Python slices, each with the number that *)
(* it is shown under.                                                           *)
FromEnd(n, i) == IF i < 0 THEN Max({0, n + i}) ELSE Min({n, i})
Numbered(n, offset, limit) ==
  LET from == FromEnd(n, offset)
      to   == FromEnd(n, offset + limit)
  IN [k \in 1 .. Max({0, to - from}) |-> [line |-> from + k, shown |-> offset + k]]
ReadLimit == 2000
ReadFile(fs, path, offset, limit) ==
  LET file == At(fs, path)
  IN CASE path \in ToSet(fs.dirs) -> [is |-> "directory", lines |-> <<>>]
       [] path \notin ToSet(fs.dirs) /\ file = {} -> [is |-> "missing", lines |-> <<>>]
       [] \E f \in file : f.binary -> [is |-> "binary", lines |-> <<>>]
       [] OTHER -> [is |-> "text", lines |-> Numbered(Len((CHOOSE f \in file : TRUE).lines), offset, limit)]

-----------------------------------------------------------------------------
(* _glob_match: a pattern is the suffixes of paths that it matches and whether  *)
(* it leads with "**/"; the bare name is tried as well.                         *)
GlobMatch(rel, pat) ==
  IF pat.anywhere THEN \E i \in 1 .. Len(rel) : SubSeq(rel, i, Len(rel)) \in pat.of
  ELSE rel \in pat.of \/ <<Name(rel)>> \in pat.of

(* grep: lines are taken until there are as many as the cap, which is asked     *)
(* after a line was taken: every further file of a directory still adds one.    *)
Cap == 200
Hits(file) == SelectSeq([i \in 1 .. file.decoded |-> i], LAMBDA i : file.lines[i])
Taken(found, file) ==
  SubSeq(Hits(file), 1, Min({Len(Hits(file)), Max({1, Cap - found})}))
Matches(file, lines) == [i \in DOMAIN lines |-> <<file.path, lines[i]>>]

GrepFile(w, file) ==
  LET lines == Taken(0, file)
      ended == Len(lines) < Cap /\ file.decoded < Len(file.lines)
  IN CASE IsSecret(w, file.path) -> [ok |-> TRUE, matches |-> <<>>]
       [] ~IsSecret(w, file.path) /\ ended -> [ok |-> FALSE, matches |-> <<>>]
       [] OTHER -> [ok |-> TRUE, matches |-> Matches(file, lines)]
GrepDir(w, fs, root, matched) ==
  LET Searched(dir) == SelectSeq(FilesIn(fs, dir), LAMBDA f : ~IsSecret(w, f.path) /\ f.path \in matched)
      Search(found, f) == found \o Matches(f, Taken(Len(found), f))
      Visit(found, dir) == IF Len(found) >= Cap THEN found ELSE FoldLeft(Search, found, Searched(dir))
  IN [ok |-> TRUE, matches |-> FoldLeft(Visit, <<>>, Walk(w, fs, root, {}))]
(* A pattern is [text, compiles], `matched` the paths that the glob filter      *)
(* matches, all of them without one; `search` and `grep` are one.               *)
Grep(w, fs, pattern, path, matched) ==
  CASE pattern.text = "" \/ ~pattern.compiles -> [ok |-> FALSE, matches |-> <<>>]
    [] pattern.text # "" /\ pattern.compiles /\ At(fs, path) # {} -> GrepFile(w, CHOOSE f \in At(fs, path) : TRUE)
    [] OTHER -> GrepDir(w, fs, path, matched)

(* glob: of the paths found, those that are told, the first of them shown; the  *)
(* count is of all.                                                             *)
Glob(w, found) ==
  LET hits == {p \in found : ~SkipRelPath(w, p) /\ ~IsSecret(w, p)}
  IN [hits |-> hits, shown |-> Min({Cap, Cardinality(hits)}), more |-> Cardinality(hits) > Cap]

-----------------------------------------------------------------------------
(* tree: a line per directory, with the count of its files, and the first of    *)
(* them; a deep one is not entered, and it stops after the directory at which   *)
(* the lines reach the cap.  fs.dirs is in the order of the sorted walk.        *)
PerDir == 25
GlobalCap == 2000
Entry(w, fs, dir, root) ==
  LET n == Len(SelectSeq(FilesIn(fs, dir), LAMBDA f : ~IsSecret(w, f.path)))
  IN [dir |-> dir, depth |-> Len(dir) - Len(root), count |-> n, shown |-> Min({n, PerDir}), more |-> Max({0, n - PerDir})]
Mapped(w, fs, root, depth) ==
  SelectSeq(Walk(w, fs, root, w.dotted), LAMBDA d : Len(d) - Len(root) <= depth)
Tree(w, fs, root, depth) ==
  LET Show(map, dir) ==
        IF map.total >= GlobalCap THEN map
        ELSE LET e == Entry(w, fs, dir, root)
             IN [entries |-> Append(map.entries, e), total |-> map.total + e.shown + 1]
      map == FoldLeft(Show, [entries |-> <<>>, total |-> 0], Mapped(w, fs, root, depth))
  IN [entries |-> map.entries, total |-> map.total, truncated |-> map.total >= GlobalCap]

(* ask_user: where nobody can answer, the model is told to judge for itself.    *)
AskUser(question, asker, interactive) ==
  CASE question = "" -> "error"
    [] question # "" /\ (~asker \/ ~interactive) -> "proceed"
    [] OTHER -> "answer"
=============================================================================
