------------------------------ MODULE Grounding ------------------------------
(* The grounding check of src/grounding.py: which claims of a closing answer    *)
(* are not backed by the files, the commands and the pages of the turn.  Every  *)
(* function of the source is an operator over an abstract answer: a set of      *)
(* sentences, each a record of what the source's patterns find in it.           *)
(*                                                                            *)
(*   says      subset of {"success", "runtime", "done", "absent"}: the          *)
(*             vocabularies that match (_SUCCESS, _RUNTIME_SUCCESS,             *)
(*             _MUTATION_DONE with _FILE_REF, _ABSENCE)                         *)
(*   hedged    _HEDGED matches;   negated  _MUT_NEGATED matches                 *)
(*   own       _MUT_FIRST_PERSON or _MUT_DIRECTIONAL matches                    *)
(*   flat      _ABSENCE_PREDICATE matches;   meta  _ABSENCE_META matches        *)
(*   quotes    the quoted tokens;   links  the URLs as they are written         *)
(*                                                                            *)
(* A token is a record [path, form, ext, looks]: path is the sequence of names  *)
(* it normalises to, form "local", "url" or "absolute", ext "code", "other",    *)
(* "known" (Dockerfile and the like) or "none", looks "file", "date" or "host". *)
(* A URL is a record [page, as]: two spellings of one page differ in `as`.      *)
EXTENDS Naturals, FiniteSets, Sequences, SequencesExt

(* A workspace: `files` is a set of paths, `hollow` the directories without a   *)
(* file, `vast` says that it has more directories than is_greenfield enters.    *)
(* A directory exists when a file or a hollow directory lies below it.          *)
Within(d, p) == Len(d) < Len(p) /\ IsPrefix(d, p)
IsFile(w, p) == p \in w.files
HasEntries(w, p) == \E f \in w.files \cup w.hollow : Within(p, f)
Exists(w, p) == IsFile(w, p) \/ HasEntries(w, p) \/ p \in w.hollow

------------------------------------------------------------------------------
(* What the answer names *)

Local(t) == t.form = "local"
Slash(t) == Len(t.path) > 1

(* cited_paths: broad for the verifier, narrow for a check without a model. *)
Broad(t) == Local(t) /\ (Slash(t) \/ t.ext \in {"code", "other"})
Narrow(t) == /\ Local(t) /\ t.ext = "code"
             /\ t.looks # "date"
             /\ ~(Slash(t) /\ t.looks = "host")

CitedPaths(tokens, strict) ==
  {t.path : t \in {u \in tokens : IF strict THEN Narrow(u) ELSE Broad(u)}}

(* _strict_paths: with noext, the well-known files without an extension too. *)
StrictPaths(tokens, noext) ==
  CitedPaths(tokens, TRUE)
    \cup {t.path : t \in {u \in tokens : noext /\ Local(u) /\ u.ext = "known"}}

Quoted(answer) == UNION {s.quotes : s \in answer}
CitedUrls(answer) == {l.page : l \in UNION {s.links : s \in answer}}

AbsenceClaim(answer) == \E s \in answer : "absent" \in s.says

------------------------------------------------------------------------------
(* The nets that need no model; each returns a set of problems [net, about],     *)
(* about being the set of paths or pages (as sequences) a problem names.        *)
Problem(net, about) == [net |-> net, about |-> about]

AbsenceContradictions(answer, w, on) ==
  {Problem("absence", {p}) : p \in
     UNION {{q \in CitedPaths(s.quotes, FALSE) : IsFile(w, q) \/ HasEntries(w, q)} :
            s \in {t \in answer : /\ "absent" \in t.says
                                  /\ on.absenceStrict => t.flat /\ ~t.meta}}}

UnverifiedSuccess(answer, verified) ==
  IF ~verified /\ \E s \in answer : "success" \in s.says /\ ~s.hedged
  THEN {Problem("success", {})} ELSE {}

UnverifiedRuntime(answer, reached) ==
  IF ~reached /\ \E s \in answer : "runtime" \in s.says /\ ~s.hedged /\ ~s.negated
  THEN {Problem("runtime", {})} ELSE {}

UnbackedMutation(answer, mutations) ==
  IF /\ mutations = {}
     /\ \E s \in answer : "done" \in s.says /\ ~s.hedged /\ ~s.negated /\ s.own
  THEN {Problem("mutation", {})} ELSE {}

(* The read-ledger is a sequence of [url, tier], in the order its keys were     *)
(* first put there (a dict of the source).                                      *)
Ledgered(fetched) == {fetched[i].url.page : i \in DOMAIN fetched}

WebCitationProblems(answer, fetched) ==
  {Problem("web", {<<u>>}) : u \in CitedUrls(answer) \ Ledgered(fetched)}

(* _cited_fetched: one entry for a cited page, a fetched one before a surfaced  *)
(* one when several spellings were recorded.                                    *)
\* Mutant of BestEntry: the first spelling that was recorded, whatever it holds.
FirstEntry(fetched, page) ==
  LET here == {i \in DOMAIN fetched : fetched[i].url.page = page}
  IN fetched[CHOOSE i \in here : \A j \in here : i <= j]

BestEntry(fetched, page) ==
  LET here == {i \in DOMAIN fetched : fetched[i].url.page = page}
      full == {i \in here : fetched[i].tier = "fetched"}
  IN fetched[CHOOSE i \in IF full # {} THEN full ELSE here :
               \A j \in IF full # {} THEN full ELSE here : i <= j]

(* The sources are taken in the order of their addresses (`rank`), each cut at  *)
(* _WEB_SRC_CAP characters, up to the first that would make more than           *)
(* _WEB_SRC_TOTAL of all: `fits` of them, as long as the pages happen to be.    *)
Recorded(answer, fetched) == CitedUrls(answer) \cap Ledgered(fetched)

Ahead(u, known, rank) == {v \in known : rank[v] < rank[u]}

CitedFetched(answer, fetched, rank, fits) ==
  LET known == Recorded(answer, fetched)
  IN [u \in {v \in known : Cardinality(Ahead(v, known, rank)) < fits} |-> BestEntry(fetched, u)]

(* _present_path_problems: a bare name is never flagged; a path with a          *)
(* directory must exist or be a change of this turn.                            *)
PresentPathProblems(answer, w, mutations, noext) ==
  {Problem("path", {p}) : p \in
     {q \in StrictPaths(Quoted(answer), noext) :
        Len(q) > 1 /\ q \notin mutations /\ ~Exists(w, q)}}

(* is_greenfield: at most `most` files, the hidden and the generated not        *)
(* counted, in a tree of no more directories than the walk enters.              *)
IsGreenfield(w, hidden, most) == ~w.vast /\ Cardinality(w.files \ hidden) <= most

------------------------------------------------------------------------------
(* The verifier: a child that answers with flags, or with nothing usable, which *)
(* counts as no problem; a verdict is [usable, flags].  A flag is a record [names, place, denies, affirms]:   *)
(* the paths it names, those it names as a place ("in X"), and whether it says  *)
(* that something is absent or present.                                         *)
SemanticProblems(verdict) == IF verdict.usable THEN verdict.flags ELSE {}

(* _repo_paths: the files the walk meets, at most `cap` of them and in any      *)
(* order, none below a directory it skips (`unwalked`).                         *)
RepoPaths(w, unwalked, cap) ==
  LET open == w.files \ unwalked
  IN IF Cardinality(open) <= cap THEN {open} ELSE {S \in SUBSET open : Cardinality(S) = cap}

(* _token_matches_path: a file of the walk ends with the token, whose leading   *)
(* dots are taken off: `bare` gives the rest of a name that begins with a dot.  *)
Stripped(p, bare) == IF Head(p) \in DOMAIN bare THEN <<bare[Head(p)]>> \o Tail(p) ELSE p
Matches(p, seen, bare) == \E f \in seen : IsSuffix(Stripped(p, bare), f)

(* drop_contradicted_flags: the walk decides over a flag about existence. *)
DropContradicted(flags, seen, bare) ==
  {f \in flags :
     \/ f.names = {}
     \/ /\ ~(f.denies /\ \E p \in f.names \ f.place : Matches(p, seen, bare))
        /\ ~(f.affirms /\ ~f.denies /\ \A p \in f.names : ~Matches(p, seen, bare))}

(* problems, in two parts, since a verifier works a while between them: what    *)
(* the nets find, with the question whether a verifier is asked, and what is    *)
(* left of its flags.  ctx is [depth, w, hidden, verified, reached, fetched,    *)
(* mutations, spawn]; `on` holds the settings.                                  *)
Greenfield(ctx, on) == on.skipGreenfield /\ IsGreenfield(ctx.w, ctx.hidden, on.greenfieldMax)
EmptyWorkspace(ctx, on) == Greenfield(ctx, on) /\ IsGreenfield(ctx.w, ctx.hidden, 0)

Deterministic(answer, ctx, on) ==
  AbsenceContradictions(answer, ctx.w, on)
    \cup UnverifiedSuccess(answer, ctx.verified)
    \cup (IF on.runtimeDone THEN UnverifiedRuntime(answer, ctx.reached) ELSE {})
    \cup (IF on.web THEN WebCitationProblems(answer, ctx.fetched) ELSE {})
    \cup (IF on.mutationClaims THEN UnbackedMutation(answer, ctx.mutations) ELSE {})

Asks(answer, ctx, on) ==
  \/ ~Greenfield(ctx, on) /\ CitedPaths(Quoted(answer), FALSE) # {}
  \/ AbsenceClaim(answer) /\ ~EmptyWorkspace(ctx, on)
  \/ on.web /\ Recorded(answer, ctx.fetched) # {}     \* the first source always fits

Semantic(ctx, on) == on.semantic /\ ctx.spawn

Consults(answer, ctx, on) == ctx.depth = 0 /\ Semantic(ctx, on) /\ Asks(answer, ctx, on)

NetProblems(answer, ctx, on) ==
  IF ctx.depth # 0 THEN {}
  ELSE Deterministic(answer, ctx, on)
         \cup (IF ~Greenfield(ctx, on) /\ (on.paths \/ ~Semantic(ctx, on))
               THEN PresentPathProblems(answer, ctx.w, ctx.mutations, on.paths) ELSE {})

FlagsLeft(verdict, on, seen, bare) ==
  LET flags == SemanticProblems(verdict)
  IN IF on.antiCollapse THEN DropContradicted(flags, seen, bare) ELSE flags

==============================================================================
