------------------------------- MODULE Editing -------------------------------
(* edit_file of src/tools.py with the fallback of src/editmatch.py: where an    *)
(* edit lands, and what it leaves of the file.  A text is a sequence of lines,  *)
(* a line a record [body, ws, nl]: what it says (a sequence of words), the      *)
(* white space it starts with ("" for none), and whether a newline ends it;     *)
(* only the last line of a text may lack one.  An edit names whole lines, or    *)
(* the empty text: one line without words, white space and newline.             *)
EXTENDS Naturals, Sequences, FiniteSets, SequencesExt

NoText == <<[body |-> <<>>, ws |-> "", nl |-> FALSE]>>

Window(text, i, k) == SubSeq(text, i, i + k - 1)
Windows(text, k) == IF k = 0 \/ k > Len(text) THEN {} ELSE 1 .. (Len(text) - k + 1)

(* A string search finds `old` at a line when the lines agree, but the first    *)
(* may start inside its white space and the last may stop before its newline.   *)
StandsAt(text, old, i) ==
  \A j \in 1 .. Len(old) :
    LET t == text[i + j - 1] IN
      /\ t.body = old[j].body
      /\ old[j].ws = t.ws \/ (j = 1 /\ old[j].ws = "")
      /\ old[j].nl => t.nl

(* str.count: the occurrences, left to right, that do not overlap. *)
Occurrences(text, old) ==
  LET hits == {i \in Windows(text, Len(old)) : StandsAt(text, old, i)}
  IN CHOOSE at \in SUBSET hits :
       \A i \in hits : i \in at <=> \A j \in at : j < i => i - j >= Len(old)

(* Texts are joined as strings: a line without a newline runs into the next,    *)
(* and the white space of a joined line is the first that precedes its words.   *)
Joined(l, m) == [body |-> l.body \o m.body, nl |-> m.nl,
                 ws |-> IF l.body = <<>> /\ l.ws = "" THEN m.ws ELSE l.ws]

Glue(lines) ==
  FoldLeft(LAMBDA done, l : IF <<l>> = NoText THEN done
                            ELSE IF done = <<>> \/ Last(done).nl THEN Append(done, l)
                            ELSE Append(Front(done), Joined(Last(done), l)),
           <<>>, lines)

Put(text, i, k, new) == Glue(SubSeq(text, 1, i - 1) \o new \o SubSeq(text, i + k, Len(text)))

(* The newline and the indentation that an occurrence leaves out stay where     *)
(* they are.                                                                    *)
Fitted(new, old, text, i) ==
  [j \in DOMAIN new |->
     [new[j] EXCEPT !.ws = IF j = 1 /\ old[1].ws = "" THEN text[i].ws ELSE @,
                    !.nl = @ \/ (j = Len(new) /\ text[i + Len(old) - 1].nl /\ ~old[Len(old)].nl)]]

(* text.replace: new in the place of every occurrence of a text that is not empty. *)
ReplaceAllOf(text, old, new) ==
  LET at == Occurrences(text, old)
      Covered(j) == \E i \in at : i < j /\ j < i + Len(old)
      Piece(j) == CASE j \in at -> Fitted(new, old, text, j)
                    [] Covered(j) -> <<>>
                    [] OTHER -> <<text[j]>>
  IN Glue(FlattenSeq([j \in DOMAIN text |-> Piece(j)]))

(* The empty text stands before every character and at the end: str.count finds *)
(* it once more than there are characters.  A word, a line's white space and a  *)
(* newline stand for one character each.                                        *)
Characters(text) ==
  FlattenSeq([j \in DOMAIN text |->
    (IF text[j].ws = "" THEN <<>> ELSE <<[text[j] EXCEPT !.body = <<>>, !.nl = FALSE]>>)
      \o [k \in DOMAIN text[j].body |-> [NoText[1] EXCEPT !.body = <<text[j].body[k]>>]]
      \o (IF text[j].nl THEN <<[NoText[1] EXCEPT !.nl = TRUE]>> ELSE <<>>)])

InsertEverywhere(text, new) ==
  LET cs == Characters(text)
  IN Glue(FlattenSeq([j \in DOMAIN cs |-> Append(new, cs[j])]) \o new)

Count(text, old) == IF old = NoText THEN Len(Characters(text)) + 1
                    ELSE Cardinality(Occurrences(text, old))

Replace(text, old, new) == IF old = NoText THEN InsertEverywhere(text, new)
                           ELSE ReplaceAllOf(text, old, new)

------------------------------------------------------------------------------
(* editmatch.resolve: a graded cascade; a result is [status, at, by]. *)
Found(i, by) == [status |-> "match", at |-> i, by |-> by]
NotFound == [status |-> "not_found", at |-> 0, by |-> ""]
Ambiguous == [status |-> "ambiguous", at |-> 0, by |-> ""]

SameWords(text, old, i) == \A j \in 1 .. Len(old) : text[i + j - 1].body = old[j].body

\* Mutant of WhitespaceInsensitive: the first of several windows is taken.
FirstWindow(text, old) ==
  LET hits == {i \in Windows(text, Len(old)) : SameWords(text, old, i)}
  IN IF hits = {} THEN NotFound
     ELSE Found(CHOOSE i \in hits : \A j \in hits : i <= j, "whitespace")

WhitespaceInsensitive(text, old) ==
  LET hits == {i \in Windows(text, Len(old)) : SameWords(text, old, i)}
  IN CASE Cardinality(hits) = 1 -> Found(CHOOSE i \in hits : TRUE, "whitespace")
       [] Cardinality(hits) > 1 -> Ambiguous
       [] OTHER -> NotFound

(* difflib's ratio, counted in words: how many of the lines of the window have  *)
(* the words of old.  A line whose words differ counts a half when `near` says  *)
(* that they are nearly the same.                                               *)
Likeness(text, old, i, near) ==
  LET Score(j) == LET a == text[i + j - 1].body
                      b == old[j].body
                  IN IF a = b THEN 2 ELSE IF {a, b} \in near THEN 1 ELSE 0
  IN SumFunction([j \in 1 .. Len(old) |-> Score(j)])

(* The best window, when it reaches the threshold and no other comes within a   *)
(* tie of it; threshold and tie are in the units of Likeness.                   *)
MostSimilarChunk(text, old, near, threshold, tie) ==
  LET at == Windows(text, Len(old))
      L(i) == Likeness(text, old, i, near)
      best == CHOOSE i \in at : \A j \in at : L(i) > L(j) \/ (L(i) = L(j) /\ i <= j)
  IN IF at = {} \/ L(best) < threshold THEN NotFound
     ELSE IF \E j \in at \ {best} : L(best) - L(j) < tie THEN Ambiguous
     ELSE Found(best, "similar")

Resolve(text, old, near, threshold, tie) ==
  IF old = NoText \/ text = <<>> THEN NotFound
  ELSE LET drift == WhitespaceInsensitive(text, old)
       IN IF drift.status # "not_found" THEN drift
          ELSE MostSimilarChunk(text, old, near, threshold, tie)

(* edit_file: [ok, text, by].  A request is [old, new, all]; `fuzzy` is          *)
(* CODE_EDIT_FUZZY, near and threshold what the fuzziest tier goes by.          *)
Refused(text) == [ok |-> FALSE, text |-> text, by |-> ""]

EditFuzzily(text, e, near, threshold, tie) ==
  LET r == Resolve(text, e.old, near, threshold, tie)
  IN IF r.status = "match"
     THEN [ok |-> TRUE, text |-> Put(text, r.at, Len(e.old), e.new), by |-> r.by]
     ELSE Refused(text)

EditFile(text, e, fuzzy, near, threshold, tie) ==
  LET n == Count(text, e.old)
  IN CASE e.old = e.new \/ (n > 1 /\ ~e.all) -> Refused(text)
       [] e.old # e.new /\ n = 0 -> IF fuzzy THEN EditFuzzily(text, e, near, threshold, tie)
                                   ELSE Refused(text)
       [] OTHER -> [ok |-> TRUE, text |-> Replace(text, e.old, e.new), by |-> "exact"]
==============================================================================
