-------------------------- MODULE Flywheel_proofs ---------------------------
(***************************************************************************)
(* Theorems about Flywheel, for any scenarios: any number of turns, acts,  *)
(* grants, processes and children.  The lists that each action appends are *)
(* described once (... Logs); the held-out gate, the fence and the order   *)
(* of the files then have an invariant each.                               *)
(***************************************************************************)
EXTENDS Flywheel, FiniteSetTheorems, WellFoundedInduction, TLAPS

-----------------------------------------------------------------------------
(* The records there are.                                                  *)

Judged  == {"permission", "model_call", "verification", "manifest", "spec"}
Types   == Judged \cup {"session_start", "session_resume", "session_end", "turn_outcome",
                        "dir_grant", "turn", "tool_call", "torn"}
Endings == Terminations \cup {"", "session_end", "exception", "error"}
Dirs    == UNION {s.dirs : s \in Scenarios}
Texts   == {"path"}

Recs == [type : Types, ok : BOOLEAN, turn : Nat, ended : Endings, first : BOOLEAN, refuses : BOOLEAN,
         cites : SUBSET Texts, shows : SUBSET Texts, child : BOOLEAN, dirs : SUBSET Dirs, by : Nat]

\* What is written outside of a turn, and in turn n.
Idle(r) ==
  /\ r \in Recs /\ r.by = 0 /\ r.ok = TRUE
  /\ r.type \in {"session_start", "session_resume", "dir_grant", "turn", "torn"}

InTurn(r, n) ==
  /\ r \in Recs /\ r.by = n
  /\ r.type \in Judged \cup {"tool_call", "turn"}
  /\ r.ok = TRUE \/ r.type \in Judged

LEMMA RecordFields ==
  ASSUME NEW type \in Types, NEW ok \in BOOLEAN, NEW by \in Nat
  PROVE  /\ Record(type, ok, by) \in Recs
         /\ Record(type, ok, by).type = type /\ Record(type, ok, by).ok = ok
         /\ Record(type, ok, by).by = by
BY DEF Record, Recs, Endings

LEMMA IdleRecord ==
  ASSUME NEW type \in {"session_start", "session_resume", "torn"}
  PROVE  Idle(Record(type, TRUE, 0)) /\ Record(type, TRUE, 0).type = type
<1>1. PICK yes \in BOOLEAN : yes = TRUE
  OBVIOUS
<1>2. type \in Types
  BY DEF Types
<1>3. Record(type, yes, 0) \in Recs /\ Record(type, yes, 0).type = type
      /\ Record(type, yes, 0).ok = yes /\ Record(type, yes, 0).by = 0
  BY <1>2, RecordFields
<1> QED
  BY <1>1, <1>3 DEF Idle

LEMMA ChildRecord ==
  LET r == [Record("session_start", TRUE, 0) EXCEPT !.child = TRUE]
  IN  Idle(r) /\ r.type = "session_start"
BY DEF Record, Recs, Idle, Types, Endings

LEMMA DirsRecord ==
  ASSUME NEW type \in {"dir_grant", "turn"}, NEW D \in SUBSET Dirs, NEW by \in Nat
  PROVE  LET r == [Record(type, TRUE, by) EXCEPT !.dirs = D]
         IN  /\ r \in Recs /\ r.type = type /\ r.by = by /\ r.dirs = D /\ r.ok = TRUE
BY DEF Record, Recs, Types, Endings

LEMMA TurnRecord ==
  ASSUME NEW type \in Judged \cup {"tool_call"}, NEW ok \in BOOLEAN, NEW n \in Nat,
         type = "tool_call" => ok = TRUE
  PROVE  InTurn(Record(type, ok, n), n) /\ Record(type, ok, n).type = type
<1>1. type \in Types
  BY DEF Types
<1> QED
  BY <1>1, RecordFields DEF InTurn

LEMMA CallRecord ==
  ASSUME NEW n \in Nat, NEW shows \in SUBSET Texts
  PROVE  LET r == [Record("tool_call", TRUE, n) EXCEPT !.shows = shows]
         IN  InTurn(r, n) /\ r.type = "tool_call"
BY DEF Record, Recs, InTurn, Types, Endings

LEMMA LabelRecord ==
  ASSUME turns \in Nat, serial \in Nat, NEW t \in Terminations \cup {"error"}
  PROVE  /\ Outcome(t) \in Recs /\ Outcome(t).type = "turn_outcome"
         /\ Outcome(t).by = serial /\ Outcome(t).turn = turns /\ Outcome(t).ended = t
         /\ Outcome(t).ok = TRUE => t = "completed"
<1>1. PICK ok \in BOOLEAN : ok = Completed(t, Own({"tool_call"}))
  BY DEF Completed
<1>2. Outcome(t) = [Record("turn_outcome", ok, serial) EXCEPT !.turn = turns, !.ended = t]
  BY <1>1 DEF Outcome
<1>3. ok = TRUE => t = "completed"
  BY <1>1 DEF Completed
<1> QED
  BY <1>2, <1>3 DEF Record, Recs, Types, Endings

LEMMA EndRecord ==
  ASSUME NEW ok \in BOOLEAN, NEW t \in Endings, NEW by \in Nat
  PROVE  /\ End(ok, t, by) \in Recs /\ End(ok, t, by).type = "session_end"
         /\ End(ok, t, by).ok = ok /\ End(ok, t, by).ended = t /\ End(ok, t, by).by = by
BY DEF End, Record, Recs, Types

-----------------------------------------------------------------------------
(* Where the programs are.                                                 *)

Places  == {"prompt", "telling", "turn", "returned", "off", "lost", "idle"}
Homes   == {"sessions", "eval", "corpus", "none"}
Handing == {"", "eval", "corpus"}
Runs    == {"session", "task", "behaviour", "child"}
Frames  == [kind : Runs, home : Homes, handed : Handing, file : Seq(Recs), toolCalls : Nat]
Filings == [home : Homes, records : Seq(Recs), gate : BOOLEAN]

TypeOK ==
  /\ scope \in Scenarios /\ program \in {"session", "gate", "capture"}
  /\ pc \in Places /\ solo \in BOOLEAN
  /\ file \in Seq(Recs)
  /\ turns \in Nat /\ toolCalls \in Nat /\ serial \in Nat /\ lives \in Nat /\ children \in Nat
  /\ fence \in SUBSET Dirs /\ granting \in SUBSET Dirs
  /\ jobs \in Seq({"task", "behaviour"})
  /\ kind \in Runs \cup {"none"} /\ home \in Homes /\ handed \in Handing
  /\ stack \in Seq(Frames) /\ over \in SUBSET Filings

\* Who runs: a session or a task, with children above it while it is in its turn.
Stacked ==
  /\ kind = "none" => file = <<>> /\ pc \in {"idle", "off"}
  /\ kind \in Runs => pc # "idle"
  /\ kind \in {"task", "behaviour", "child"} => pc \in {"turn", "returned"}
  /\ kind = "child" <=> stack # <<>>
  /\ \A n \in DOMAIN stack : stack[n].kind = "child" <=> n # 1
  /\ stack # <<>> => (stack[1].kind = "session" <=> program = "session")
  /\ program = "session" => jobs = <<>> /\ kind \notin {"task", "behaviour"} /\ pc # "idle"
  /\ program # "session" => kind # "session"
  /\ pc \in {"turn", "returned"} => serial # 0

TypeInv == TypeOK /\ Stacked

LEMMA Single == ASSUME NEW S, NEW list \in {<<>>} \cup {<<x>> : x \in S} PROVE list \in Seq(S)
<1>1. CASE list = <<>>
  BY <1>1
<1>2. CASE list # <<>>
  <2>1. PICK x \in S : list = <<x>>
    BY <1>2
  <2>2. <<x>> \in Seq(S)
    OBVIOUS
  <2> QED
    BY <2>1, <2>2
<1> QED
  BY <1>1, <1>2

\* A list of one or no verdict, made into records.
LEMMA Verdicts ==
  ASSUME NEW type \in Judged, NEW n \in Nat, NEW list \in {<<>>} \cup {<<ok>> : ok \in BOOLEAN}
  PROVE  LET t == [k \in DOMAIN list |-> Record(type, list[k], n)]
         IN  t \in Seq(Recs) /\ \A i \in DOMAIN t : InTurn(t[i], n) /\ t[i].type = type
<1> DEFINE t == [k \in DOMAIN list |-> Record(type, list[k], n)]
<1>1. list \in Seq(BOOLEAN) /\ Len(list) \in Nat /\ DOMAIN list = 1..Len(list)
  <2>1. list \in Seq(BOOLEAN)
    BY Single
  <2> QED
    BY <2>1
<1>2. \A k \in DOMAIN list : list[k] \in BOOLEAN
  BY <1>1
<1>3. type # "tool_call"
  BY DEF Judged
<1>4. \A k \in DOMAIN list :
        InTurn(Record(type, list[k], n), n) /\ Record(type, list[k], n).type = type
  <2> SUFFICES ASSUME NEW k \in DOMAIN list
               PROVE  InTurn(Record(type, list[k], n), n) /\ Record(type, list[k], n).type = type
    OBVIOUS
  <2>1. PICK ok \in BOOLEAN : ok = list[k]
    BY <1>2
  <2>2. InTurn(Record(type, ok, n), n) /\ Record(type, ok, n).type = type
    <3>1. type \in Judged \cup {"tool_call"} /\ (type = "tool_call" => ok = TRUE)
      BY <1>3
    <3> QED
      BY <3>1, TurnRecord, Zenon
  <2> QED
    BY <2>1, <2>2
<1>5. \A k \in DOMAIN list : Record(type, list[k], n) \in Recs
  BY <1>4 DEF InTurn
<1>6. t \in Seq(Recs) /\ DOMAIN t = DOMAIN list
  BY <1>1, <1>5
<1> QED
  BY <1>4, <1>6

\* Two lists that have only records of one kind make one that has.
LEMMA JoinAll ==
  ASSUME NEW s \in Seq(Recs), NEW t \in Seq(Recs), NEW S,
         \A i \in DOMAIN s : s[i] \in S, \A i \in DOMAIN t : t[i] \in S
  PROVE  s \o t \in Seq(Recs) /\ \A i \in DOMAIN (s \o t) : (s \o t)[i] \in S
<1>1. /\ Len(s) \in Nat /\ Len(t) \in Nat /\ DOMAIN s = 1..Len(s) /\ DOMAIN t = 1..Len(t)
      /\ s \o t \in Seq(Recs) /\ DOMAIN (s \o t) = 1..(Len(s) + Len(t))
      /\ \A i \in 1..Len(s) : (s \o t)[i] = s[i]
      /\ \A i \in (Len(s) + 1)..(Len(s) + Len(t)) : (s \o t)[i] = t[i - Len(s)]
  OBVIOUS
<1>2. \A i \in (Len(s) + 1)..(Len(s) + Len(t)) : i - Len(s) \in DOMAIN t
  BY <1>1
<1>3. \A i \in DOMAIN (s \o t) : i \in 1..Len(s) \/ i \in (Len(s) + 1)..(Len(s) + Len(t))
  BY <1>1
<1> QED
  BY <1>1, <1>2, <1>3

\* What the agent may write in a turn: of a directory, only what it was granted.
Turnwise(n) ==
  {r \in Recs : InTurn(r, n) /\ (r.type = "turn" => "agent" \in scope.askers /\ r.dirs \subseteq fence')}

LEMMA TurnLogs ==
  ASSUME TypeInv, UNCHANGED scope, Think \/ Use \/ Request \/ Check \/ Finish
  PROVE  /\ pc = "turn" /\ pc' \in {"turn", "returned"} /\ toolCalls' \in Nat
         /\ UNCHANGED <<solo, turns, granting, serial, lives>>
         /\ fence \subseteq fence' /\ fence' \in SUBSET Dirs
         /\ "agent" \notin scope.askers => fence' = fence
         /\ \E t \in Seq(Recs) : file' = file \o t /\ \A i \in DOMAIN t : t[i] \in Turnwise(serial)
<1>1. serial \in Nat /\ fence \in SUBSET Dirs /\ toolCalls \in Nat /\ pc \in Places /\ scope \in Scenarios
  BY DEF TypeInv, TypeOK
<1>2. \A r : InTurn(r, serial) /\ r.type # "turn" => r \in Turnwise(serial)
  BY DEF Turnwise, InTurn
<1>3. CASE Think
  <2>1. PICK a \in scope.answers :
          file' = file \o <<[Record("model_call", a # "loop", serial) EXCEPT
                !.first = Own({"model_call"}) = {}, !.refuses = a = "refusal",
                !.cites = IF a = "phantom" THEN {"path"} ELSE {}]>>
    BY <1>3 DEF Think, Log
  <2>2. PICK ok \in BOOLEAN, f \in BOOLEAN, d \in BOOLEAN, C \in SUBSET Texts :
          /\ ok = (a # "loop") /\ f = (Own({"model_call"}) = {}) /\ d = (a = "refusal")
          /\ C = IF a = "phantom" THEN {"path"} ELSE {}
    BY DEF Texts
  <2> DEFINE r == [Record("model_call", ok, serial) EXCEPT !.first = f, !.refuses = d, !.cites = C]
  <2>4. file' = file \o <<r>>
    BY <2>1, <2>2
  <2>same. r = [Record("model_call", ok, serial) EXCEPT !.first = f, !.refuses = d, !.cites = C]
    OBVIOUS
  <2> HIDE DEF r
  <2>3. InTurn(r, serial) /\ r.type = "model_call"
    BY <1>1, <2>same DEF Record, Recs, InTurn, Types, Judged, Endings
  <2>5. <<r>> \in Seq(Recs) /\ \A i \in DOMAIN <<r>> : <<r>>[i] \in Turnwise(serial)
    BY <1>2, <2>3 DEF InTurn
  <2> QED
    BY <1>1, <1>3, <2>4, <2>5 DEF Think, Acting
<1>4. CASE Use
  <2>1. PICK allowed \in BOOLEAN, shows \in {{}} \cup {{"path"} : a \in scope.answers \cap {"phantom"}} :
          file' = file \o <<Record("permission", allowed, serial),
             [Record("tool_call", TRUE, serial) EXCEPT !.shows = shows]>>
    BY <1>4 DEF Use, Log
  <2> DEFINE r == Record("permission", allowed, serial)
             s == [Record("tool_call", TRUE, serial) EXCEPT !.shows = shows]
  <2>2. shows \in SUBSET Texts
    BY DEF Texts
  <2>3. InTurn(s, serial) /\ s.type = "tool_call"
    BY <1>1, <2>2, CallRecord
  <2>4. InTurn(r, serial) /\ r.type = "permission"
    BY <1>1, TurnRecord DEF Judged
  <2>5. file' = file \o <<r, s>>
    BY <2>1
  <2> HIDE DEF r, s
  <2>6. <<r, s>> \in Seq(Recs) /\ \A i \in DOMAIN <<r, s>> : <<r, s>>[i] \in Turnwise(serial)
    BY <1>2, <2>3, <2>4 DEF InTurn
  <2>7. toolCalls' \in Nat
    BY <1>1, <1>4 DEF Use
  <2>8. UNCHANGED <<pc, solo, turns, fence, granting, serial, lives>> /\ pc = "turn"
    BY <1>4 DEF Use, Acting
  <2> QED
    BY <1>1, <2>5, <2>6, <2>7, <2>8
<1>5. CASE Request
  <2>1. PICK d \in scope.dirs :
          /\ fence' = fence \cup {d}
          /\ file' = file \o <<Record("permission", TRUE, serial), Record("tool_call", TRUE, serial),
                               [Record("turn", TRUE, serial) EXCEPT !.dirs = {d}]>>
    BY <1>5 DEF Request, Log
  <2>2. PICK yes \in BOOLEAN : yes = TRUE
    OBVIOUS
  <2> DEFINE r == Record("permission", yes, serial)
             s == Record("tool_call", yes, serial)
             m == [Record("turn", TRUE, serial) EXCEPT !.dirs = {d}]
  <2>3. {d} \in SUBSET Dirs
    BY <1>1 DEF Dirs
  <2>4. m \in Recs /\ m.type = "turn" /\ m.by = serial /\ m.dirs = {d} /\ m.ok = TRUE
    BY <1>1, <2>3, DirsRecord
  <2>5. InTurn(r, serial) /\ r.type = "permission"
    BY <1>1, TurnRecord DEF Judged
  <2>6. InTurn(s, serial) /\ s.type = "tool_call"
    BY <1>1, <2>2, TurnRecord
  <2>7. file' = file \o <<r, s, m>>
    BY <2>1, <2>2
  <2>8. "agent" \in scope.askers
    BY <1>5 DEF Request, MayAsk
  <2> HIDE DEF r, s, m
  <2>9. m \in Turnwise(serial)
    BY <2>1, <2>4, <2>8 DEF Turnwise, InTurn
  <2>10. <<r, s, m>> \in Seq(Recs) /\ \A i \in DOMAIN <<r, s, m>> : <<r, s, m>>[i] \in Turnwise(serial)
    BY <1>2, <2>5, <2>6, <2>9 DEF InTurn, Turnwise
  <2>11. toolCalls' \in Nat
    BY <1>1, <1>5 DEF Request
  <2>12. UNCHANGED <<pc, solo, turns, granting, serial, lives>> /\ pc = "turn"
    BY <1>5 DEF Request, Acting
  <2>13. fence' \in SUBSET Dirs
    BY <1>1, <2>1, <2>3
  <2> QED
    BY <2>1, <2>7, <2>8, <2>10, <2>11, <2>12, <2>13
<1>6. CASE Check
  <2>1. PICK ok \in BOOLEAN : file' = file \o <<Record("verification", ok, serial)>>
    BY <1>6 DEF Check, Log
  <2> DEFINE r == Record("verification", ok, serial)
  <2>2. InTurn(r, serial) /\ r.type = "verification"
    BY <1>1, TurnRecord DEF Judged
  <2>3. file' = file \o <<r>>
    BY <2>1
  <2> HIDE DEF r
  <2>4. <<r>> \in Seq(Recs) /\ \A i \in DOMAIN <<r>> : <<r>>[i] \in Turnwise(serial)
    BY <1>2, <2>2 DEF InTurn
  <2> QED
    BY <1>1, <1>6, <2>3, <2>4 DEF Check, Acting
<1>7. CASE Finish
  <2> DEFINE S == {<<>>} \cup {<<ok>> : ok \in BOOLEAN}
             Made(type, list) == [k \in DOMAIN list |-> Record(type, list[k], serial)]
  <2>1. PICK manifest \in S, spec \in S : file' = file \o (Made("manifest", manifest) \o Made("spec", spec))
    BY <1>7 DEF Finish, Log
  <2>2. /\ Made("manifest", manifest) \in Seq(Recs)
        /\ \A i \in DOMAIN Made("manifest", manifest) :
             InTurn(Made("manifest", manifest)[i], serial) /\ Made("manifest", manifest)[i].type = "manifest"
    BY <1>1, Verdicts DEF Judged
  <2>3. /\ Made("spec", spec) \in Seq(Recs)
        /\ \A i \in DOMAIN Made("spec", spec) :
             InTurn(Made("spec", spec)[i], serial) /\ Made("spec", spec)[i].type = "spec"
    BY <1>1, Verdicts DEF Judged
  <2> DEFINE s == Made("manifest", manifest)
             t == Made("spec", spec)
  <2> HIDE DEF Made
  <2>4. \A i \in DOMAIN s : s[i] \in Turnwise(serial)
    BY <1>2, <2>2
  <2>5. \A i \in DOMAIN t : t[i] \in Turnwise(serial)
    BY <1>2, <2>3
  <2>6. s \o t \in Seq(Recs) /\ \A i \in DOMAIN (s \o t) : (s \o t)[i] \in Turnwise(serial)
    BY <2>2, <2>3, <2>4, <2>5, JoinAll
  <2>7. file' = file \o (s \o t)
    BY <2>1
  <2> HIDE DEF s, t
  <2> QED
    BY <1>1, <1>7, <2>6, <2>7 DEF Finish
<1> QED
  BY <1>3, <1>4, <1>5, <1>6, <1>7

LEMMA Alone ==
  ASSUME NEW r \in Recs
  PROVE  /\ <<>> \in Seq(Recs) /\ DOMAIN <<>> = {} /\ <<r>> = <<>> \o <<r>> /\ <<r>> \in Seq(Recs)
         /\ \A v \in Recs : <<v, r>> = <<v>> \o <<r>>
<1>1. <<>> \in Seq(Recs) /\ DOMAIN <<>> = {} /\ <<r>> \in Seq(Recs)
  OBVIOUS
<1>2. <<r>> = <<>> \o <<r>>
  <2>1. DOMAIN (<<>> \o <<r>>) = 1..1 /\ (<<>> \o <<r>>)[1] = r /\ Len(<<>> \o <<r>>) = 1
        /\ <<>> \o <<r>> \in Seq(Recs)
    OBVIOUS
  <2> QED
    BY <1>1, <2>1
<1>3. ASSUME NEW v \in Recs PROVE <<v, r>> = <<v>> \o <<r>>
  OBVIOUS
<1> QED
  BY <1>1, <1>2, <1>3

\* What is written when run n ends.
OfRun(r, n) ==
  /\ r \in Recs /\ r.by = n /\ r.type = "session_end"
  /\ r.ok = TRUE => r.ended = "completed" /\ \E p \in DOMAIN file : file[p].type = "tool_call"

LEMMA CompletedRun ==
  ASSUME serial \in Nat, NEW t \in Endings, NEW ok \in BOOLEAN,
         ok = TRUE => t = "completed" /\ \E p \in DOMAIN file : file[p].type = "tool_call"
  PROVE  OfRun(End(ok, t, serial), serial)
BY EndRecord DEF OfRun

LEMMA SoloEnds ==
  ASSUME TypeInv, UNCHANGED scope, ExitSolo \/ FailSolo
  PROVE  \E t \in Seq(Recs), r \in Recs :
           /\ file' = file \o (t \o <<r>>) /\ OfRun(r, serial)
           /\ \A i \in DOMAIN t : InTurn(t[i], serial) /\ t[i].type = "verification"
<1>1. serial \in Nat /\ scope.exits \subseteq Terminations /\ Terminations \subseteq Endings
  BY RecordAssumption DEF TypeInv, TypeOK, Endings
<1>2. CASE ExitSolo
  <2> DEFINE S == {<<>>} \cup {<<passed>> : passed \in BOOLEAN}
  <2>1. PICK terminated \in scope.exits, verify \in S :
          file' = file \o ([k \in DOMAIN verify |-> Record("verification", verify[k], serial)]
            \o <<End(Completed(terminated, Own({"tool_call"})) /\ verify # <<FALSE>>, terminated, serial)>>)
    BY <1>2 DEF ExitSolo, Log
  <2>2. PICK ok \in BOOLEAN : ok = (Completed(terminated, Own({"tool_call"})) /\ verify # <<FALSE>>)
    OBVIOUS
  <2>3. ok = TRUE => terminated = "completed" /\ \E p \in DOMAIN file : file[p].type = "tool_call"
    BY <2>2 DEF Completed, Own
  <2> DEFINE t == [k \in DOMAIN verify |-> Record("verification", verify[k], serial)]
             r == End(ok, terminated, serial)
  <2>4. file' = file \o (t \o <<r>>)
    BY <2>1, <2>2
  <2>5. OfRun(r, serial)
    BY <1>1, <2>3, CompletedRun
  <2>6. t \in Seq(Recs) /\ \A i \in DOMAIN t : InTurn(t[i], serial) /\ t[i].type = "verification"
    BY <1>1, Verdicts DEF Judged
  <2> HIDE DEF t, r
  <2> QED
    BY <2>4, <2>5, <2>6 DEF OfRun
<1>3. CASE FailSolo
  <2>1. PICK ok \in BOOLEAN : ok = FALSE
    OBVIOUS
  <2> DEFINE r == End(ok, "exception", serial)
  <2>2. OfRun(r, serial)
    BY <1>1, <2>1, CompletedRun DEF Endings
  <2>3. file' = file \o <<r>>
    BY <1>3, <2>1 DEF FailSolo, Log
  <2> HIDE DEF r
  <2>4. r \in Recs
    BY <2>2 DEF OfRun
  <2> QED
    BY <2>2, <2>3, <2>4, Alone
<1> QED
  BY <1>2, <1>3

LEMMA FrameFields ==
  ASSUME NEW s, NEW f, f = [Frame EXCEPT !.file = s]
  PROVE  Filed(f) = [home |-> home, records |-> s, gate |-> program = "gate"]
BY DEF Frame, Filed

LEMMA RunEnds ==
  ASSUME TypeInv, EndTask \/ EndBehaviour \/ TaskRaises \/ ChildEnds \/ ChildRaises
  PROVE  \E t \in Seq(Recs), r \in Recs :
           /\ over' = {[home |-> home, records |-> file \o (t \o <<r>>), gate |-> program = "gate"]}
           /\ OfRun(r, serial)
           /\ \A i \in DOMAIN t : InTurn(t[i], serial)
<1>1. serial \in Nat /\ scope.exits \subseteq Terminations /\ Terminations \subseteq Endings
  BY RecordAssumption DEF TypeInv, TypeOK, Endings
<1>2. CASE EndTask
  <2>1. PICK terminated \in scope.exits, passed \in BOOLEAN :
          Closed(<<Record("verification", passed, serial),
                   End(Completed(terminated, Of(file, "tool_call")) /\ passed, terminated, serial)>>)
    BY <1>2 DEF EndTask
  <2>2. PICK ok \in BOOLEAN : ok = (Completed(terminated, Of(file, "tool_call")) /\ passed)
    OBVIOUS
  <2>3. ok = TRUE => terminated = "completed" /\ \E p \in DOMAIN file : file[p].type = "tool_call"
    BY <2>2 DEF Completed, Of
  <2> DEFINE v == Record("verification", passed, serial)
             r == End(ok, terminated, serial)
  <2>4. over' = {[home |-> home, records |-> file \o <<v, r>>, gate |-> program = "gate"]}
    BY <2>1, <2>2, FrameFields DEF Closed
  <2>5. OfRun(r, serial)
    BY <1>1, <2>3, CompletedRun
  <2>6. InTurn(v, serial)
    BY <1>1, TurnRecord DEF Judged
  <2> HIDE DEF v, r
  <2>r. r \in Recs /\ v \in Recs
    BY <2>5, <2>6 DEF OfRun, InTurn
  <2>7. <<v, r>> = <<v>> \o <<r>> /\ <<v>> \in Seq(Recs) /\ r \in Recs
    BY <2>r, Alone
  <2>8. \A i \in DOMAIN <<v>> : InTurn(<<v>>[i], serial)
    BY <2>6
  <2> QED
    BY <2>4, <2>5, <2>7, <2>8
<1>3. CASE EndBehaviour \/ ChildEnds
  <2>1. PICK terminated \in scope.exits :
          Closed(<<End(Completed(terminated, Of(file, "tool_call")), terminated, serial)>>)
    BY <1>3 DEF EndBehaviour, ChildEnds
  <2>2. PICK ok \in BOOLEAN : ok = Completed(terminated, Of(file, "tool_call"))
    BY DEF Completed
  <2>3. ok = TRUE => terminated = "completed" /\ \E p \in DOMAIN file : file[p].type = "tool_call"
    BY <2>2 DEF Completed, Of
  <2> DEFINE r == End(ok, terminated, serial)
  <2>4. over' = {[home |-> home, records |-> file \o <<r>>, gate |-> program = "gate"]}
    BY <2>1, <2>2, FrameFields DEF Closed
  <2>5. OfRun(r, serial)
    BY <1>1, <2>3, CompletedRun
  <2> HIDE DEF r
  <2>6. r \in Recs
    BY <2>5 DEF OfRun
  <2> QED
    BY <2>4, <2>5, <2>6, Alone
<1>4. CASE TaskRaises \/ ChildRaises
  <2>1. PICK ok \in BOOLEAN : ok = FALSE
    OBVIOUS
  <2> DEFINE r == End(ok, "exception", serial)
  <2>2. OfRun(r, serial)
    BY <1>1, <2>1, CompletedRun DEF Endings
  <2>3. over' = {[home |-> home, records |-> file \o <<r>>, gate |-> program = "gate"]}
    BY <1>4, <2>1, FrameFields DEF TaskRaises, ChildRaises, Closed
  <2> HIDE DEF r
  <2>4. r \in Recs
    BY <2>2 DEF OfRun
  <2> QED
    BY <2>2, <2>3, <2>4, Alone
<1> QED
  BY <1>2, <1>3, <1>4

LEMMA GrantLogs ==
  ASSUME TypeInv, UNCHANGED scope, Grant
  PROVE  \E d \in Dirs :
           /\ fence' = fence \cup {d} /\ granting' = {d}
           /\ \/ d \in fence /\ file' = file \o <<>>
              \/ \E r : /\ Idle(r) /\ r.type = "dir_grant" /\ r.dirs = {d}
                       /\ file' = file \o <<r>>
<1>1. PICK d \in scope.dirs :
        /\ fence' = fence \cup {d} /\ granting' = {d}
        /\ file' = file \o (IF d \in fence THEN <<>>
                           ELSE <<[Record("dir_grant", TRUE, 0) EXCEPT !.dirs = {d}]>>)
  BY DEF Grant, Log
<1> DEFINE r == [Record("dir_grant", TRUE, 0) EXCEPT !.dirs = {d}]
<1>2. d \in Dirs /\ {d} \in SUBSET Dirs
  BY DEF Dirs, TypeInv, TypeOK
<1>3. r \in Recs /\ r.type = "dir_grant" /\ r.by = 0 /\ r.dirs = {d} /\ r.ok = TRUE
  BY <1>2, DirsRecord
<1>4. Idle(r)
  BY <1>3 DEF Idle
<1>5. file' = file \o (IF d \in fence THEN <<>> ELSE <<r>>)
  BY <1>1
<1> HIDE DEF r
<1> QED
  BY <1>1, <1>2, <1>3, <1>4, <1>5

LEMMA TellLogs ==
  ASSUME TypeInv, UNCHANGED scope, Tell
  PROVE  \E r : Idle(r) /\ r.type = "turn" /\ r.dirs = granting /\ file' = file \o <<r>>
<1> DEFINE r == [Record("turn", TRUE, 0) EXCEPT !.dirs = granting]
<1>1. r \in Recs /\ r.type = "turn" /\ r.by = 0 /\ r.dirs = granting /\ r.ok = TRUE
  BY DirsRecord DEF TypeInv, TypeOK
<1>2. Idle(r)
  BY <1>1 DEF Idle
<1>3. file' = file \o <<r>>
  BY DEF Tell, Log
<1> HIDE DEF r
<1> QED
  BY <1>1, <1>2, <1>3

LEMMA IdleLogs ==
  ASSUME TypeInv, UNCHANGED scope, Grant \/ Tell \/ Crash \/ Resume
  PROVE  \E t \in Seq(Recs) : file' = file \o t /\ \A i \in DOMAIN t : Idle(t[i])
<1>alone. ASSUME NEW r, Idle(r) PROVE <<r>> \in Seq(Recs) /\ \A i \in DOMAIN <<r>> : Idle(<<r>>[i])
  BY <1>alone DEF Idle
<1>none. <<>> \in Seq(Recs) /\ \A i \in DOMAIN <<>> : Idle(<<>>[i])
  OBVIOUS
<1>2. CASE Grant
  BY <1>2, <1>alone, <1>none, GrantLogs
<1>3. CASE Tell
  BY <1>3, <1>alone, TellLogs
<1>4. CASE Crash
  <2> DEFINE r == Record("torn", TRUE, 0)
  <2>1. Idle(r)
    BY IdleRecord
  <2>2. file' = file \o <<>> \/ file' = file \o <<r>>
    BY <1>4 DEF Crash, Log
  <2> HIDE DEF r
  <2> QED
    BY <1>alone, <1>none, <2>1, <2>2
<1>5. CASE Resume
  <2> DEFINE r == Record("session_resume", TRUE, 0)
  <2>1. Idle(r)
    BY IdleRecord
  <2>2. file' = file \o <<r>>
    BY <1>5 DEF Resume, Log
  <2> HIDE DEF r
  <2> QED
    BY <1>alone, <2>1, <2>2
<1> QED
  BY <1>2, <1>3, <1>4, <1>5

LEMMA LabelLogs ==
  ASSUME TypeInv, UNCHANGED scope, Label \/ Fail
  PROVE  \E r \in Recs :
           /\ file' = file \o <<r>> /\ r.type = "turn_outcome" /\ r.by = serial /\ r.turn = turns
           /\ r.ok = TRUE => r.ended = "completed"
<1>1. serial \in Nat /\ turns \in Nat /\ scope.exits \subseteq Terminations
  BY RecordAssumption DEF TypeInv, TypeOK
<1>2. PICK t \in Terminations \cup {"error"} : file' = file \o <<Outcome(t)>>
  BY <1>1 DEF Label, Fail, Log
<1> QED
  BY <1>1, <1>2, LabelRecord

LEMMA ExitLogs ==
  ASSUME TypeInv, Exit
  PROVE  \E r \in Recs :
           file' = file \o <<r>> /\ r.type = "session_end" /\ r.by = 0 /\ r.ended = "session_end"
<1> DEFINE r == End(toolCalls > 0, "session_end", 0)
<1>1. file' = file \o <<r>>
  BY DEF Exit, Log
<1>2. ASSUME NEW ok \in BOOLEAN, r = End(ok, "session_end", 0)
      PROVE  r.type = "session_end" /\ r.by = 0 /\ r.ended = "session_end" /\ r \in Recs
  <2> HIDE DEF r
  <2>1. "session_end" \in Endings /\ 0 \in Nat
    BY DEF Endings
  <2> DEFINE e == End(ok, "session_end", 0)
  <2>2. e \in Recs /\ e.type = "session_end" /\ e.by = 0 /\ e.ended = "session_end"
    BY <2>1, EndRecord
  <2>3. r = e
    BY <1>2
  <2> HIDE DEF e
  <2> QED
    BY <2>2, <2>3
<1>3. CASE toolCalls > 0
  <2>1. PICK ok \in BOOLEAN : ok = TRUE
    OBVIOUS
  <2>2. (toolCalls > 0) = ok
    BY <1>3, <2>1
  <2>3. r = End(ok, "session_end", 0)
    BY <2>2
  <2> QED
    BY <1>1, <1>2, <2>3
<1>4. CASE ~(toolCalls > 0)
  <2>1. PICK ok \in BOOLEAN : ok = FALSE
    OBVIOUS
  <2>2. (toolCalls > 0) = ok
    BY <1>4, <2>1
  <2>3. r = End(ok, "session_end", 0)
    BY <2>2
  <2> QED
    BY <1>1, <1>2, <2>3
<1> QED
  BY <1>3, <1>4

\* A session's file grows.
LEMMA SessionLogs ==
  ASSUME TypeInv, UNCHANGED scope, SessionStep
  PROVE  file' \in Seq(Recs) /\ (file # <<>> => file' # <<>>)
<1>1. file \in Seq(Recs)
  BY DEF TypeInv, TypeOK
<1>2. ASSUME NEW t \in Seq(Recs), file' = file \o t
      PROVE  file' \in Seq(Recs) /\ (file # <<>> => file' # <<>>)
  BY <1>1, <1>2
<1>3. CASE Grant \/ Tell \/ Crash \/ Resume
  BY <1>2, <1>3, IdleLogs
<1>4. CASE Label \/ Fail
  <2>1. PICK r \in Recs : file' = file \o <<r>>
    BY <1>4, LabelLogs
  <2> QED
    BY <1>2, <2>1, Alone
<1>5. CASE Exit
  <2>1. PICK r \in Recs : file' = file \o <<r>>
    BY <1>5, ExitLogs
  <2> QED
    BY <1>2, <2>1, Alone
<1>6. CASE ExitSolo \/ FailSolo
  <2>1. PICK t \in Seq(Recs), r \in Recs : file' = file \o (t \o <<r>>)
    BY <1>6, SoloEnds
  <2>2. t \o <<r>> \in Seq(Recs)
    OBVIOUS
  <2> QED
    BY <1>2, <2>1, <2>2
<1>7. CASE Begin \/ ResumeRaises
  BY <1>1, <1>7 DEF Begin, ResumeRaises
<1> QED
  BY <1>3, <1>4, <1>5, <1>6, <1>7 DEF SessionStep

LEMMA SessionTypes ==
  ASSUME TypeInv, UNCHANGED scope, SessionStep
  PROVE  TypeInv'
<1>1. /\ scope \in Scenarios /\ fence \in SUBSET Dirs /\ granting \in SUBSET Dirs
      /\ turns \in Nat /\ toolCalls \in Nat /\ serial \in Nat /\ lives \in Nat /\ children \in Nat
  BY DEF TypeInv, TypeOK
<1>2. file' \in Seq(Recs) /\ (file # <<>> => file' # <<>>)
  BY SessionLogs
<1>3. \A d \in scope.dirs : {d} \in SUBSET Dirs /\ fence \cup {d} \in SUBSET Dirs
  BY <1>1 DEF Dirs
<1>4. Granted(file) \in SUBSET Dirs
  <2>1. file \in Seq(Recs)
    BY DEF TypeInv, TypeOK
  <2>2. ASSUME NEW p \in DOMAIN file PROVE file[p].dirs \in SUBSET Dirs
    <3>1. file[p] \in Recs
      BY <2>1
    <3> QED
      BY <3>1 DEF Recs
  <2> QED
    BY <2>2 DEF Granted, Of
<1>5. /\ kind = "session" /\ over' = {}
      /\ UNCHANGED <<program, jobs, kind, home, handed, stack, children>>
  BY DEF SessionStep, Innermost
<1>6. /\ pc' \in Places \ {"idle"} /\ solo' \in BOOLEAN
      /\ turns' \in Nat /\ toolCalls' \in Nat /\ serial' \in Nat /\ lives' \in Nat
      /\ fence' \in SUBSET Dirs /\ granting' \in SUBSET Dirs
      /\ pc' \in {"turn", "returned"} => serial' # 0
  <2>1. CASE Grant
    BY <1>1, <1>3, <2>1 DEF Grant, TypeInv, TypeOK, Places
  <2>2. CASE Tell \/ Begin
    BY <1>1, <2>2 DEF Tell, Begin, TypeInv, TypeOK, Places
  <2>3. CASE Label \/ Fail
    BY <1>1, <2>3 DEF Label, Fail, TypeInv, TypeOK, Places
  <2>4. CASE Exit \/ ExitSolo \/ FailSolo \/ Crash
    <3>1. Off
      BY <2>4 DEF Exit, ExitSolo, FailSolo, Crash
    <3>2. solo \in BOOLEAN
      BY DEF TypeInv, TypeOK
    <3> QED
      BY <1>1, <3>1, <3>2 DEF Off, Places
  <2>5. CASE Resume
    <3>1. Cardinality(Of(file, "tool_call")) \in Nat
      <4>1. file \in Seq(Recs) /\ Len(file) \in Nat /\ DOMAIN file = 1..Len(file)
        BY DEF TypeInv, TypeOK
      <4>2. IsFiniteSet(1..Len(file))
        BY <4>1, FS_Interval
      <4>3. Of(file, "tool_call") \subseteq 1..Len(file)
        BY <4>1 DEF Of
      <4> QED
        BY <4>2, <4>3, FS_Subset, FS_CardinalityType
    <3> QED
      <4>1. /\ pc' = "prompt" /\ solo' \in BOOLEAN /\ lives' = lives + 1 /\ toolCalls' \in Nat
            /\ fence' = Granted(file) /\ UNCHANGED <<turns, granting, serial>>
        BY <2>5, <3>1 DEF Resume
      <4> QED
        BY <1>1, <1>4, <4>1 DEF Places
  <2>6. CASE ResumeRaises
    BY <1>1, <2>6 DEF ResumeRaises, TypeInv, TypeOK, Places
  <2> QED
    BY <2>1, <2>2, <2>3, <2>4, <2>5, <2>6 DEF SessionStep
<1>7. TypeOK'
  BY <1>1, <1>2, <1>5, <1>6 DEF TypeOK, TypeInv
<1>8. Stacked'
  BY <1>5, <1>6 DEF Stacked, TypeInv
<1> QED
  BY <1>7, <1>8 DEF TypeInv

LEMMA AgentTypes ==
  ASSUME TypeInv, UNCHANGED scope, AgentStep
  PROVE  TypeInv'
<1>1. /\ kind \in Runs /\ over' = {}
      /\ UNCHANGED <<program, jobs, kind, home, handed, stack, children>>
  BY DEF AgentStep, Innermost, Runs
<1>2. Think \/ Use \/ Request \/ Check \/ Finish
  BY DEF AgentStep
<1>3. /\ pc = "turn" /\ pc' \in {"turn", "returned"} /\ toolCalls' \in Nat
      /\ UNCHANGED <<solo, turns, granting, serial, lives>>
      /\ fence' \in SUBSET Dirs
      /\ \E t \in Seq(Recs) : file' = file \o t
  BY <1>2, TurnLogs
<1>4. file' \in Seq(Recs)
  BY <1>3 DEF TypeInv, TypeOK
<1>5. TypeOK'
  BY <1>1, <1>3, <1>4 DEF TypeInv, TypeOK, Places
<1>6. Stacked'
  BY <1>1, <1>3 DEF TypeInv, Stacked, Runs
<1> QED
  BY <1>5, <1>6 DEF TypeInv

\* A run that ends leaves its file, as a whole.
LEMMA FilingType ==
  ASSUME TypeInv, EndTask \/ EndBehaviour \/ TaskRaises \/ ChildEnds \/ ChildRaises
  PROVE  over' \in SUBSET Filings
<1>1. PICK t \in Seq(Recs), r \in Recs :
        over' = {[home |-> home, records |-> file \o (t \o <<r>>), gate |-> program = "gate"]}
  BY RunEnds
<1>2. file \o (t \o <<r>>) \in Seq(Recs) /\ home \in Homes
  BY DEF TypeInv, TypeOK
<1>3. \E g \in BOOLEAN : g = (program = "gate")
  OBVIOUS
<1> QED
  BY <1>1, <1>2, <1>3 DEF Filings

LEMMA FrameType == ASSUME TypeOK, kind # "none" PROVE Frame \in Frames /\ Filed(Frame) \in Filings
<1>1. \E g \in BOOLEAN : g = (program = "gate")
  OBVIOUS
<1>2. Frame \in Frames
  BY DEF TypeOK, Frame, Frames
<1> QED
  BY <1>1, <1>2 DEF TypeOK, Frame, Frames, Filings, Filed

LEMMA StartedType == ASSUME TypeInv PROVE Started \in SUBSET Filings
<1>1. \E g \in BOOLEAN : g = (program = "gate")
  OBVIOUS
<1>2. \A n \in DOMAIN stack : Filed(stack[n]) \in Filings
  <2> SUFFICES ASSUME NEW n \in DOMAIN stack PROVE Filed(stack[n]) \in Filings
    OBVIOUS
  <2>1. stack[n] \in Frames
    BY DEF TypeInv, TypeOK
  <2> QED
    BY <1>1, <2>1 DEF Frames, Filings, Filed
<1>3. file # <<>> => Filed(Frame) \in Filings
  BY FrameType DEF TypeInv, Stacked, TypeOK
<1> QED
  BY <1>2, <1>3 DEF Started

LEMMA EmptyTypes ==
  /\ <<>> \in Seq(Recs) /\ <<>> \in Seq(Frames) /\ <<>> \in Seq({"task", "behaviour"})
  /\ DOMAIN <<>> = {}
OBVIOUS

LEMMA Longer ==
  ASSUME NEW S, NEW s \in Seq(S), NEW x \in S, NEW t, t = Append(s, x)
  PROVE  /\ t \in Seq(S) /\ Len(s) \in Nat /\ Len(t) = Len(s) + 1 /\ t # <<>>
         /\ DOMAIN s = 1..Len(s) /\ DOMAIN t = 1..(Len(s) + 1)
         /\ t[Len(s) + 1] = x /\ \A i \in 1..Len(s) : t[i] = s[i]
OBVIOUS

\* The harness goes on: nothing runs.
LEMMA NextTypes ==
  ASSUME TypeInv, NEW ends \in BOOLEAN, Next1(ends), jobs' \in Seq({"task", "behaviour"}),
         over' \in SUBSET Filings, kind # "child", program # "session"
  PROVE  TypeInv'
<1>1. /\ pc' \in {"off", "idle"} /\ file' = <<>> /\ toolCalls' = 0 /\ kind' = "none" /\ home' = "none"
      /\ handed' = "" /\ UNCHANGED <<scope, solo, turns, fence, granting, lives, program, stack, serial, children>>
  BY DEF Next1, Kept
<1>2. file' \in Seq(Recs)
  BY <1>1, EmptyTypes
<1>3. TypeOK'
  <2>1. kind' \in Runs \cup {"none"} /\ home' \in Homes /\ handed' \in Handing /\ pc' \in Places
    BY <1>1 DEF Places, Homes, Handing
  <2>2. /\ scope' \in Scenarios /\ program' \in {"session", "gate", "capture"} /\ solo' \in BOOLEAN
        /\ fence' \in SUBSET Dirs /\ granting' \in SUBSET Dirs /\ stack' \in Seq(Frames)
    BY <1>1 DEF TypeInv, TypeOK
  <2>3. turns' \in Nat /\ toolCalls' \in Nat /\ serial' \in Nat /\ lives' \in Nat /\ children' \in Nat
    BY <1>1 DEF TypeInv, TypeOK
  <2> QED
    BY <1>2, <2>1, <2>2, <2>3 DEF TypeOK
<1>4. Stacked'
  BY <1>1 DEF TypeInv, Stacked, Runs
<1> QED
  BY <1>3, <1>4 DEF TypeInv

\* A child is gone, and the run that waited for it goes on.
LEMMA ResumesTypes ==
  ASSUME TypeInv, kind = "child", pc \in {"turn", "returned"}, Resumes(stack[Len(stack)]),
         over' \in SUBSET Filings
  PROVE  TypeInv'
<1> DEFINE n == Len(stack)
           frame == stack[n]
<1>1. stack \in Seq(Frames) /\ n \in Nat /\ n # 0 /\ DOMAIN stack = 1..n /\ n \in DOMAIN stack
  BY DEF TypeInv, TypeOK, Stacked
<1>2. frame \in Frames
  BY <1>1
<1>3. /\ stack' = SubSeq(stack, 1, n - 1) /\ pc' = "turn" /\ kind' = frame.kind /\ home' = frame.home
      /\ handed' = frame.handed /\ file' = Append(frame.file, Record("tool_call", TRUE, serial))
      /\ toolCalls' = frame.toolCalls + 1
      /\ UNCHANGED <<scope, solo, turns, fence, granting, lives, serial, program, jobs, children>>
  BY DEF Resumes, Kept
<1>4. stack' \in Seq(Frames) /\ DOMAIN stack' = 1..(n - 1) /\ \A i \in 1..(n - 1) : stack'[i] = stack[i]
  BY <1>1, <1>3
<1>5. Record("tool_call", TRUE, serial) \in Recs
  <2>1. PICK yes \in BOOLEAN : yes = TRUE
    OBVIOUS
  <2>2. "tool_call" \in Types /\ serial \in Nat
    BY DEF Types, TypeInv, TypeOK
  <2> QED
    BY <2>1, <2>2, RecordFields
<1>6. file' \in Seq(Recs) /\ toolCalls' \in Nat /\ kind' \in Runs /\ home' \in Homes /\ handed' \in Handing
  <2>1. /\ frame.file \in Seq(Recs) /\ frame.toolCalls \in Nat /\ frame.kind \in Runs
        /\ frame.home \in Homes /\ frame.handed \in Handing
    BY <1>2 DEF Frames
  <2> HIDE DEF frame
  <2>2. file' \in Seq(Recs)
    BY <1>3, <1>5, <2>1, Longer
  <2>3. toolCalls' \in Nat
    BY <1>3, <2>1
  <2>4. kind' \in Runs /\ home' \in Homes /\ handed' \in Handing
    BY <1>3, <2>1
  <2> QED
    BY <2>2, <2>3, <2>4
<1>7. TypeOK'
  BY <1>3, <1>4, <1>6 DEF TypeInv, TypeOK, Places
<1>8. Stacked'
  <2>1. kind' = "child" <=> n # 1
    BY <1>1, <1>3 DEF TypeInv, Stacked
  <2>2. stack' # <<>> <=> n # 1
    BY <1>1, <1>4
  <2>3. \A i \in DOMAIN stack' : stack'[i].kind = "child" <=> i # 1
    BY <1>1, <1>4 DEF TypeInv, Stacked
  <2>4. stack # <<>> /\ (stack[1].kind = "session" <=> program = "session")
    BY <1>1 DEF TypeInv, Stacked
  <2>5. stack' # <<>> => stack'[1] = stack[1]
    BY <1>1, <1>4, <2>2
  <2>6. kind' = "session" => n = 1
    BY <2>1
  <2>7. program = "session" => jobs = <<>> /\ kind' \in {"session", "child"}
    BY <1>1, <1>3, <2>1, <2>4 DEF TypeInv, Stacked
  <2>8. program # "session" => kind' # "session"
    BY <1>1, <1>3, <2>4, <2>6
  <2>9. serial' # 0 /\ kind' # "none"
    BY <1>3, <1>6 DEF TypeInv, Stacked, Runs
  <2> QED
    BY <1>3, <1>6, <2>1, <2>2, <2>3, <2>4, <2>5, <2>7, <2>8, <2>9 DEF Stacked, Runs
<1> QED
  BY <1>7, <1>8 DEF TypeInv

LEMMA SpawnTypes == ASSUME TypeInv, Spawn PROVE TypeInv'
<1>1. pc = "turn" /\ kind \in Runs
  BY DEF Spawn, TypeInv, TypeOK, Stacked
<1>2. Frame \in Frames /\ Frame.kind = kind
  BY <1>1, FrameType DEF TypeInv, Runs, Frame
<1> DEFINE r == [Record("session_start", TRUE, 0) EXCEPT !.child = TRUE]
           n == Len(stack)
<1>3. r \in Recs
  BY ChildRecord DEF Idle
<1>4. /\ stack' = Append(stack, Frame) /\ kind' = "child" /\ toolCalls' = 0 /\ handed' = handed
      /\ home' = (IF handed = "" THEN "sessions" ELSE handed) /\ file' = <<r>> /\ children' = children + 1
      /\ over' = {}
      /\ UNCHANGED <<scope, solo, turns, fence, granting, lives, pc, serial, program, jobs>>
  BY DEF Spawn, Kept
<1> HIDE DEF r
<1>5. /\ n \in Nat /\ stack' \in Seq(Frames) /\ DOMAIN stack = 1..n /\ DOMAIN stack' = 1..(n + 1)
      /\ stack'[n + 1] = Frame /\ \A i \in 1..n : stack'[i] = stack[i]
  <2>1. stack \in Seq(Frames)
    BY DEF TypeInv, TypeOK
  <2>2. stack' = Append(stack, Frame)
    BY <1>4
  <2> QED
    BY <1>2, <2>1, <2>2, Longer
<1>6. home' \in Homes /\ file' \in Seq(Recs)
  <2>1. <<r>> \in Seq(Recs)
    BY <1>3, Alone
  <2> QED
    BY <1>4, <2>1 DEF TypeInv, TypeOK, Homes, Handing
<1>7. TypeOK'
  <2>1. toolCalls' \in Nat /\ children' \in Nat /\ kind' \in Runs /\ over' \in SUBSET Filings
    <3>1. toolCalls' \in Nat /\ kind' \in Runs /\ over' \in SUBSET Filings
      BY <1>4 DEF Runs
    <3>2. children \in Nat
      BY DEF TypeInv, TypeOK
    <3>3. children' \in Nat
      <4>1. children' = children + 1
        BY <1>4
      <4> QED
        BY <3>2, <4>1
    <3> QED
      BY <3>1, <3>3
  <2>2. stack' \in Seq(Frames)
    BY <1>5
  <2> QED
    BY <1>4, <1>6, <2>1, <2>2 DEF TypeInv, TypeOK
<1>8. Stacked'
  <2>1. kind = "child" <=> n # 0
    BY <1>5 DEF TypeInv, Stacked
  <2>2. \A i \in DOMAIN stack' : stack'[i].kind = "child" <=> i # 1
    <3>1. \A i \in 1..n : stack'[i].kind = "child" <=> i # 1
      BY <1>5 DEF TypeInv, Stacked
    <3>2. stack'[n + 1].kind = "child" <=> n + 1 # 1
      BY <1>2, <1>5, <2>1
    <3> QED
      BY <1>5, <3>1, <3>2
  <2>3. stack' # <<>>
    BY <1>5
  <2>4. stack'[1].kind = "session" <=> program = "session"
    <3>1. CASE n = 0
      <4>1. kind \in {"session", "task", "behaviour"} /\ stack'[1] = Frame
        BY <1>1, <1>5, <2>1, <3>1 DEF Runs
      <4> QED
        BY <1>2, <4>1 DEF TypeInv, Stacked
    <3>2. CASE n # 0
      BY <1>5, <3>2 DEF TypeInv, Stacked
    <3> QED
      BY <3>1, <3>2
  <2> QED
    BY <1>1, <1>4, <2>2, <2>3, <2>4 DEF TypeInv, Stacked, Runs
<1> QED
  BY <1>7, <1>8 DEF TypeInv

LEMMA UnwindTypes == ASSUME TypeInv, Unwind PROVE TypeInv'
<1>1. Started \in SUBSET Filings
  BY StartedType
<1>2. CASE program = "session" /\ ~solo
  <2>1. kind = "child" /\ stack # <<>> /\ stack[1].kind = "session" /\ stack \in Seq(Frames)
    BY <1>2 DEF Unwind, TypeInv, Stacked, TypeOK
  <2>2. stack[1] \in Frames
    BY <2>1
  <2>3. Outcome("error") \in Recs
    BY LabelRecord DEF TypeInv, TypeOK
  <2>4. /\ over' = {f \in Started : f.records[1].child}
        /\ file' = Append(stack[1].file, Outcome("error")) /\ toolCalls' = stack[1].toolCalls
        /\ pc' = "prompt" /\ kind' = "session" /\ home' = stack[1].home /\ handed' = stack[1].handed
        /\ stack' = <<>>
        /\ UNCHANGED <<scope, solo, turns, fence, granting, lives, serial, program, jobs, children>>
    BY <1>2 DEF Unwind, Kept
  <2>5. over' \in SUBSET Filings
    BY <1>1, <2>4
  <2>6. file' \in Seq(Recs) /\ toolCalls' \in Nat /\ home' \in Homes /\ handed' \in Handing /\ stack' \in Seq(Frames)
    BY <2>2, <2>3, <2>4 DEF Frames
  <2>7. TypeOK'
    BY <2>4, <2>5, <2>6 DEF TypeInv, TypeOK, Places, Runs
  <2>8. Stacked'
    BY <1>2, <2>4 DEF TypeInv, Stacked, Runs
  <2> QED
    BY <2>7, <2>8 DEF TypeInv
<1>3. CASE ~(program = "session" /\ ~solo)
  <2>1. /\ over' = Started /\ file' = <<>> /\ toolCalls' = 0
        /\ pc' = "off" /\ kind' = "none" /\ home' = "none" /\ handed' = "" /\ stack' = <<>>
        /\ UNCHANGED <<scope, solo, turns, fence, granting, lives, serial, program, jobs, children>>
    BY <1>3 DEF Unwind, Kept
  <2>2. file' \in Seq(Recs) /\ stack' \in Seq(Frames)
    BY <2>1, EmptyTypes
  <2>3. TypeOK'
    BY <1>1, <2>1, <2>2 DEF TypeInv, TypeOK, Places, Homes, Handing
  <2>4. Stacked'
    BY <2>1, EmptyTypes DEF TypeInv, Stacked, Runs
  <2> QED
    BY <2>3, <2>4 DEF TypeInv
<1> QED
  BY <1>2, <1>3

LEMMA TypesInit == ASSUME FlyInit PROVE TypeInv
<1>1. /\ scope \in Scenarios /\ program \in scope.programs /\ over = {} /\ children = 0 /\ stack = <<>>
      /\ handed = "" /\ turns = 0 /\ toolCalls = 0 /\ serial = 0 /\ lives = 1 /\ fence = {} /\ granting = {}
  BY DEF FlyInit
<1>2. program \in {"session", "gate", "capture"} /\ scope.solo \subseteq BOOLEAN
  BY <1>1, FlywheelAssumption, RecordAssumption
<1>3. CASE program = "session"
  <2> DEFINE r == Record("session_start", TRUE, 0)
  <2>1. r \in Recs
    BY IdleRecord DEF Idle
  <2>2. /\ pc = "prompt" /\ solo \in scope.solo /\ jobs = <<>> /\ kind = "session" /\ home = "sessions"
        /\ file = <<r>>
    BY <1>3 DEF FlyInit
  <2> HIDE DEF r
  <2>3. file \in Seq(Recs) /\ stack \in Seq(Frames) /\ jobs \in Seq({"task", "behaviour"})
    BY <1>1, <2>1, <2>2, EmptyTypes, Alone
  <2>4. TypeOK
    BY <1>1, <1>2, <2>2, <2>3 DEF TypeOK, Places, Runs, Homes, Handing
  <2>5. Stacked
    BY <1>1, <1>3, <2>2, EmptyTypes DEF Stacked, Runs
  <2> QED
    BY <2>4, <2>5 DEF TypeInv
<1>4. CASE program # "session"
  <2>1. pc = "idle" /\ solo = FALSE /\ jobs = Batches[program] /\ kind = "none" /\ home = "none" /\ file = <<>>
    BY <1>4 DEF FlyInit
  <2>2. jobs = <<"task", "behaviour">> \/ jobs = <<"task", "task">>
    BY <1>2, <1>4, <2>1 DEF Batches
  <2>3. file \in Seq(Recs) /\ stack \in Seq(Frames) /\ jobs \in Seq({"task", "behaviour"})
    <3>1. <<"task", "behaviour">> \in Seq({"task", "behaviour"}) /\ <<"task", "task">> \in Seq({"task", "behaviour"})
      OBVIOUS
    <3> QED
      BY <1>1, <2>1, <2>2, <3>1, EmptyTypes
  <2>4. TypeOK
    BY <1>1, <1>2, <2>1, <2>3 DEF TypeOK, Places, Runs, Homes, Handing
  <2>5. Stacked
    BY <1>1, <1>4, <2>1, EmptyTypes DEF Stacked, Runs
  <2> QED
    BY <2>4, <2>5 DEF TypeInv
<1> QED
  BY <1>3, <1>4

LEMMA BeginTypes == ASSUME TypeInv, BeginTask PROVE TypeInv'
<1> DEFINE r == Record("session_start", TRUE, 0)
<1>1. r \in Recs
  BY IdleRecord DEF Idle
<1>2. /\ pc = "idle" /\ jobs # <<>> /\ jobs' = Tail(jobs) /\ kind' = Head(jobs)
      /\ home' = (IF program = "gate" THEN "eval" ELSE "corpus") /\ handed' = home'
      /\ file' = <<r>> /\ serial' = serial + 1 /\ pc' = "turn" /\ over' = {}
      /\ UNCHANGED <<scope, solo, turns, fence, granting, lives, toolCalls, program, stack, children>>
  BY DEF BeginTask, Kept
<1> HIDE DEF r
<1>3. kind' \in {"task", "behaviour"} /\ jobs' \in Seq({"task", "behaviour"}) /\ file' \in Seq(Recs)
  BY <1>1, <1>2, Alone DEF TypeInv, TypeOK
<1>4. kind = "none" /\ stack = <<>> /\ program # "session"
  BY <1>2 DEF TypeInv, TypeOK, Stacked
<1>5. serial' \in Nat /\ serial' # 0
  BY <1>2 DEF TypeInv, TypeOK
<1>6. TypeOK'
  BY <1>2, <1>3, <1>5 DEF TypeInv, TypeOK, Places, Runs, Homes, Handing
<1>7. Stacked'
  BY <1>2, <1>3, <1>4, <1>5, EmptyTypes DEF TypeInv, Stacked, Runs
<1> QED
  BY <1>6, <1>7 DEF TypeInv

LEMMA TypesStep == ASSUME TypeInv, [FlyNext]_fly PROVE TypeInv'
<1>1. CASE UNCHANGED scope /\ SessionStep
  BY <1>1, SessionTypes
<1>2. CASE UNCHANGED scope /\ AgentStep
  BY <1>2, AgentTypes
<1>3. CASE BeginTask
  BY <1>3, BeginTypes
<1>4. CASE LayoutFails \/ BatchEnds
  <2>1. pc = "idle"
    BY <1>4 DEF LayoutFails, BatchEnds
  <2>2. kind = "none" /\ program # "session"
    BY <2>1 DEF TypeInv, TypeOK, Stacked
  <2>3. jobs' \in Seq({"task", "behaviour"}) /\ over' = {}
    <3>1. jobs \in Seq({"task", "behaviour"})
      BY DEF TypeInv, TypeOK
    <3>2. jobs # <<>> => Tail(jobs) \in Seq({"task", "behaviour"})
      BY <3>1
    <3>3. over' = {} /\ (jobs' = jobs \/ (jobs # <<>> /\ jobs' = Tail(jobs)))
      BY <1>4 DEF LayoutFails, BatchEnds
    <3> QED
      BY <3>1, <3>2, <3>3
  <2>4. \E ends \in BOOLEAN : Next1(ends)
    BY <1>4 DEF LayoutFails, BatchEnds, Aborts
  <2> QED
    BY <2>2, <2>3, <2>4, NextTypes
<1>5. CASE EndTask \/ EndBehaviour \/ TaskRaises
  <2>1. kind \in {"task", "behaviour"} /\ jobs' = jobs
    BY <1>5 DEF EndTask, EndBehaviour, TaskRaises
  <2>2. program # "session" /\ jobs' \in Seq({"task", "behaviour"})
    BY <2>1 DEF TypeInv, Stacked, TypeOK
  <2>3. \E ends \in BOOLEAN : Next1(ends)
    BY <1>5 DEF EndTask, EndBehaviour, TaskRaises, Aborts
  <2>4. over' \in SUBSET Filings
    BY <1>5, FilingType
  <2> QED
    BY <2>1, <2>2, <2>3, <2>4, NextTypes
<1>6. CASE ChildEnds \/ ChildRaises
  <2>1. kind = "child" /\ pc \in {"turn", "returned"} /\ Resumes(stack[Len(stack)])
    BY <1>6 DEF ChildEnds, ChildRaises
  <2>2. over' \in SUBSET Filings
    BY <1>6, FilingType
  <2> QED
    BY <2>1, <2>2, ResumesTypes
<1>7. CASE Spawn
  BY <1>7, SpawnTypes
<1>8. CASE Unwind
  BY <1>8, UnwindTypes
<1>9. CASE UNCHANGED fly
  BY <1>9 DEF fly, vars, flyVars, TypeInv, TypeOK, Stacked
<1> QED
  BY <1>1, <1>2, <1>3, <1>4, <1>5, <1>6, <1>7, <1>8, <1>9 DEF FlyNext, HarnessStep

LEMMA TypesHold == FlySpec => []TypeInv
<1>1. FlyInit => TypeInv
  BY TypesInit
<1>2. TypeInv /\ [FlyNext]_fly => TypeInv'
  BY TypesStep
<1> QED
  BY <1>1, <1>2, PTL DEF FlySpec

-----------------------------------------------------------------------------
(* The held-out gate.  Its files are at home in "eval", and a child's file *)
(* is where the context of its parent says.                                *)

Apart ==
  /\ program = "gate" =>
       /\ kind # "none" => home = "eval" /\ handed = "eval"
       /\ \A n \in DOMAIN stack : stack[n].home = "eval" /\ stack[n].handed = "eval"
  /\ \A f \in over : f.gate => f.home = "eval"

LEMMA StartedApart == ASSUME TypeInv, Apart PROVE \A f \in Started : f.gate => f.home = "eval"
<1>1. ASSUME NEW n \in DOMAIN stack, Filed(stack[n]).gate PROVE Filed(stack[n]).home = "eval"
  BY <1>1 DEF Apart, Filed
<1>2. ASSUME file # <<>>, Filed(Frame).gate PROVE Filed(Frame).home = "eval"
  BY <1>2 DEF Apart, Filed, Frame, TypeInv, Stacked
<1> QED
  BY <1>1, <1>2 DEF Started

LEMMA ApartStep == ASSUME TypeInv, Apart, [FlyNext]_fly PROVE Apart'
<1>1. CASE SessionStep \/ AgentStep
  BY <1>1 DEF SessionStep, AgentStep, Innermost, Apart
<1>2. CASE BeginTask
  BY <1>2 DEF BeginTask, Apart
<1>3. CASE LayoutFails \/ BatchEnds
  BY <1>3 DEF LayoutFails, BatchEnds, Next1, Apart
<1>4. ASSUME EndTask \/ EndBehaviour \/ TaskRaises \/ ChildEnds \/ ChildRaises
      PROVE  \A f \in over' : f.gate => f.home = "eval"
  <2>1. PICK t, r : over' = {[home |-> home, records |-> file \o (t \o <<r>>), gate |-> program = "gate"]}
    BY <1>4, RunEnds
  <2>2. kind # "none"
    BY <1>4 DEF EndTask, EndBehaviour, TaskRaises, ChildEnds, ChildRaises
  <2>3. program = "gate" => home = "eval"
    BY <2>2 DEF Apart
  <2>4. ASSUME NEW f \in over', f.gate PROVE f.home = "eval"
    <3> DEFINE records == file \o (t \o <<r>>)
    <3>1. f = [home |-> home, records |-> records, gate |-> program = "gate"]
      BY <2>1, <2>4
    <3> HIDE DEF records
    <3>2. f.home = home
      BY <3>1
    <3>3. f.gate = (program = "gate")
      BY <3>1, Zenon
    <3> QED
      BY <3>2, <3>3, <2>3, <2>4
  <2> QED
    BY <2>4
<1>5. CASE EndTask \/ EndBehaviour \/ TaskRaises
  BY <1>4, <1>5 DEF EndTask, EndBehaviour, TaskRaises, Next1, Apart
<1>6. CASE ChildEnds \/ ChildRaises
  <2> DEFINE n == Len(stack)
             frame == stack[n]
  <2>1. stack \in Seq(Frames) /\ n \in Nat /\ DOMAIN stack = 1..n /\ stack # <<>> /\ n \in DOMAIN stack
    BY <1>6 DEF ChildEnds, ChildRaises, TypeInv, TypeOK, Stacked
  <2>2. stack' = SubSeq(stack, 1, n - 1) /\ home' = frame.home /\ handed' = frame.handed /\ program' = program
    BY <1>6 DEF ChildEnds, ChildRaises, Resumes
  <2>3. DOMAIN stack' = 1..(n - 1) /\ \A i \in 1..(n - 1) : stack'[i] = stack[i]
    BY <2>1, <2>2
  <2>4. \A i \in DOMAIN stack' : i \in DOMAIN stack /\ stack'[i] = stack[i]
    BY <2>1, <2>3
  <2> HIDE DEF n
  <2> QED
    BY <1>4, <1>6, <2>1, <2>2, <2>4 DEF Apart
<1>7. CASE Spawn
  <2>1. stack' = Append(stack, Frame) /\ home' = (IF handed = "" THEN "sessions" ELSE handed)
        /\ handed' = handed /\ program' = program /\ over' = {} /\ pc = "turn"
    BY <1>7 DEF Spawn
  <2>2. kind # "none" /\ stack \in Seq(Frames) /\ Frame \in Frames
    BY <2>1, FrameType DEF TypeInv, TypeOK, Stacked
  <2>3. stack' = Append(stack, Frame)
    BY <2>1
  <2>4. \A i \in DOMAIN stack' : (i \in DOMAIN stack /\ stack'[i] = stack[i]) \/ stack'[i] = Frame
    BY <2>2, <2>3, Longer
  <2>5. Frame.home = home /\ Frame.handed = handed
    BY DEF Frame
  <2>6. ASSUME program = "gate" PROVE home' = "eval" /\ handed' = "eval"
    BY <2>1, <2>2, <2>6 DEF Apart
  <2>7. ASSUME program = "gate", NEW i \in DOMAIN stack' PROVE stack'[i].home = "eval" /\ stack'[i].handed = "eval"
    BY <2>2, <2>4, <2>5, <2>7 DEF Apart
  <2> QED
    BY <2>1, <2>6, <2>7 DEF Apart
<1>8. CASE Unwind
  <2>1. over' \subseteq Started /\ stack' = <<>> /\ program' = program
        /\ (program # "session" => kind' = "none")
    BY <1>8 DEF Unwind
  <2> QED
    BY <2>1, StartedApart, EmptyTypes DEF Apart
<1>9. CASE UNCHANGED fly
  BY <1>9 DEF fly, flyVars, Apart
<1> QED
  BY <1>1, <1>2, <1>3, <1>5, <1>6, <1>7, <1>8, <1>9 DEF FlyNext, HarnessStep

\* What the held-out gate writes, at any depth and however it ends, never
\* becomes a row (HeldOut; harness.py and subagent.py, traj_dir; convert.py,
\* main).
THEOREM GateIsHeldOut == FlySpec => []HeldOut
<1>1. FlyInit => Apart
  <2> SUFFICES ASSUME FlyInit PROVE Apart
    OBVIOUS
  <2>1. over = {} /\ stack = <<>> /\ (program # "session" => kind = "none")
    BY DEF FlyInit
  <2> QED
    BY <2>1, EmptyTypes DEF Apart
<1>2. TypeInv /\ Apart /\ [FlyNext]_fly => Apart'
  BY ApartStep
<1>3. TypeInv /\ Apart => HeldOut
  BY StartedApart DEF HeldOut, Archive, Converted, Apart
<1> QED
  BY <1>1, <1>2, <1>3, TypesHold, PTL DEF FlySpec

-----------------------------------------------------------------------------
(* What the model is told it may read, and what is on record for the next  *)
(* process to read.                                                        *)

DirsOf(rs, type) == UNION {rs[p].dirs : p \in Of(rs, type)}
Told(rs) == DirsOf(rs, "turn")

LEMMA DirsJoined ==
  ASSUME NEW rs \in Seq(Recs), NEW t \in Seq(Recs), NEW type
  PROVE  DirsOf(rs \o t, type) = DirsOf(rs, type) \cup DirsOf(t, type)
<1> DEFINE u == rs \o t
<1>1. /\ Len(rs) \in Nat /\ Len(t) \in Nat /\ DOMAIN rs = 1..Len(rs) /\ DOMAIN t = 1..Len(t)
      /\ DOMAIN u = 1..(Len(rs) + Len(t)) /\ \A p \in 1..Len(rs) : u[p] = rs[p]
      /\ \A p \in 1..Len(t) : u[Len(rs) + p] = t[p]
  OBVIOUS
<1> HIDE DEF u
<1>2. ASSUME NEW p \in DOMAIN u
      PROVE  (p \in DOMAIN rs /\ u[p] = rs[p]) \/ \E q \in DOMAIN t : u[p] = t[q]
  <2>1. CASE p \in 1..Len(rs)
    BY <1>1, <2>1
  <2>2. CASE p \notin 1..Len(rs)
    <3>1. p - Len(rs) \in 1..Len(t) /\ Len(rs) + (p - Len(rs)) = p
      BY <1>1, <1>2, <2>2
    <3> QED
      BY <1>1, <3>1
  <2> QED
    BY <2>1, <2>2
<1>3. \A p \in DOMAIN rs : p \in DOMAIN u /\ u[p] = rs[p]
  BY <1>1
<1>4. \A q \in DOMAIN t : \E p \in DOMAIN u : u[p] = t[q]
  BY <1>1
<1>5. DirsOf(u, type) \subseteq DirsOf(rs, type) \cup DirsOf(t, type)
  BY <1>2 DEF DirsOf, Of
<1>6. DirsOf(rs, type) \cup DirsOf(t, type) \subseteq DirsOf(u, type)
  BY <1>3, <1>4 DEF DirsOf, Of
<1> QED
  BY <1>5, <1>6 DEF u

LEMMA DirsAdded ==
  ASSUME NEW rs \in Seq(Recs), NEW r \in Recs, NEW type
  PROVE  /\ r.type = type => DirsOf(rs \o <<r>>, type) = DirsOf(rs, type) \cup r.dirs
         /\ r.type # type => DirsOf(rs \o <<r>>, type) = DirsOf(rs, type)
<1>1. <<r>> \in Seq(Recs) /\ DOMAIN <<r>> = {1} /\ <<r>>[1] = r
  OBVIOUS
<1>2. r.type = type => DirsOf(<<r>>, type) = r.dirs
  BY <1>1 DEF DirsOf, Of
<1>3. r.type # type => DirsOf(<<r>>, type) = {}
  BY <1>1 DEF DirsOf, Of
<1>4. DirsOf(rs \o <<r>>, type) = DirsOf(rs, type) \cup DirsOf(<<r>>, type)
  BY <1>1, DirsJoined
<1> QED
  BY <1>2, <1>3, <1>4

LEMMA NoDirs ==
  ASSUME NEW rs \in Seq(Recs), NEW t \in Seq(Recs), NEW type, \A i \in DOMAIN t : t[i].type # type
  PROVE  DirsOf(rs \o t, type) = DirsOf(rs, type)
<1>1. DirsOf(t, type) = {}
  BY DEF DirsOf, Of
<1>2. DirsOf(rs \o t, type) = DirsOf(rs, type) \cup DirsOf(t, type)
  BY DirsJoined
<1> QED
  BY <1>1, <1>2

LEMMA AppendJoins == ASSUME NEW rs \in Seq(Recs), NEW r \in Recs PROVE Append(rs, r) = rs \o <<r>>
OBVIOUS

Fenced ==
  /\ lives >= 1
  /\ pc \notin {"off", "lost"} => Told(file) \subseteq fence
  /\ \A n \in DOMAIN stack : Told(stack[n].file) \subseteq fence
  /\ granting \subseteq fence
  /\ kind = "session" /\ pc \in {"off", "lost"} => granting = {}

\* What only a process that goes by what is on record may rely on.
OnRecord ==
  "agent" \notin scope.askers =>
    /\ Told(file) \subseteq Granted(file)
    /\ \A n \in DOMAIN stack : Told(stack[n].file) \subseteq Granted(stack[n].file)
    /\ kind = "session" => fence \subseteq Granted(file)
    /\ program = "session" /\ stack # <<>> => fence \subseteq Granted(stack[1].file)

ByTheBook == "agent" \notin scope.askers \/ scope.lives <= 1

FenceInv == ByTheBook => Fenced /\ OnRecord

LEMMA GrantedIs == ASSUME NEW rs PROVE Granted(rs) = DirsOf(rs, "dir_grant")
BY DEF Granted, DirsOf

LEMMA SessionFenced ==
  ASSUME TypeInv, UNCHANGED scope, SessionStep, ByTheBook, Fenced, OnRecord
  PROVE  Fenced' /\ OnRecord'
<1>1. /\ file \in Seq(Recs) /\ lives \in Nat /\ lives >= 1 /\ granting \subseteq fence
      /\ pc \notin {"off", "lost"} => Told(file) \subseteq fence
      /\ pc \in {"off", "lost"} => granting = {}
  BY DEF TypeInv, TypeOK, Fenced, SessionStep, Innermost
<1>2. kind = "session" /\ stack = <<>> /\ DOMAIN stack = {} /\ UNCHANGED <<program, kind, stack>>
  BY EmptyTypes DEF TypeInv, Stacked, SessionStep, Innermost
<1>3. "agent" \notin scope.askers => Told(file) \subseteq Granted(file) /\ fence \subseteq Granted(file)
  BY <1>2 DEF OnRecord
<1> SUFFICES /\ lives' >= 1
             /\ pc' \notin {"off", "lost"} => Told(file') \subseteq fence'
             /\ granting' \subseteq fence'
             /\ pc' \in {"off", "lost"} => granting' = {}
             /\ "agent" \notin scope.askers => /\ Told(file') \subseteq Granted(file')
                                              /\ fence' \subseteq Granted(file')
  BY <1>2 DEF Fenced, OnRecord
<1>4. CASE Grant
  <2>1. PICK d \in Dirs :
           /\ fence' = fence \cup {d} /\ granting' = {d}
           /\ \/ d \in fence /\ file' = file \o <<>>
              \/ \E r : Idle(r) /\ r.type = "dir_grant" /\ r.dirs = {d} /\ file' = file \o <<r>>
    BY <1>4, GrantLogs
  <2>2. pc = "prompt" /\ pc' = "telling" /\ lives' = lives
    BY <1>4 DEF Grant
  <2>3. CASE d \in fence /\ file' = file \o <<>>
    <3>1. file' = file
      BY <1>1, <2>3
    <3> QED
      BY <1>1, <1>3, <2>1, <2>2, <2>3, <3>1
  <2>4. CASE \E r : Idle(r) /\ r.type = "dir_grant" /\ r.dirs = {d} /\ file' = file \o <<r>>
    <3>1. PICK r : Idle(r) /\ r.type = "dir_grant" /\ r.dirs = {d} /\ file' = file \o <<r>>
      BY <2>4
    <3>2. r \in Recs
      BY <3>1 DEF Idle
    <3>3. Told(file') = Told(file)
      BY <1>1, <3>1, <3>2, DirsAdded DEF Told
    <3>4. Granted(file') = Granted(file) \cup {d}
      BY <1>1, <3>1, <3>2, DirsAdded, GrantedIs
    <3> QED
      BY <1>1, <1>3, <2>1, <2>2, <3>3, <3>4
  <2> QED
    BY <2>1, <2>3, <2>4
<1>5. CASE Tell
  <2>1. PICK r : Idle(r) /\ r.type = "turn" /\ r.dirs = granting /\ file' = file \o <<r>>
    BY <1>5, TellLogs
  <2>2. Told(file') = Told(file) \cup granting /\ Granted(file') = Granted(file)
    BY <1>1, <2>1, DirsAdded, GrantedIs DEF Told, Idle
  <2>3. pc = "telling" /\ pc' = "prompt" /\ granting' = {} /\ UNCHANGED <<fence, lives>>
    BY <1>5 DEF Tell
  <2> QED
    BY <1>1, <1>3, <2>2, <2>3
<1>6. CASE Begin
  BY <1>1, <1>3, <1>6 DEF Begin
<1>7. CASE Label \/ Fail
  <2>1. PICK r \in Recs : file' = file \o <<r>> /\ r.type = "turn_outcome"
    BY <1>7, LabelLogs
  <2>2. Told(file') = Told(file) /\ Granted(file') = Granted(file)
    BY <1>1, <2>1, DirsAdded, GrantedIs DEF Told
  <2>3. pc \notin {"off", "lost"} /\ pc' = "prompt" /\ UNCHANGED <<fence, lives, granting>>
    BY <1>7 DEF Label, Fail
  <2> QED
    BY <1>1, <1>3, <2>2, <2>3
<1>8. ASSUME Off, Told(file') = Told(file), Granted(file') = Granted(file)
      PROVE  /\ lives' >= 1 /\ pc' = "off" /\ granting' = {} /\ fence' = {}
             /\ "agent" \notin scope.askers => Told(file') \subseteq Granted(file')
  BY <1>1, <1>3, <1>8 DEF Off
<1>9. CASE Exit
  <2>1. PICK r \in Recs : file' = file \o <<r>> /\ r.type = "session_end"
    BY <1>9, ExitLogs
  <2>2. Told(file') = Told(file) /\ Granted(file') = Granted(file)
    BY <1>1, <2>1, DirsAdded, GrantedIs DEF Told
  <2> QED
    BY <1>8, <1>9, <2>2 DEF Exit
<1>10. CASE ExitSolo \/ FailSolo
  <2>1. PICK t \in Seq(Recs), r \in Recs :
           /\ file' = file \o (t \o <<r>>) /\ OfRun(r, serial)
           /\ \A i \in DOMAIN t : InTurn(t[i], serial) /\ t[i].type = "verification"
    BY <1>10, SoloEnds
  <2>2. file' = (file \o t) \o <<r>> /\ file \o t \in Seq(Recs) /\ r.type = "session_end"
    BY <1>1, <2>1 DEF OfRun
  <2>3. Told(file \o t) = Told(file) /\ Granted(file \o t) = Granted(file)
    BY <1>1, <2>1, NoDirs, GrantedIs DEF Told
  <2>4. Told(file') = Told(file) /\ Granted(file') = Granted(file)
    BY <2>2, <2>3, DirsAdded, GrantedIs DEF Told
  <2> QED
    BY <1>8, <1>10, <2>4 DEF ExitSolo, FailSolo
<1>11. CASE Crash
  <2> DEFINE r == Record("torn", TRUE, 0)
  <2>1. r \in Recs /\ r.type = "torn"
    BY IdleRecord DEF Idle
  <2>2. file' = file \o <<>> \/ file' = file \o <<r>>
    BY <1>11 DEF Crash, Log
  <2> HIDE DEF r
  <2>3. file \o <<>> = file
    BY <1>1
  <2>4. Told(file') = Told(file) /\ Granted(file') = Granted(file)
    <3>1. Told(file \o <<r>>) = Told(file) /\ Granted(file \o <<r>>) = Granted(file)
      BY <1>1, <2>1, DirsAdded, GrantedIs DEF Told
    <3>2. CASE file' = file \o <<>>
      BY <2>3, <3>2
    <3>3. CASE file' = file \o <<r>>
      BY <3>1, <3>3
    <3> QED
      BY <2>2, <3>2, <3>3
  <2> QED
    BY <1>8, <1>11, <2>4 DEF Crash
<1>12. CASE Resume
  <2> DEFINE r == Record("session_resume", TRUE, 0)
  <2>1. r \in Recs /\ r.type = "session_resume"
    BY IdleRecord DEF Idle
  <2>2. file' = file \o <<r>>
    BY <1>12 DEF Resume, Log
  <2> HIDE DEF r
  <2>3. Told(file') = Told(file) /\ Granted(file') = Granted(file)
    BY <1>1, <2>1, <2>2, DirsAdded, GrantedIs DEF Told
  <2>4. /\ pc = "off" /\ pc' = "prompt" /\ lives' = lives + 1 /\ fence' = Granted(file)
        /\ granting' = granting /\ lives < scope.lives
    BY <1>12 DEF Resume
  <2>5. "agent" \notin scope.askers
    <3>1. scope.lives \in Nat
      BY RecordAssumption DEF TypeInv, TypeOK
    <3> QED
      BY <1>1, <2>4, <3>1 DEF ByTheBook
  <2> QED
    BY <1>1, <1>3, <2>3, <2>4, <2>5
<1>13. CASE ResumeRaises
  BY <1>1, <1>3, <1>13 DEF ResumeRaises
<1> QED
  BY <1>4, <1>5, <1>6, <1>7, <1>8, <1>9, <1>10, <1>11, <1>12, <1>13 DEF SessionStep, Exit, ExitSolo, FailSolo, Crash

\* In a turn the model is told only of what it is granted.
LEMMA AgentFenced ==
  ASSUME TypeInv, UNCHANGED scope, AgentStep, ByTheBook, Fenced, OnRecord
  PROVE  Fenced' /\ OnRecord'
<1>1. /\ kind \in Runs /\ UNCHANGED <<program, kind, stack>>
      /\ Think \/ Use \/ Request \/ Check \/ Finish
  BY DEF AgentStep, Innermost, Runs
<1>2. /\ pc = "turn" /\ pc' \in {"turn", "returned"} /\ UNCHANGED <<granting, lives>>
      /\ fence \subseteq fence' /\ ("agent" \notin scope.askers => fence' = fence)
  BY <1>1, TurnLogs
<1>3. PICK t \in Seq(Recs) : file' = file \o t /\ \A i \in DOMAIN t : t[i] \in Turnwise(serial)
  BY <1>1, TurnLogs
<1>4. file \in Seq(Recs)
  BY DEF TypeInv, TypeOK
<1>5. Told(t) \subseteq fence'
  BY <1>3 DEF Told, DirsOf, Of, Turnwise
<1>6. Told(file') = Told(file) \cup Told(t)
  BY <1>3, <1>4, DirsJoined DEF Told
<1>7. Granted(file') = Granted(file)
  <2>1. \A i \in DOMAIN t : t[i].type # "dir_grant"
    BY <1>3 DEF Turnwise, InTurn, Judged
  <2> QED
    BY <1>3, <1>4, <2>1, NoDirs, GrantedIs
<1>8. "agent" \notin scope.askers => Told(file') = Told(file)
  <2>1. "agent" \notin scope.askers => \A i \in DOMAIN t : t[i].type # "turn"
    BY <1>3 DEF Turnwise
  <2> QED
    BY <1>3, <1>4, <2>1, NoDirs DEF Told
<1>9. Fenced'
  <2>1. Told(file) \subseteq fence
    BY <1>2 DEF Fenced
  <2> QED
    BY <1>1, <1>2, <1>5, <1>6, <2>1 DEF Fenced
<1>10. OnRecord'
  BY <1>1, <1>2, <1>7, <1>8 DEF OnRecord
<1> QED
  BY <1>9, <1>10

LEMMA HarnessFenced ==
  ASSUME TypeInv, HarnessStep, ByTheBook, Fenced, OnRecord
  PROVE  Fenced' /\ OnRecord'
<1>1. UNCHANGED <<scope, fence, granting, lives, program>>
  BY DEF HarnessStep, BeginTask, LayoutFails, EndTask, EndBehaviour, TaskRaises, BatchEnds, Spawn,
         ChildEnds, ChildRaises, Unwind, Next1, Resumes, Kept
<1>2. /\ file \in Seq(Recs) /\ stack \in Seq(Frames) /\ Len(stack) \in Nat /\ DOMAIN stack = 1..Len(stack)
      /\ serial \in Nat
  BY DEF TypeInv, TypeOK
<1>3. ASSUME file' = <<>>, stack' = <<>> \/ stack' = stack, kind' = "none"
      PROVE  Fenced' /\ OnRecord'
  <2>1. Told(<<>>) = {}
    BY EmptyTypes DEF Told, DirsOf, Of
  <2> QED
    BY <1>1, <1>3, <2>1, EmptyTypes DEF Fenced, OnRecord
<1>4. ASSUME NEW r \in Recs, r.type = "session_start", file' = <<r>>
      PROVE  Told(file') = {}
  <2>1. DOMAIN <<r>> = {1} /\ <<r>>[1] = r
    OBVIOUS
  <2> QED
    BY <1>4, <2>1 DEF Told, DirsOf, Of
<1>5. ASSUME NEW f \in Seq(Recs), NEW r \in Recs, r.type \notin {"turn", "dir_grant"}, file' = Append(f, r)
      PROVE  Told(file') = Told(f) /\ Granted(file') = Granted(f)
  <2>1. file' = f \o <<r>> /\ r.type # "turn" /\ r.type # "dir_grant"
    BY <1>5, AppendJoins
  <2>2. Told(file') = Told(f)
    BY <1>5, <2>1, DirsAdded DEF Told
  <2>3. Granted(file') = Granted(f)
    BY <1>5, <2>1, DirsAdded, GrantedIs
  <2> QED
    BY <2>2, <2>3
<1>6. CASE BeginTask
  <2> DEFINE r == Record("session_start", TRUE, 0)
  <2>1. r \in Recs /\ r.type = "session_start"
    BY IdleRecord DEF Idle
  <2>2. file' = <<r>> /\ pc' = "turn" /\ stack' = stack
    BY <1>6 DEF BeginTask
  <2> HIDE DEF r
  <2>3. kind' \in {"task", "behaviour"}
    BY <1>6 DEF BeginTask, TypeInv, TypeOK
  <2>4. Told(file') = {}
    BY <1>4, <2>1, <2>2
  <2> QED
    BY <1>1, <2>2, <2>3, <2>4 DEF Fenced, OnRecord
<1>7. CASE LayoutFails \/ EndTask \/ EndBehaviour \/ TaskRaises \/ BatchEnds
  BY <1>3, <1>7 DEF LayoutFails, EndTask, EndBehaviour, TaskRaises, BatchEnds, Next1
<1>8. CASE Spawn
  <2> DEFINE r == [Record("session_start", TRUE, 0) EXCEPT !.child = TRUE]
  <2>1. r \in Recs /\ r.type = "session_start"
    BY ChildRecord DEF Idle
  <2>2. file' = <<r>> /\ stack' = Append(stack, Frame) /\ kind' = "child" /\ pc = "turn" /\ pc' = pc
    BY <1>8 DEF Spawn
  <2> HIDE DEF r
  <2>3. Told(file') = {}
    BY <1>4, <2>1, <2>2
  <2>4. Frame \in Frames /\ Frame.file = file /\ kind # "none"
    BY <2>2, FrameType DEF TypeInv, Stacked, Frame
  <2>5. /\ DOMAIN stack' = 1..(Len(stack) + 1) /\ stack'[Len(stack) + 1] = Frame /\ stack' # <<>>
        /\ \A n \in 1..Len(stack) : stack'[n] = stack[n]
    BY <1>2, <2>2, <2>4, Longer
  <2>6. \A n \in DOMAIN stack' : (n \in DOMAIN stack /\ stack'[n] = stack[n]) \/ stack'[n].file = file
    BY <1>2, <2>4, <2>5
  <2>7. Fenced'
    BY <1>1, <2>2, <2>3, <2>6 DEF Fenced
  <2>8. OnRecord'
    <3> SUFFICES ASSUME "agent" \notin scope.askers
                 PROVE  /\ \A n \in DOMAIN stack' : Told(stack'[n].file) \subseteq Granted(stack'[n].file)
                        /\ program = "session" => fence \subseteq Granted(stack'[1].file)
      BY <1>1, <2>2, <2>3 DEF OnRecord
    <3>1. \A n \in DOMAIN stack' : Told(stack'[n].file) \subseteq Granted(stack'[n].file)
      BY <2>6 DEF OnRecord
    <3>2. CASE stack = <<>>
      <4>1. kind # "child"
        BY <3>2 DEF TypeInv, Stacked
      <4>2. program = "session" => kind = "session"
        BY <2>4, <4>1 DEF TypeInv, TypeOK, Stacked, Runs
      <4>3. stack'[1].file = file
        BY <2>4, <2>5, <3>2
      <4> QED
        BY <3>1, <4>2, <4>3 DEF OnRecord
    <3>3. CASE stack # <<>>
      <4>1. 1 \in 1..Len(stack)
        BY <1>2, <3>3
      <4>2. stack'[1] = stack[1]
        BY <2>5, <4>1
      <4> QED
        BY <3>1, <3>3, <4>2 DEF OnRecord
    <3> QED
      BY <3>2, <3>3
  <2> QED
    BY <2>7, <2>8
<1>9. CASE ChildEnds \/ ChildRaises
  <2> DEFINE n == Len(stack)
             r == Record("tool_call", TRUE, serial)
  <2>1. kind = "child" /\ pc \in {"turn", "returned"} /\ Resumes(stack[n])
    BY <1>9 DEF ChildEnds, ChildRaises
  <2>2. stack # <<>> /\ n \in DOMAIN stack /\ n \in Nat /\ n # 0 /\ 1 \in DOMAIN stack
    BY <1>2, <2>1 DEF TypeInv, Stacked
  <2>3. /\ stack' = SubSeq(stack, 1, n - 1) /\ pc' = "turn" /\ kind' = stack[n].kind
        /\ file' = Append(stack[n].file, r)
    BY <2>1 DEF Resumes
  <2>4. r \in Recs /\ r.type = "tool_call"
    <3>1. PICK yes \in BOOLEAN : yes = TRUE
      OBVIOUS
    <3>2. "tool_call" \in Types
      BY DEF Types
    <3> QED
      BY <1>2, <3>1, <3>2, RecordFields
  <2> HIDE DEF r
  <2>5. stack[n].file \in Seq(Recs)
    <3>1. stack[n] \in Frames
      BY <1>2, <2>2
    <3> QED
      BY <3>1 DEF Frames
  <2>6. Told(file') = Told(stack[n].file) /\ Granted(file') = Granted(stack[n].file)
    BY <1>5, <2>3, <2>4, <2>5
  <2>7. DOMAIN stack' = 1..(n - 1) /\ \A i \in 1..(n - 1) : i \in DOMAIN stack /\ stack'[i] = stack[i]
    BY <1>2, <2>2, <2>3
  <2>8. stack' # <<>> => 1 \in DOMAIN stack'
    BY <2>2, <2>3, <2>7
  <2> HIDE DEF n
  <2>9. Fenced'
    BY <1>1, <2>2, <2>3, <2>6, <2>7 DEF Fenced
  <2>10. OnRecord'
    <3> SUFFICES ASSUME "agent" \notin scope.askers
                 PROVE  /\ Told(file') \subseteq Granted(file')
                        /\ \A i \in DOMAIN stack' : Told(stack'[i].file) \subseteq Granted(stack'[i].file)
                        /\ kind' = "session" => fence \subseteq Granted(file')
                        /\ program = "session" /\ stack' # <<>> => fence \subseteq Granted(stack'[1].file)
      BY <1>1 DEF OnRecord
    <3>1. kind' = "session" => fence \subseteq Granted(file')
      <4> SUFFICES ASSUME stack[n].kind = "session" PROVE fence \subseteq Granted(stack[n].file)
        BY <2>3, <2>6
      <4>1. n = 1
        BY <2>2 DEF TypeInv, Stacked
      <4>2. program = "session"
        BY <2>2, <4>1 DEF TypeInv, Stacked
      <4> QED
        BY <2>2, <4>1, <4>2 DEF OnRecord
    <3>2. program = "session" /\ stack' # <<>> => fence \subseteq Granted(stack'[1].file)
      BY <2>2, <2>7, <2>8 DEF OnRecord
    <3> QED
      BY <2>2, <2>6, <2>7, <3>1, <3>2 DEF OnRecord
  <2> QED
    BY <2>9, <2>10
<1>10. CASE Unwind
  <2>1. CASE program = "session" /\ ~solo
    <3> DEFINE r == Outcome("error")
    <3>1. kind = "child" /\ stack # <<>> /\ 1 \in DOMAIN stack
      BY <1>2, <1>10, <2>1 DEF Unwind, TypeInv, Stacked
    <3>2. file' = Append(stack[1].file, r) /\ pc' = "prompt" /\ kind' = "session" /\ stack' = <<>>
      BY <1>10, <2>1 DEF Unwind
    <3>3. r \in Recs /\ r.type = "turn_outcome"
      BY LabelRecord DEF TypeInv, TypeOK
    <3> HIDE DEF r
    <3>4. stack[1].file \in Seq(Recs)
      <4>1. stack[1] \in Frames
        BY <1>2, <3>1
      <4> QED
        BY <4>1 DEF Frames
    <3>5. Told(file') = Told(stack[1].file) /\ Granted(file') = Granted(stack[1].file)
      BY <1>5, <3>2, <3>3, <3>4
    <3>6. Fenced'
      BY <1>1, <3>1, <3>2, <3>5, EmptyTypes DEF Fenced
    <3>7. OnRecord'
      BY <1>1, <2>1, <3>1, <3>2, <3>5, EmptyTypes DEF OnRecord
    <3> QED
      BY <3>6, <3>7
  <2>2. CASE ~(program = "session" /\ ~solo)
    BY <1>3, <1>10, <2>2 DEF Unwind
  <2> QED
    BY <2>1, <2>2
<1> QED
  BY <1>6, <1>7, <1>8, <1>9, <1>10 DEF HarnessStep

\* What the model was told it may read, it may read: a session that is resumed
\* admits what its rehydrated history names (ToldIsGranted; session.py,
\* _replay_dir_grants), wherever all grants are on record.  One by request_dir
\* is not, so either nothing asks for one or nobody resumes.
THEOREM RehydratedFence == FlySpec => [](ByTheBook => ToldIsGranted)
<1>1. FlyInit => FenceInv
  <2> SUFFICES ASSUME FlyInit PROVE Fenced /\ OnRecord
    BY DEF FenceInv
  <2> DEFINE r == Record("session_start", TRUE, 0)
  <2>1. r \in Recs /\ r.type = "session_start"
    BY IdleRecord DEF Idle
  <2>2. /\ file = <<>> \/ file = <<r>>
        /\ stack = <<>> /\ lives = 1 /\ fence = {} /\ granting = {}
    BY DEF FlyInit
  <2> HIDE DEF r
  <2>3. DOMAIN <<r>> = {1} /\ <<r>>[1] = r
    OBVIOUS
  <2>4. Told(<<>>) = {} /\ Told(<<r>>) = {}
    BY <2>1, <2>3, EmptyTypes DEF Told, DirsOf, Of
  <2> QED
    BY <2>2, <2>4, EmptyTypes DEF Fenced, OnRecord
<1>2. TypeInv /\ FenceInv /\ [FlyNext]_fly => FenceInv'
  <2> SUFFICES ASSUME TypeInv, FenceInv, [FlyNext]_fly PROVE FenceInv'
    OBVIOUS
  <2>1. CASE UNCHANGED fly
    BY <2>1 DEF fly, vars, flyVars, FenceInv, ByTheBook, Fenced, OnRecord
  <2>2. CASE FlyNext
    <3>1. scope' = scope
      BY <2>2 DEF FlyNext, HarnessStep, BeginTask, LayoutFails, EndTask, EndBehaviour, TaskRaises,
                  BatchEnds, Spawn, ChildEnds, ChildRaises, Unwind, Next1, Resumes, Kept
    <3> SUFFICES ASSUME ByTheBook PROVE Fenced' /\ OnRecord'
      BY <3>1 DEF FenceInv, ByTheBook
    <3> QED
      BY <2>2, <3>1, SessionFenced, AgentFenced, HarnessFenced DEF FenceInv, FlyNext
  <2> QED
    BY <2>1, <2>2
<1>3. FenceInv => (ByTheBook => ToldIsGranted)
  BY DEF FenceInv, Fenced, ToldIsGranted, Told, DirsOf
<1> QED
  BY <1>1, <1>2, <1>3, TypesHold, PTL DEF FlySpec

LEMMA NatInd ==
  ASSUME NEW A, 0 \in A, \A k \in Nat : k \in A => k + 1 \in A
  PROVE  Nat \subseteq A
<1> SUFFICES ASSUME Nat \ A # {} PROVE FALSE
  OBVIOUS
<1> DEFINE R == OpToRel(<, Nat)
<1>1. IsWellFoundedOn(R, Nat)
  BY NatLessThanWellFounded
<1>2. PICK m \in Nat \ A : \A y \in Nat \ A : ~(<<y, m>> \in R)
  <2> HIDE DEF R
  <2>1. Nat \ A \in SUBSET Nat
    OBVIOUS
  <2> QED
    BY <1>1, <2>1, WFMin
<1>3. \A y \in Nat \ A : ~(y < m)
  BY <1>2 DEF OpToRel
<1> HIDE DEF R
<1>4. m \in Nat /\ m \notin A /\ m # 0 /\ m - 1 \in Nat
  OBVIOUS
<1>5. m - 1 \in A
  BY <1>3, <1>4
<1>6. (m - 1) + 1 \in A
  BY <1>4, <1>5
<1> QED
  BY <1>4, <1>6

-----------------------------------------------------------------------------
(* What is parsed of a file of which at most the last line is torn.  The   *)
(* library states induction with an operator for the predicate; here it is *)
(* the set of the numbers that have it.                                    *)

TornLast(rs) == \A p \in DOMAIN rs : rs[p].type = "torn" => p = Len(rs)

Sound(rs) == IF Len(rs) # 0 /\ rs[Len(rs)].type = "torn" THEN SubSeq(rs, 1, Len(rs) - 1) ELSE rs

LEMMA ParsedIsSound ==
  ASSUME NEW R, NEW rs \in Seq(R), TornLast(rs)
  PROVE  Parsed(rs) = Sound(rs)
<1> DEFINE Body(f, n) == IF n = 0 THEN <<>>
                         ELSE IF rs[n].type = "torn" THEN f[n - 1] ELSE Append(f[n - 1], rs[n])
           A == {k \in Nat : \E f : f = [n \in 0..k |-> Body(f, n)]}
<1>1. Len(rs) \in Nat /\ DOMAIN rs = 1..Len(rs) /\ \A n \in 1..Len(rs) : rs[n] \in R
  OBVIOUS
<1>2. Nat \subseteq A
  <2>1. 0 \in A
    <3> DEFINE f == [n \in 0..0 |-> <<>>]
    <3>1. f = [n \in 0..0 |-> Body(f, n)]
      OBVIOUS
    <3> HIDE DEF f, Body
    <3> QED
      BY <3>1
  <2>2. ASSUME NEW k \in Nat, k \in A PROVE k + 1 \in A
    <3>1. PICK f : f = [n \in 0..k |-> Body(f, n)]
      BY <2>2
    <3> DEFINE g == [n \in 0..(k + 1) |-> IF n = k + 1 THEN Body(f, n) ELSE f[n]]
    <3>2. ASSUME NEW n \in 0..(k + 1) PROVE g[n] = Body(g, n)
      <4>1. n = 0 \/ (n - 1 \in 0..k /\ g[n - 1] = f[n - 1])
        OBVIOUS
      <4>2. Body(g, n) = Body(f, n)
        BY <4>1
      <4>3. CASE n = k + 1
        BY <4>2, <4>3
      <4>4. CASE n # k + 1
        <5>1. n \in 0..k /\ g[n] = f[n]
          BY <4>4
        <5>2. f[n] = Body(f, n)
          BY <3>1, <5>1
        <5> HIDE DEF Body, g
        <5> QED
          BY <4>2, <5>1, <5>2
      <4> QED
        BY <4>3, <4>4
    <3>3. g = [n \in 0..(k + 1) |-> Body(g, n)]
      <4> HIDE DEF Body
      <4>1. g = [n \in 0..(k + 1) |-> g[n]]
        OBVIOUS
      <4> HIDE DEF g
      <4> QED
        BY <3>2, <4>1
    <3> HIDE DEF g, Body
    <3> QED
      BY <3>3
  <2> HIDE DEF A
  <2> QED
    BY <2>1, <2>2, NatInd
<1>3. PICK f : f = [n \in 0..Len(rs) |-> Body(f, n)] /\ Parsed(rs) = f[Len(rs)]
  <2> DEFINE kept == CHOOSE kept : kept = [n \in 0..Len(rs) |-> Body(kept, n)]
  <2>1. \E f : f = [n \in 0..Len(rs) |-> Body(f, n)]
    BY <1>1, <1>2
  <2>2. kept = [n \in 0..Len(rs) |-> Body(kept, n)]
    BY <2>1
  <2>3. Parsed(rs) = kept[Len(rs)]
    BY DEF Parsed
  <2> QED
    BY <2>2, <2>3
<1> DEFINE B == {k \in Nat : k < Len(rs) => f[k] = SubSeq(rs, 1, k)}
<1>4. 0 \in B
  <2>1. f[0] = <<>>
    BY <1>1, <1>3
  <2>2. SubSeq(rs, 1, 0) = <<>>
    BY <1>1
  <2> QED
    BY <2>1, <2>2
<1>step. ASSUME NEW k \in Nat, k < Len(rs), f[k] = SubSeq(rs, 1, k), rs[k + 1].type # "torn"
         PROVE  f[k + 1] = SubSeq(rs, 1, k + 1)
  <2>1. k + 1 \in 0..Len(rs) /\ k + 1 # 0 /\ (k + 1) - 1 = k
    BY <1>1, <1>step
  <2>2. f[k + 1] = Body(f, k + 1)
    BY <1>3, <2>1
  <2>3. f[k + 1] = Append(SubSeq(rs, 1, k), rs[k + 1])
    BY <1>step, <2>1, <2>2
  <2>4. Append(SubSeq(rs, 1, k), rs[k + 1]) = SubSeq(rs, 1, k + 1)
    BY <1>1, <1>step
  <2> QED
    BY <2>3, <2>4
<1>5. ASSUME NEW k \in Nat, k \in B PROVE k + 1 \in B
  <2> SUFFICES ASSUME k + 1 < Len(rs) PROVE f[k + 1] = SubSeq(rs, 1, k + 1)
    OBVIOUS
  <2>1. rs[k + 1].type # "torn"
    BY <1>1 DEF TornLast
  <2> QED
    BY <1>1, <1>5, <1>step, <2>1
<1>6. \A k \in Nat : k < Len(rs) => f[k] = SubSeq(rs, 1, k)
  <2>1. Nat \subseteq B
    <3> HIDE DEF B
    <3> QED
      BY <1>4, <1>5, NatInd
  <2> QED
    BY <2>1
<1>7. CASE Len(rs) = 0
  BY <1>1, <1>3, <1>7 DEF Sound
<1>8. CASE Len(rs) # 0
  <2> DEFINE k == Len(rs) - 1
  <2>1. k \in Nat /\ k < Len(rs) /\ k + 1 = Len(rs) /\ f[k] = SubSeq(rs, 1, k)
    BY <1>1, <1>6, <1>8
  <2>2. CASE rs[Len(rs)].type = "torn"
    <3>1. f[Len(rs)] = Body(f, Len(rs))
      <4>1. Len(rs) \in 0..Len(rs)
        BY <1>1
      <4> HIDE DEF Body
      <4> QED
        BY <1>3, <4>1
    <3> QED
      BY <1>3, <1>8, <2>1, <2>2, <3>1 DEF Sound
  <2>3. CASE rs[Len(rs)].type # "torn"
    <3>1. f[k + 1] = SubSeq(rs, 1, k + 1)
      BY <1>step, <2>1, <2>3
    <3>2. SubSeq(rs, 1, Len(rs)) = rs
      BY <1>1
    <3> QED
      BY <1>3, <2>1, <2>3, <3>1, <3>2 DEF Sound
  <2> QED
    BY <2>2, <2>3
<1> QED
  BY <1>7, <1>8

-----------------------------------------------------------------------------
(* What training takes of a file that is in order.                         *)

\* Only what an agent does in a turn goes wrong, and the end of it.
Common(rs, n) ==
  \A p \in DOMAIN rs :
    /\ rs[p].by <= n
    /\ rs[p].type \in Judged => rs[p].by # 0
    /\ rs[p].ok = TRUE \/ rs[p].type \in Judged \cup {"turn_outcome", "session_end"}

\* The file of one run: no labels, and its end says how it went.
Whole(rs, n) ==
  /\ Common(rs, n)
  /\ \A p \in DOMAIN rs :
       /\ rs[p].by \in {0, n} /\ rs[p].type # "turn_outcome"
       /\ rs[p].type = "session_end" => p = Len(rs) /\ rs[p].by = n
       /\ rs[p].type = "session_end" /\ rs[p].ok = TRUE =>
            rs[p].ended = "completed" /\ \E q \in DOMAIN rs : rs[q].type = "tool_call"

Labelled(rs, k) == \A j \in 1..k : \E l \in Labels(rs) : rs[l].by = j

\* The file of a session: its labels stand between its turns.
Turnly(rs, n) ==
  /\ Common(rs, n)
  /\ \A l \in Labels(rs) :
       /\ rs[l].by # 0 /\ rs[l].turn = rs[l].by
       /\ rs[l].ok = TRUE => rs[l].ended = "completed"
       /\ \A p \in DOMAIN rs : rs[p].by # 0 => (l < p <=> rs[l].by < rs[p].by)
  /\ Labelled(rs, n - 1)
  /\ \A p \in DOMAIN rs : rs[p].type = "session_end" => p = Len(rs) /\ rs[p].by = 0 /\ Labelled(rs, n)

LEMMA RecordsAre ==
  ASSUME NEW rs \in Seq(Recs)
  PROVE  /\ Len(rs) \in Nat /\ DOMAIN rs = 1..Len(rs)
         /\ \A p \in DOMAIN rs : /\ p \in Nat /\ p # 0 /\ rs[p] \in Recs
                                 /\ rs[p].by \in Nat /\ rs[p].turn \in Nat /\ rs[p].ok \in BOOLEAN
<1>1. Len(rs) \in Nat /\ DOMAIN rs = 1..Len(rs) /\ \A p \in DOMAIN rs : p \in Nat /\ p # 0 /\ rs[p] \in Recs
  OBVIOUS
<1>2. \A r \in Recs : r.by \in Nat /\ r.turn \in Nat /\ r.ok \in BOOLEAN
  BY DEF Recs
<1> QED
  BY <1>1, <1>2

LEMMA WholeOnlyGood ==
  ASSUME NEW rs \in Seq(Recs), NEW n \in Nat, Whole(rs, n), WholeIsTrainable(rs),
         NEW p \in Of(rs, "model_call")
  PROVE  Good(rs, rs[p].by)
<1>1. p \in DOMAIN rs /\ rs[p].type \in Judged
  BY DEF Of, Judged
<1>2. rs[p].by = n
  BY <1>1 DEF Whole, Common
<1>3. PICK e \in DOMAIN rs : rs[e].type = "session_end" /\ rs[e].ok
  BY DEF WholeIsTrainable, Of
<1>4. e = Len(rs) /\ rs[e].by = n /\ rs[e].ended = "completed" /\ rs[e].ok = TRUE
  BY <1>3, RecordsAre DEF Whole
<1>5. ASSUME NEW q \in DOMAIN rs PROVE rs[q].ok
  <2>1. CASE rs[q].type = "session_end"
    BY <1>3, <1>4, <2>1 DEF Whole
  <2>2. CASE rs[q].type # "session_end"
    <3>1. rs[q].type # "turn_outcome" /\ (rs[q].ok = TRUE \/ rs[q].type \in Judged)
      BY <2>2 DEF Whole, Common
    <3>2. rs[q].ok \/ rs[q].type \notin Judged
      BY DEF WholeIsTrainable, Judged
    <3> QED
      BY <3>1, <3>2
  <2> QED
    BY <2>1, <2>2
<1>6. e \in Of(rs, "turn_outcome") \cup Of(rs, "session_end")
  BY <1>3 DEF Of
<1> QED
  BY <1>2, <1>4, <1>5, <1>6 DEF Good

LEMMA WholeAllGood ==
  ASSUME NEW rs \in Seq(Recs), NEW n \in Nat, Whole(rs, n), Of(rs, "session_end") # {},
         NEW p \in Of(rs, "model_call"), Good(rs, rs[p].by)
  PROVE  WholeIsTrainable(rs)
<1>1. p \in DOMAIN rs /\ rs[p].type \in Judged
  BY DEF Of, Judged
<1>2. rs[p].by = n
  BY <1>1 DEF Whole, Common
<1>3. PICK e \in DOMAIN rs : rs[e].type = "session_end"
  BY DEF Of
<1>4. e = Len(rs) /\ rs[e].by = n /\ rs[e].ok
  BY <1>2, <1>3 DEF Whole, Good
<1>5. \A q \in Of(rs, "session_end") : e <= q
  BY <1>4, RecordsAre DEF Whole, Of
<1>6. PICK c \in DOMAIN rs : rs[c].type = "tool_call"
  BY <1>3, <1>4, RecordsAre DEF Whole
<1>7. ASSUME NEW q \in DOMAIN rs, rs[q].type \in Judged PROVE rs[q].ok
  <2>1. rs[q].by = n
    BY <1>7 DEF Whole, Common
  <2> QED
    BY <1>2, <2>1 DEF Good
<1> QED
  BY <1>3, <1>4, <1>5, <1>6, <1>7 DEF WholeIsTrainable, Of, Judged

\* What a turn wrote stands between the label before it and its own.
LEMMA InSegment ==
  ASSUME NEW rs \in Seq(Recs), NEW n \in Nat, Turnly(rs, n), NEW l \in Labels(rs),
         NEW q \in DOMAIN rs, rs[q].by = rs[l].by, rs[q].type # "turn_outcome"
  PROVE  q \in Segment(rs, l)
<1>1. l \in DOMAIN rs /\ rs[l].type = "turn_outcome" /\ rs[l].by # 0
  BY DEF Labels, Of, Turnly
<1>2. ~(l < q) /\ l # q
  BY <1>1, RecordsAre DEF Turnly
<1>3. q \in 1..(l - 1)
  BY <1>1, <1>2, RecordsAre
<1>4. ASSUME NEW m \in Labels(rs), m \in q..(l - 1) PROVE FALSE
  <2>1. m \in DOMAIN rs /\ rs[m].type = "turn_outcome"
    BY <1>4 DEF Labels, Of
  <2>2. m < l /\ q <= m
    BY <1>1, <1>4, <2>1, RecordsAre
  <2>3. rs[m].by < rs[l].by
    BY <1>1, <1>4, <2>2 DEF Turnly
  <2>4. m < q
    BY <1>1, <1>4, <2>3 DEF Turnly
  <2> QED
    BY <2>1, <2>2, <2>4, RecordsAre
<1> QED
  BY <1>3, <1>4 DEF Segment

\* Two labels never share a number.
LEMMA OneLabel ==
  ASSUME NEW rs \in Seq(Recs), NEW n \in Nat, Turnly(rs, n), NEW l \in Labels(rs), NEW m \in Labels(rs),
         rs[l].by = rs[m].by
  PROVE  l = m
<1>1. l \in DOMAIN rs /\ m \in DOMAIN rs /\ rs[l].by # 0
  BY DEF Labels, Of, Turnly
<1>2. ~(l < m) /\ ~(m < l)
  BY <1>1, RecordsAre DEF Turnly
<1> QED
  BY <1>1, <1>2, RecordsAre

\* A model call is filed under the turn that made it.
LEMMA FiledByTurn ==
  ASSUME NEW rs \in Seq(Recs), NEW n \in Nat, Turnly(rs, n), NEW p \in Of(rs, "model_call")
  PROVE  Turn(rs, p) = rs[p].by
<1> DEFINE b == rs[p].by
           before == {l \in Labels(rs) : l < p}
           last == CHOOSE l \in before : \A m \in before : m <= l
<1>1. p \in DOMAIN rs /\ b # 0 /\ b \in Nat /\ b <= n
  <2>1. p \in DOMAIN rs /\ rs[p].type \in Judged
    BY DEF Of, Judged
  <2> QED
    BY <2>1, RecordsAre DEF Turnly, Common
<1>2. \A l \in Labels(rs) : l \in DOMAIN rs /\ rs[l].by # 0 /\ rs[l].by \in Nat /\ (l < p <=> rs[l].by < b)
  BY <1>1, RecordsAre DEF Turnly, Labels, Of
<1>3. CASE b = 1
  <2>1. before = {}
    BY <1>2, <1>3
  <2> QED
    BY <1>3, <2>1 DEF Turn
<1>4. CASE b # 1
  <2>1. b - 1 \in 1..(n - 1)
    BY <1>1, <1>4
  <2>2. PICK k \in Labels(rs) : rs[k].by = b - 1
    BY <2>1 DEF Turnly, Labelled
  <2>3. k \in before
    BY <1>1, <1>2, <2>2
  <2>4. ASSUME NEW m \in before PROVE m <= k
    <3>1. m \in Labels(rs) /\ rs[m].by < b
      BY <1>2
    <3>2. ~(rs[k].by < rs[m].by)
      BY <1>1, <1>2, <2>2, <3>1
    <3>3. ~(k < m)
      BY <1>2, <2>2, <3>1, <3>2 DEF Turnly
    <3> QED
      BY <1>2, <2>2, <3>1, <3>3, RecordsAre
  <2>5. last \in before /\ \A m \in before : m <= last
    BY <2>3, <2>4
  <2>6. last = k
    BY <1>2, <2>2, <2>3, <2>4, <2>5, RecordsAre
  <2>7. Turn(rs, p) = rs[last].turn + 1
    BY <2>3 DEF Turn
  <2>8. rs[k].turn = b - 1
    BY <2>2 DEF Turnly
  <2> HIDE DEF last, before
  <2>9. Turn(rs, p) = (b - 1) + 1
    BY <2>6, <2>7, <2>8
  <2> QED
    BY <1>1, <2>9
<1> QED
  BY <1>3, <1>4

LEMMA TurnlyOnlyGood ==
  ASSUME NEW rs \in Seq(Recs), NEW n \in Nat, Turnly(rs, n), NEW p \in Of(rs, "model_call"),
         Turn(rs, p) \in Trainable(rs)
  PROVE  Good(rs, rs[p].by)
<1> DEFINE b == rs[p].by
           Tainting == {"permission", "model_call", "manifest", "spec"}
<1>1. b \in Trainable(rs) /\ p \in DOMAIN rs
  BY FiledByTurn DEF Of
<1>2. PICK l \in Labels(rs) : rs[l].turn = b /\ rs[l].ok /\ ~Went(rs, l, "verification", FALSE)
  BY <1>1 DEF Trainable
<1>3. \A type \in Tainting : b \notin Tainted(rs, type)
  BY <1>1 DEF Trainable
<1>4. l \in DOMAIN rs /\ rs[l].type = "turn_outcome" /\ rs[l].by = b /\ b # 0 /\ rs[l].ended = "completed"
  <2>1. rs[l].by = b /\ b # 0
    BY <1>2 DEF Turnly
  <2>2. l \in DOMAIN rs /\ rs[l].type = "turn_outcome"
    BY DEF Labels, Of
  <2>3. rs[l].ok = TRUE
    BY <1>2, <2>2, RecordsAre
  <2> QED
    BY <2>1, <2>2, <2>3 DEF Turnly
<1>5. ASSUME NEW q \in DOMAIN rs, rs[q].by = b, ~rs[q].ok PROVE FALSE
  <2>1. rs[q].ok = FALSE /\ rs[q].type \in Judged \cup {"turn_outcome", "session_end"}
    BY <1>5, RecordsAre DEF Turnly, Common
  <2>2. rs[q].type # "session_end"
    BY <1>4, <1>5 DEF Turnly
  <2>3. rs[q].type # "turn_outcome"
    <3> SUFFICES ASSUME rs[q].type = "turn_outcome" PROVE FALSE
      OBVIOUS
    <3>1. q \in Labels(rs)
      BY DEF Labels, Of
    <3>2. q = l
      BY <1>4, <1>5, <3>1, OneLabel
    <3> QED
      BY <1>2, <1>5, <3>2
  <2>4. q \in Segment(rs, l)
    BY <1>4, <1>5, <2>3, InSegment
  <2>5. Went(rs, l, rs[q].type, FALSE)
    BY <2>1, <2>4 DEF Went
  <2>6. rs[q].type \in Tainting
    BY <1>2, <2>1, <2>2, <2>3, <2>5 DEF Judged
  <2>7. b \in Tainted(rs, rs[q].type)
    BY <1>2, <2>5 DEF Tainted
  <2> QED
    BY <1>3, <2>6, <2>7
<1>6. l \in Of(rs, "turn_outcome") \cup Of(rs, "session_end")
  BY DEF Labels
<1> QED
  BY <1>4, <1>5, <1>6 DEF Good

LEMMA TurnlyAllGood ==
  ASSUME NEW rs \in Seq(Recs), NEW n \in Nat, Turnly(rs, n), Of(rs, "session_end") # {},
         NEW p \in Of(rs, "model_call"), Good(rs, rs[p].by)
  PROVE  Labels(rs) # {} /\ Turn(rs, p) \in Trainable(rs)
<1> DEFINE b == rs[p].by
<1>1. p \in DOMAIN rs /\ b # 0 /\ b \in Nat /\ b <= n
  <2>1. p \in DOMAIN rs /\ rs[p].type \in Judged
    BY DEF Of, Judged
  <2> QED
    BY <2>1, RecordsAre DEF Turnly, Common
<1>2. Labelled(rs, n)
  BY DEF Turnly, Of
<1>3. PICK l \in Labels(rs) : rs[l].by = b
  BY <1>1, <1>2 DEF Labelled
<1>4. l \in DOMAIN rs /\ rs[l].turn = b /\ rs[l].ok
  <2>1. l \in DOMAIN rs
    BY DEF Labels, Of
  <2> QED
    BY <1>3, <2>1 DEF Turnly, Good
<1>5. ASSUME NEW type \in Judged PROVE ~Went(rs, l, type, FALSE)
  <2> SUFFICES ASSUME NEW q \in Segment(rs, l), rs[q].type = type, rs[q].ok = FALSE PROVE FALSE
    BY DEF Went
  <2>1. q \in 1..(l - 1) /\ q..(l - 1) \cap Labels(rs) = {}
    BY DEF Segment
  <2>2. q \in DOMAIN rs /\ q < l
    BY <1>4, <2>1, RecordsAre
  <2>3. rs[q].by # 0 /\ rs[q].by \in Nat /\ rs[q].by # b
    BY <1>5, <2>2, RecordsAre DEF Turnly, Common, Good
  <2>4. rs[q].by < b
    <3>1. ~(l < q)
      BY <1>4, <2>2, RecordsAre
    <3>2. ~(b < rs[q].by)
      BY <1>3, <2>2, <2>3, <3>1 DEF Turnly
    <3> QED
      BY <1>1, <2>3, <3>2
  <2>5. PICK m \in Labels(rs) : rs[m].by = rs[q].by
    BY <1>1, <1>2, <2>3, <2>4 DEF Labelled
  <2>6. m \in DOMAIN rs
    BY DEF Labels, Of
  <2>7. m < l
    BY <1>1, <1>3, <1>4, <2>4, <2>5 DEF Turnly
  <2>8. ~(m < q)
    BY <2>2, <2>3, <2>5, RecordsAre DEF Turnly
  <2>9. m \in q..(l - 1)
    BY <1>4, <2>2, <2>6, <2>7, <2>8, RecordsAre
  <2> QED
    BY <2>1, <2>9
<1>6. \A m \in Labels(rs) : rs[m].turn = b => m = l
  BY <1>3, OneLabel DEF Turnly
<1>7. \A type \in {"permission", "model_call", "manifest", "spec"} : b \notin Tainted(rs, type)
  BY <1>5, <1>6 DEF Tainted, Judged
<1>8. ~Went(rs, l, "verification", FALSE)
  BY <1>5 DEF Judged
<1>9. l <= l
  BY <1>4, RecordsAre
<1>10. b \in Trainable(rs)
  BY <1>4, <1>6, <1>7, <1>8, <1>9 DEF Trainable
<1> QED
  BY <1>3, <1>10, FiledByTurn

Lawful(rs) ==
  TornLast(rs) /\ \E n \in Nat : Whole(Sound(rs), n) \/ Turnly(Sound(rs), n)

LEMMA LawfulIsTaught ==
  ASSUME NEW kept \in Seq(Recs), Lawful(kept)
  PROVE  OnlyGood(kept) /\ AllGood(kept)
<1> DEFINE rs == Sound(kept)
<1>1. Parsed(kept) = rs
  BY ParsedIsSound DEF Lawful
<1>2. rs \in Seq(Recs)
  BY DEF Sound
<1>3. PICK n \in Nat : Whole(rs, n) \/ Turnly(rs, n)
  BY DEF Lawful
<1> HIDE DEF rs
<1>4. Whole(rs, n) => Labels(rs) = {}
  BY DEF Whole, Labels, Of
<1>5. ASSUME NEW p \in Rows(kept, scope.exclude) PROVE Good(rs, rs[p].by)
  <2>1. IsTrainable(rs, scope.exclude) /\ p \in Of(rs, "model_call")
        /\ (Labels(rs) = {} \/ Turn(rs, p) \in Trainable(rs))
    BY <1>1, <1>5 DEF Rows
  <2>2. CASE Whole(rs, n)
    <3>1. WholeIsTrainable(rs)
      BY <1>4, <2>1, <2>2 DEF IsTrainable
    <3> QED
      BY <1>2, <2>1, <2>2, <3>1, WholeOnlyGood
  <2>3. CASE Turnly(rs, n) /\ Labels(rs) # {}
    BY <1>2, <2>1, <2>3, TurnlyOnlyGood
  <2>4. CASE Turnly(rs, n) /\ Labels(rs) = {}
    <3>1. PICK e \in DOMAIN rs : rs[e].type = "session_end"
      BY <2>1 DEF IsTrainable, Of
    <3>2. Labelled(rs, n)
      BY <2>4, <3>1 DEF Turnly
    <3>3. n = 0
      BY <2>4, <3>2 DEF Labelled
    <3>4. p \in DOMAIN rs /\ rs[p].type \in Judged
      BY <2>1 DEF Of, Judged
    <3> QED
      BY <1>2, <2>4, <3>3, <3>4, RecordsAre DEF Turnly, Common
  <2> QED
    BY <1>3, <2>2, <2>3, <2>4
<1>6. ASSUME Of(rs, "session_end") # {}, ~IsRefusal(rs), ~(scope.exclude /\ Phantom(rs)),
             NEW p \in Of(rs, "model_call"), Good(rs, rs[p].by)
      PROVE  p \in Rows(kept, scope.exclude)
  <2>1. CASE Whole(rs, n)
    <3>1. WholeIsTrainable(rs)
      BY <1>2, <1>6, <2>1, WholeAllGood
    <3> QED
      BY <1>1, <1>4, <1>6, <2>1, <3>1 DEF Rows, IsTrainable
  <2>2. CASE Turnly(rs, n)
    <3>1. Labels(rs) # {} /\ Turn(rs, p) \in Trainable(rs)
      BY <1>2, <1>6, <2>2, TurnlyAllGood
    <3> QED
      BY <1>1, <1>6, <3>1 DEF Rows, IsTrainable
  <2> QED
    BY <1>3, <2>1, <2>2
<1> QED
  BY <1>1, <1>5, <1>6 DEF OnlyGood, AllGood

-----------------------------------------------------------------------------
(* How a file stays in order while it grows.                               *)

Live(rs) == \A p \in DOMAIN rs : rs[p].type \notin {"torn", "session_end"}

\* A run in hand, a session at its prompt, a session in its turn.
Running(rs, n) == Live(rs) /\ Whole(rs, n)
Between(rs, n) == Live(rs) /\ Turnly(rs, n) /\ Labelled(rs, n)
Midway(rs, n)  == Live(rs) /\ Turnly(rs, n) /\ \A l \in Labels(rs) : rs[l].by # n

LEMMA Joined ==
  ASSUME NEW rs \in Seq(Recs), NEW t \in Seq(Recs), NEW u, u = rs \o t
  PROVE  /\ u \in Seq(Recs) /\ Len(rs) \in Nat /\ DOMAIN rs = 1..Len(rs) /\ Len(u) = Len(rs) + Len(t)
         /\ \A p \in DOMAIN rs : p \in DOMAIN u /\ u[p] = rs[p] /\ p <= Len(rs)
         /\ \A p \in DOMAIN u : p \in DOMAIN rs \/ (p \in Nat /\ p > Len(rs) /\ \E q \in DOMAIN t : u[p] = t[q])
<1>1. /\ Len(rs) \in Nat /\ Len(t) \in Nat /\ DOMAIN rs = 1..Len(rs) /\ DOMAIN t = 1..Len(t)
      /\ DOMAIN u = 1..(Len(rs) + Len(t)) /\ \A p \in 1..Len(rs) : u[p] = rs[p]
      /\ \A p \in 1..Len(t) : u[Len(rs) + p] = t[p]
      /\ u \in Seq(Recs) /\ Len(u) = Len(rs) + Len(t)
  OBVIOUS
<1>2. ASSUME NEW p \in DOMAIN u, p \notin DOMAIN rs
      PROVE  p \in Nat /\ p > Len(rs) /\ \E q \in DOMAIN t : u[p] = t[q]
  <2>1. p - Len(rs) \in 1..Len(t) /\ Len(rs) + (p - Len(rs)) = p /\ p \in Nat /\ p > Len(rs)
    BY <1>1, <1>2
  <2> QED
    BY <1>1, <2>1
<1>3. \A p \in DOMAIN rs : p \in DOMAIN u /\ u[p] = rs[p] /\ p <= Len(rs)
  BY <1>1
<1> QED
  BY <1>1, <1>2, <1>3

LEMMA JoinedOne ==
  ASSUME NEW rs \in Seq(Recs), NEW r \in Recs, NEW u, u = rs \o <<r>>
  PROVE  /\ u \in Seq(Recs) /\ Len(rs) \in Nat /\ DOMAIN rs = 1..Len(rs) /\ Len(u) = Len(rs) + 1
         /\ Len(u) \in DOMAIN u /\ u[Len(u)] = r /\ Len(u) \notin DOMAIN rs
         /\ \A p \in DOMAIN rs : p \in DOMAIN u /\ u[p] = rs[p] /\ p < Len(u)
         /\ \A p \in DOMAIN u : p \in DOMAIN rs \/ p = Len(u)
<1>1. Len(rs) \in Nat /\ DOMAIN rs = 1..Len(rs) /\ u \in Seq(Recs) /\ Len(u) = Len(rs) + 1
      /\ DOMAIN u = 1..(Len(rs) + 1) /\ \A p \in 1..Len(rs) : u[p] = rs[p]
  OBVIOUS
<1>2. u[Len(rs) + 1] = r
  OBVIOUS
<1> QED
  BY <1>1, <1>2

\* What a file held it still holds.
LEMMA StillLabelled ==
  ASSUME NEW rs \in Seq(Recs), NEW t \in Seq(Recs), NEW k, Labelled(rs, k)
  PROVE  Labelled(rs \o t, k)
<1> DEFINE u == rs \o t
<1>1. \A p \in DOMAIN rs : p \in DOMAIN u /\ u[p] = rs[p]
  BY Joined
<1> HIDE DEF u
<1>2. \A l \in Labels(rs) : l \in Labels(u) /\ u[l].by = rs[l].by
  BY <1>1 DEF Labels, Of
<1>3. Labelled(u, k)
  BY <1>2 DEF Labelled
<1> QED
  BY <1>3 DEF u

\* A label keeps its place before and after what turns wrote: an idle record
\* and a record of the turn in hand come behind all labels.
Behind(r, n) ==
  /\ r \in Recs /\ r.type \notin {"turn_outcome", "session_end", "torn"}
  /\ r.by \in {0, n} /\ (r.type \in Judged => r.by # 0)
  /\ r.ok = TRUE \/ r.type \in Judged

LEMMA BehindAre ==
  /\ \A r, n : InTurn(r, n) /\ n # 0 => Behind(r, n)
  /\ \A r, n : Idle(r) /\ r.type # "torn" => Behind(r, n)
BY DEF InTurn, Idle, Behind, Judged

LEMMA RunningGrows ==
  ASSUME NEW rs \in Seq(Recs), NEW n \in Nat, Running(rs, n), NEW t \in Seq(Recs),
         \A i \in DOMAIN t : Behind(t[i], n)
  PROVE  Running(rs \o t, n)
<1> DEFINE u == rs \o t
<1>1. /\ \A p \in DOMAIN rs : p \in DOMAIN u /\ u[p] = rs[p]
      /\ \A p \in DOMAIN u : p \in DOMAIN rs \/ \E q \in DOMAIN t : u[p] = t[q]
  BY Joined
<1> HIDE DEF u
<1>2. Live(u)
  BY <1>1 DEF Running, Live, Behind
<1>3. Common(u, n)
  BY <1>1 DEF Running, Whole, Common, Behind
<1>4. \A p \in DOMAIN u : u[p].by \in {0, n} /\ u[p].type # "turn_outcome"
  BY <1>1 DEF Running, Whole, Behind
<1>5. Whole(u, n)
  BY <1>2, <1>3, <1>4 DEF Whole, Live
<1> QED
  BY <1>2, <1>5 DEF Running, u

LEMMA TurnlyGrows ==
  ASSUME NEW rs \in Seq(Recs), NEW n \in Nat, Live(rs), Turnly(rs, n), NEW t \in Seq(Recs),
         \A i \in DOMAIN t : Behind(t[i], n),
         (\A l \in Labels(rs) : rs[l].by # n) \/ (\A i \in DOMAIN t : t[i].by = 0)
  PROVE  Live(rs \o t) /\ Turnly(rs \o t, n) /\ \A l \in Labels(rs \o t) : l \in Labels(rs) /\ (rs \o t)[l] = rs[l]
<1> DEFINE u == rs \o t
<1>1. /\ Len(rs) \in Nat /\ DOMAIN rs = 1..Len(rs)
      /\ \A p \in DOMAIN rs : p \in DOMAIN u /\ u[p] = rs[p] /\ p <= Len(rs)
      /\ \A p \in DOMAIN u : p \in DOMAIN rs \/ (p \in Nat /\ p > Len(rs) /\ \E q \in DOMAIN t : u[p] = t[q])
  BY Joined
<1>2. Labelled(u, n - 1)
  BY StillLabelled DEF Turnly
<1> HIDE DEF u
<1>3. Live(u)
  BY <1>1 DEF Live, Behind
<1>4. Common(u, n)
  BY <1>1 DEF Turnly, Common, Behind
<1>5. \A l \in Labels(u) : l \in Labels(rs) /\ u[l] = rs[l] /\ l \in DOMAIN rs
  BY <1>1 DEF Labels, Of, Behind
<1>6. ASSUME NEW l \in Labels(u), NEW p \in DOMAIN u, u[p].by # 0
      PROVE  l < p <=> u[l].by < u[p].by
  <2>1. l \in DOMAIN rs /\ l \in Labels(rs) /\ u[l] = rs[l]
    BY <1>5
  <2>2. CASE p \in DOMAIN rs
    BY <1>1, <1>6, <2>1, <2>2 DEF Turnly
  <2>3. CASE p \notin DOMAIN rs
    <3>1. PICK q \in DOMAIN t : u[p] = t[q]
      BY <1>1, <2>3
    <3>2. p \in Nat /\ p > Len(rs) /\ l \in Nat /\ l <= Len(rs)
      BY <1>1, <2>1, <2>3
    <3>3. u[p].by = n /\ rs[l].by # n
      BY <1>6, <2>1, <3>1 DEF Behind
    <3>4. rs[l].by <= n /\ rs[l].by \in Nat
      BY <2>1, RecordsAre DEF Turnly, Common
    <3> QED
      BY <2>1, <3>2, <3>3, <3>4
  <2> QED
    BY <2>2, <2>3
<1>7. \A l \in Labels(u) : u[l].by # 0 /\ u[l].turn = u[l].by /\ (u[l].ok = TRUE => u[l].ended = "completed")
  BY <1>5 DEF Turnly
<1>8. Turnly(u, n)
  BY <1>2, <1>3, <1>4, <1>6, <1>7 DEF Turnly, Live
<1> QED
  BY <1>3, <1>5, <1>8 DEF u

LEMMA MidwayGrows ==
  ASSUME NEW rs \in Seq(Recs), NEW n \in Nat, Midway(rs, n), NEW t \in Seq(Recs),
         \A i \in DOMAIN t : Behind(t[i], n)
  PROVE  Midway(rs \o t, n)
<1>1. \A l \in Labels(rs) : rs[l].by # n
  BY DEF Midway
<1>2. Live(rs \o t) /\ Turnly(rs \o t, n) /\ \A l \in Labels(rs \o t) : l \in Labels(rs) /\ (rs \o t)[l] = rs[l]
  BY <1>1, TurnlyGrows DEF Midway
<1> QED
  BY <1>1, <1>2 DEF Midway

LEMMA BetweenGrows ==
  ASSUME NEW rs \in Seq(Recs), NEW n \in Nat, Between(rs, n), NEW t \in Seq(Recs),
         \A i \in DOMAIN t : Idle(t[i]) /\ t[i].type # "torn"
  PROVE  Between(rs \o t, n)
<1>1. \A i \in DOMAIN t : Behind(t[i], n) /\ t[i].by = 0
  BY BehindAre DEF Idle
<1>2. Live(rs \o t) /\ Turnly(rs \o t, n)
  BY <1>1, TurnlyGrows DEF Between
<1> QED
  BY <1>2, StillLabelled DEF Between

\* A turn begins.
LEMMA NextTurn ==
  ASSUME NEW rs \in Seq(Recs), NEW n \in Nat
  PROVE  /\ Between(rs, n) => Midway(rs, n + 1)
         /\ Running(rs, 0) => Running(rs, 1)
<1>1. ASSUME Between(rs, n) PROVE Midway(rs, n + 1)
  <2>1. Common(rs, n + 1)
    BY <1>1, RecordsAre DEF Between, Turnly, Common
  <2>2. (n + 1) - 1 = n
    OBVIOUS
  <2>3. Turnly(rs, n + 1)
    BY <1>1, <2>1, <2>2 DEF Between, Turnly, Live
  <2>4. \A l \in Labels(rs) : rs[l].by # n + 1
    BY <1>1, RecordsAre DEF Between, Turnly, Common, Labels, Of
  <2> QED
    BY <1>1, <2>3, <2>4 DEF Between, Midway
<1>2. ASSUME Running(rs, 0) PROVE Running(rs, 1)
  <2>1. Common(rs, 1)
    BY <1>2, RecordsAre DEF Running, Whole, Common
  <2>2. Whole(rs, 1)
    BY <1>2, <2>1 DEF Running, Whole, Live
  <2> QED
    BY <1>2, <2>2 DEF Running
<1> QED
  BY <1>1, <1>2

\* A turn is labelled.
LEMMA LabelGrows ==
  ASSUME NEW rs \in Seq(Recs), NEW n \in Nat, Midway(rs, n), n # 0, NEW r \in Recs,
         r.type = "turn_outcome", r.by = n, r.turn = n, r.ok = TRUE => r.ended = "completed"
  PROVE  Between(rs \o <<r>>, n)
<1> DEFINE u == rs \o <<r>>
<1>1. /\ Len(rs) \in Nat /\ DOMAIN rs = 1..Len(rs) /\ Len(u) = Len(rs) + 1
      /\ Len(u) \in DOMAIN u /\ u[Len(u)] = r /\ Len(u) \notin DOMAIN rs
      /\ \A p \in DOMAIN rs : p \in DOMAIN u /\ u[p] = rs[p] /\ p < Len(u)
      /\ \A p \in DOMAIN u : p \in DOMAIN rs \/ p = Len(u)
  BY JoinedOne
<1>2. Labelled(u, n - 1)
  <2>1. <<r>> \in Seq(Recs)
    OBVIOUS
  <2> QED
    BY <2>1, StillLabelled DEF Midway, Turnly
<1> HIDE DEF u
<1>3. Live(u)
  BY <1>1 DEF Midway, Live
<1>4. Common(u, n)
  BY <1>1 DEF Midway, Turnly, Common, Judged
<1>5. \A l \in Labels(u) : (l \in Labels(rs) /\ l \in DOMAIN rs /\ u[l] = rs[l]) \/ l = Len(u)
  BY <1>1 DEF Labels, Of
<1>6. Len(u) \in Labels(u)
  BY <1>1 DEF Labels, Of
<1>7. ASSUME NEW l \in Labels(u), NEW p \in DOMAIN u, u[p].by # 0
      PROVE  l < p <=> u[l].by < u[p].by
  <2>1. CASE l \in DOMAIN rs /\ p \in DOMAIN rs
    BY <1>1, <1>5, <1>7, <2>1 DEF Midway, Turnly
  <2>2. CASE l \in DOMAIN rs /\ p = Len(u)
    <3>1. l \in Labels(rs) /\ u[l] = rs[l] /\ l < p /\ u[p].by = n
      BY <1>1, <1>5, <2>2
    <3>2. rs[l].by <= n /\ rs[l].by # n /\ rs[l].by \in Nat
      BY <2>2, <3>1, RecordsAre DEF Midway, Turnly, Common
    <3> QED
      BY <3>1, <3>2
  <2>3. CASE l = Len(u)
    <3>1. p <= Len(u) /\ p \in Nat /\ l \in Nat
      BY <1>1, <2>3
    <3>2. u[p].by <= n /\ u[p].by \in Nat /\ u[l].by = n
      <4>1. u \in Seq(Recs)
        BY JoinedOne DEF u
      <4> QED
        BY <1>1, <1>4, <2>3, <4>1, RecordsAre DEF Common
    <3> QED
      BY <2>3, <3>1, <3>2
  <2> QED
    BY <1>1, <1>5, <2>1, <2>2, <2>3
<1>8. \A l \in Labels(u) : u[l].by # 0 /\ u[l].turn = u[l].by /\ (u[l].ok = TRUE => u[l].ended = "completed")
  BY <1>1, <1>5 DEF Midway, Turnly
<1>9. Turnly(u, n)
  BY <1>2, <1>3, <1>4, <1>7, <1>8 DEF Turnly, Live
<1>10. Labelled(u, n)
  <2> SUFFICES ASSUME NEW j \in 1..n PROVE \E l \in Labels(u) : u[l].by = j
    BY DEF Labelled
  <2>1. CASE j = n
    BY <1>1, <1>6, <2>1
  <2>2. CASE j # n
    <3>1. j \in 1..(n - 1)
      BY <2>2
    <3> QED
      BY <1>2, <3>1 DEF Labelled
  <2> QED
    BY <2>1, <2>2
<1> QED
  BY <1>3, <1>9, <1>10 DEF Between, u

-----------------------------------------------------------------------------
(* How a file is left.                                                     *)

LEMMA SoundOfLive ==
  ASSUME NEW rs \in Seq(Recs), Live(rs)
  PROVE  /\ TornLast(rs) /\ Sound(rs) = rs
         /\ \A r \in Recs : /\ TornLast(rs \o <<r>>)
                            /\ Sound(rs \o <<r>>) = IF r.type = "torn" THEN rs ELSE rs \o <<r>>
<1>1. Len(rs) \in Nat /\ DOMAIN rs = 1..Len(rs)
  OBVIOUS
<1>2. TornLast(rs) /\ Sound(rs) = rs
  <2>1. TornLast(rs)
    BY DEF Live, TornLast
  <2>2. Len(rs) # 0 => rs[Len(rs)].type # "torn"
    BY <1>1 DEF Live
  <2> QED
    BY <2>1, <2>2 DEF Sound
<1>3. ASSUME NEW r \in Recs
      PROVE  TornLast(rs \o <<r>>) /\ Sound(rs \o <<r>>) = IF r.type = "torn" THEN rs ELSE rs \o <<r>>
  <2> DEFINE u == rs \o <<r>>
  <2>1. /\ u \in Seq(Recs) /\ Len(u) = Len(rs) + 1 /\ u[Len(u)] = r
        /\ \A p \in DOMAIN rs : u[p] = rs[p]
        /\ \A p \in DOMAIN u : p \in DOMAIN rs \/ p = Len(u)
    BY JoinedOne
  <2>2. SubSeq(u, 1, Len(u) - 1) = rs
    <3>1. Len(u) - 1 = Len(rs)
      BY <1>1, <2>1
    <3>2. SubSeq(u, 1, Len(rs)) = rs
      OBVIOUS
    <3> QED
      BY <3>1, <3>2
  <2> HIDE DEF u
  <2>3. TornLast(u)
    BY <2>1 DEF Live, TornLast
  <2>4. Sound(u) = IF r.type = "torn" THEN rs ELSE u
    <3>1. Len(u) # 0
      BY <1>1, <2>1
    <3>2. CASE r.type = "torn"
      BY <2>1, <2>2, <3>1, <3>2 DEF Sound
    <3>3. CASE r.type # "torn"
      BY <2>1, <3>3 DEF Sound
    <3> QED
      BY <3>2, <3>3
  <2> QED
    BY <2>3, <2>4 DEF u
<1> QED
  BY <1>2, <1>3

LEMMA LeftOpen ==
  ASSUME NEW rs \in Seq(Recs), NEW n \in Nat, Running(rs, n) \/ Between(rs, n) \/ Midway(rs, n)
  PROVE  /\ Lawful(rs)
         /\ \A r \in Recs : r.type = "torn" => Lawful(rs \o <<r>>)
BY SoundOfLive DEF Running, Between, Midway, Lawful

LEMMA LeftByExit ==
  ASSUME NEW rs \in Seq(Recs), NEW n \in Nat, Between(rs, n), NEW r \in Recs,
         r.type = "session_end", r.by = 0
  PROVE  Lawful(rs \o <<r>>)
<1> DEFINE u == rs \o <<r>>
<1>1. /\ Len(rs) \in Nat /\ DOMAIN rs = 1..Len(rs) /\ Len(u) = Len(rs) + 1
      /\ Len(u) \in DOMAIN u /\ u[Len(u)] = r /\ Len(u) \notin DOMAIN rs
      /\ \A p \in DOMAIN rs : p \in DOMAIN u /\ u[p] = rs[p] /\ p < Len(u)
      /\ \A p \in DOMAIN u : p \in DOMAIN rs \/ p = Len(u)
  BY JoinedOne
<1>2. Labelled(u, n - 1) /\ Labelled(u, n)
  <2>1. <<r>> \in Seq(Recs)
    OBVIOUS
  <2> QED
    BY <2>1, StillLabelled DEF Between, Turnly
<1>3. Sound(u) = u /\ TornLast(u)
  BY SoundOfLive DEF Between
<1> HIDE DEF u
<1>4. Common(u, n)
  BY <1>1 DEF Between, Turnly, Common, Judged
<1>5. \A l \in Labels(u) : l \in Labels(rs) /\ l \in DOMAIN rs /\ u[l] = rs[l]
  BY <1>1 DEF Labels, Of
<1>6. \A l \in Labels(u) : \A p \in DOMAIN u : u[p].by # 0 => (l < p <=> u[l].by < u[p].by)
  BY <1>1, <1>5 DEF Between, Turnly
<1>7. \A l \in Labels(u) : u[l].by # 0 /\ u[l].turn = u[l].by /\ (u[l].ok = TRUE => u[l].ended = "completed")
  BY <1>5 DEF Between, Turnly
<1>8. \A p \in DOMAIN u : u[p].type = "session_end" => p = Len(u) /\ u[p].by = 0
  BY <1>1 DEF Between, Live
<1>9. Turnly(u, n)
  BY <1>2, <1>4, <1>6, <1>7, <1>8 DEF Turnly
<1>10. Lawful(u)
  BY <1>3, <1>9 DEF Lawful
<1> QED
  BY <1>10 DEF u

LEMMA LeftByEnd ==
  ASSUME NEW rs \in Seq(Recs), NEW n \in Nat, Running(rs, n), NEW r \in Recs,
         r.type = "session_end", r.by = n,
         r.ok = TRUE => r.ended = "completed" /\ \E p \in DOMAIN rs : rs[p].type = "tool_call"
  PROVE  Lawful(rs \o <<r>>)
<1> DEFINE u == rs \o <<r>>
<1>1. /\ Len(rs) \in Nat /\ DOMAIN rs = 1..Len(rs) /\ Len(u) = Len(rs) + 1
      /\ Len(u) \in DOMAIN u /\ u[Len(u)] = r /\ Len(u) \notin DOMAIN rs
      /\ \A p \in DOMAIN rs : p \in DOMAIN u /\ u[p] = rs[p] /\ p < Len(u)
      /\ \A p \in DOMAIN u : p \in DOMAIN rs \/ p = Len(u)
  BY JoinedOne
<1>2. Sound(u) = u /\ TornLast(u)
  BY SoundOfLive DEF Running
<1> HIDE DEF u
<1>3. Common(u, n)
  BY <1>1 DEF Running, Whole, Common, Judged
<1>4. \A p \in DOMAIN u : u[p].by \in {0, n} /\ u[p].type # "turn_outcome"
  BY <1>1 DEF Running, Whole
<1>5. \A p \in DOMAIN u : u[p].type = "session_end" => p = Len(u)
  BY <1>1 DEF Running, Live
<1>6. r.ok = TRUE => r.ended = "completed" /\ \E p \in DOMAIN u : u[p].type = "tool_call"
  BY <1>1
<1>7. Whole(u, n)
  BY <1>1, <1>3, <1>4, <1>5, <1>6 DEF Whole
<1>8. Lawful(u)
  BY <1>2, <1>7 DEF Lawful
<1> QED
  BY <1>8 DEF u

\* A file that was just opened.
LEMMA JustOpened ==
  ASSUME NEW n \in Nat
  PROVE  /\ Running(<<>>, n)
         /\ \A r : Idle(r) /\ r.type = "session_start" => Running(<<r>>, n) /\ Between(<<r>>, 0)
<1>1. Running(<<>>, n)
  BY EmptyTypes DEF Running, Live, Whole, Common
<1>2. ASSUME NEW r, Idle(r), r.type = "session_start" PROVE Running(<<r>>, n) /\ Between(<<r>>, 0)
  <2>1. DOMAIN <<r>> = {1} /\ <<r>>[1] = r
    OBVIOUS
  <2>2. Common(<<r>>, n) /\ Common(<<r>>, 0) /\ Live(<<r>>)
    BY <1>2, <2>1 DEF Common, Live, Idle, Judged
  <2>3. Labels(<<r>>) = {}
    BY <1>2, <2>1 DEF Labels, Of
  <2>4. Labelled(<<r>>, 0) /\ Labelled(<<r>>, 0 - 1)
    BY DEF Labelled
  <2>5. Running(<<r>>, n)
    BY <1>2, <2>1, <2>2 DEF Running, Whole, Live, Idle
  <2>6. Between(<<r>>, 0)
    BY <1>2, <2>1, <2>2, <2>3, <2>4 DEF Between, Turnly, Live
  <2> QED
    BY <2>5, <2>6
<1> QED
  BY <1>1, <1>2

-----------------------------------------------------------------------------
(* In the first process of a session every file is in order.               *)

Talking(k) == k = "session" /\ ~solo

InHand ==
  /\ pc \in {"off", "lost"} => Lawful(file)
  /\ Talking(kind) /\ pc \in {"prompt", "telling"} => Between(file, serial)
  /\ Talking(kind) /\ pc \in {"turn", "returned"} => Midway(file, serial)
  /\ ~Talking(kind) /\ pc \notin {"off", "lost"} => Running(file, serial)

Waits(frame) ==
  /\ Talking(frame.kind) => Midway(frame.file, serial)
  /\ ~Talking(frame.kind) => Running(frame.file, serial)

Counted ==
  program = "session" =>
    /\ ~solo /\ pc \notin {"off", "lost"} => turns = serial
    /\ solo /\ pc \in {"prompt", "telling"} => serial = 0

Ordered ==
  /\ \A f \in over : Lawful(f.records)
  /\ InHand
  /\ \A m \in DOMAIN stack : Waits(stack[m])
  /\ Counted

OrderInv == lives >= 1 /\ (lives = 1 => Ordered)

LEMMA StartedLawful == ASSUME TypeInv, Ordered PROVE \A f \in Started : Lawful(f.records)
<1>1. file \in Seq(Recs) /\ serial \in Nat
  BY DEF TypeInv, TypeOK
<1>2. ASSUME NEW m \in DOMAIN stack PROVE Lawful(stack[m].file)
  <2>1. stack[m] \in Frames
    BY DEF TypeInv, TypeOK
  <2>2. stack[m].file \in Seq(Recs)
    BY <2>1 DEF Frames
  <2>3. Running(stack[m].file, serial) \/ Midway(stack[m].file, serial)
    BY DEF Ordered, Waits
  <2> QED
    BY <1>1, <2>2, <2>3, LeftOpen
<1>3. Lawful(file)
  <2>1. CASE pc \in {"off", "lost"}
    BY <2>1 DEF Ordered, InHand
  <2>2. CASE pc \notin {"off", "lost"}
    <3>1. pc \in {"prompt", "telling", "turn", "returned", "idle"}
      BY <2>2 DEF TypeInv, TypeOK, Places
    <3>2. pc = "idle" => ~Talking(kind)
      BY DEF TypeInv, TypeOK, Stacked, Talking, Runs
    <3>3. Running(file, serial) \/ Between(file, serial) \/ Midway(file, serial)
      BY <3>1, <3>2 DEF Ordered, InHand
    <3> QED
      BY <1>1, <3>3, LeftOpen
  <2> QED
    BY <2>1, <2>2
<1>4. ASSUME NEW m \in DOMAIN stack PROVE Filed(stack[m]).records = stack[m].file
  BY DEF Filed
<1>5. Filed(Frame).records = file
  BY DEF Filed, Frame
<1> QED
  BY <1>2, <1>3, <1>4, <1>5 DEF Started

LEMMA EndedLawful ==
  ASSUME NEW rs \in Seq(Recs), NEW n \in Nat, n # 0, Running(rs, n), NEW t \in Seq(Recs), NEW r \in Recs,
         \A i \in DOMAIN t : InTurn(t[i], n), r.type = "session_end", r.by = n,
         r.ok = TRUE => r.ended = "completed" /\ \E p \in DOMAIN rs : rs[p].type = "tool_call"
  PROVE  Lawful(rs \o (t \o <<r>>))
<1> DEFINE s == rs \o t
<1>1. s \in Seq(Recs) /\ \A p \in DOMAIN rs : p \in DOMAIN s /\ s[p] = rs[p]
  BY Joined
<1>2. rs \o (t \o <<r>>) = s \o <<r>>
  OBVIOUS
<1>3. Running(s, n)
  BY RunningGrows, BehindAre
<1> HIDE DEF s
<1>4. r.ok = TRUE => r.ended = "completed" /\ \E p \in DOMAIN s : s[p].type = "tool_call"
  BY <1>1
<1>5. Lawful(s \o <<r>>)
  BY <1>1, <1>3, <1>4, LeftByEnd
<1> QED
  BY <1>2, <1>5

LEMMA NothingLawful == Lawful(<<>>)
<1>1. PICK n \in Nat : n = 0
  OBVIOUS
<1>2. Running(<<>>, n)
  BY JustOpened
<1> QED
  BY <1>2, EmptyTypes, LeftOpen

LEMMA AgentOrdered ==
  ASSUME TypeInv, UNCHANGED scope, AgentStep, Ordered
  PROVE  Ordered' /\ lives' = lives
<1>1. /\ kind \in Runs /\ over' = {} /\ UNCHANGED <<program, kind, stack>>
      /\ Think \/ Use \/ Request \/ Check \/ Finish
  BY DEF AgentStep, Innermost, Runs
<1>2. pc = "turn" /\ pc' \in {"turn", "returned"} /\ UNCHANGED <<solo, turns, serial, lives>>
  BY <1>1, TurnLogs
<1>3. PICK t \in Seq(Recs) : file' = file \o t /\ \A i \in DOMAIN t : t[i] \in Turnwise(serial)
  BY <1>1, TurnLogs
<1>4. file \in Seq(Recs) /\ serial \in Nat /\ serial # 0
  BY <1>2 DEF TypeInv, TypeOK, Stacked
<1>5. \A i \in DOMAIN t : Behind(t[i], serial)
  BY <1>3, <1>4, BehindAre DEF Turnwise
<1>6. Talking(kind) => Midway(file', serial)
  BY <1>2, <1>3, <1>4, <1>5, MidwayGrows DEF Ordered, InHand
<1>7. ~Talking(kind) => Running(file', serial)
  BY <1>2, <1>3, <1>4, <1>5, RunningGrows DEF Ordered, InHand
<1>8. InHand'
  BY <1>1, <1>2, <1>6, <1>7 DEF InHand, Talking
<1>9. \A m \in DOMAIN stack' : Waits(stack[m])'
  BY <1>1, <1>2 DEF Ordered, Waits, Talking
<1>10. Counted'
  BY <1>1, <1>2 DEF Ordered, Counted
<1> QED
  BY <1>1, <1>2, <1>8, <1>9, <1>10 DEF Ordered

LEMMA SessionOrdered ==
  ASSUME TypeInv, UNCHANGED scope, SessionStep, OrderInv
  PROVE  OrderInv'
<1>1. /\ file \in Seq(Recs) /\ serial \in Nat /\ lives \in Nat /\ lives >= 1 /\ turns \in Nat
      /\ solo \in BOOLEAN
      /\ pc \in {"turn", "returned"} => serial # 0
  BY DEF TypeInv, TypeOK, Stacked, OrderInv
<1>2. /\ kind = "session" /\ kind' = "session" /\ stack' = <<>> /\ DOMAIN stack' = {} /\ over' = {}
      /\ program = "session" /\ program' = "session"
  BY EmptyTypes DEF TypeInv, Stacked, SessionStep, Innermost
<1>3. CASE Resume \/ ResumeRaises
  <2>1. lives' = lives + 1
    BY <1>3 DEF Resume, ResumeRaises
  <2> QED
    BY <1>1, <2>1 DEF OrderInv
<1>4. CASE Grant \/ Tell \/ Begin \/ Label \/ Fail \/ Exit \/ ExitSolo \/ FailSolo \/ Crash
  <2>1. lives' = lives /\ solo' = solo
    BY <1>4 DEF Grant, Tell, Begin, Label, Fail, Exit, ExitSolo, FailSolo, Crash, Off
  <2> SUFFICES ASSUME lives = 1 PROVE Ordered'
    BY <1>1, <2>1 DEF OrderInv
  <2>2. Ordered
    BY DEF OrderInv
  <2>3. /\ ~solo /\ pc \in {"prompt", "telling"} => Between(file, serial)
        /\ ~solo /\ pc \in {"turn", "returned"} => Midway(file, serial)
        /\ solo /\ pc \notin {"off", "lost"} => Running(file, serial)
        /\ ~solo /\ pc \notin {"off", "lost"} => turns = serial
        /\ solo /\ pc \in {"prompt", "telling"} => serial = 0
    BY <1>2, <2>2 DEF Ordered, InHand, Counted, Talking
  <2> SUFFICES /\ pc' \in {"off", "lost"} => Lawful(file')
               /\ ~solo /\ pc' \in {"prompt", "telling"} => Between(file', serial')
               /\ ~solo /\ pc' \in {"turn", "returned"} => Midway(file', serial')
               /\ solo /\ pc' \notin {"off", "lost"} => Running(file', serial')
               /\ ~solo /\ pc' \notin {"off", "lost"} => turns' = serial'
               /\ solo /\ pc' \in {"prompt", "telling"} => serial' = 0
    BY <1>2, <2>1 DEF Ordered, InHand, Counted, Talking
  <2>4. CASE Grant \/ Tell
    <3>1. PICK t \in Seq(Recs) : file' = file \o t /\ \A i \in DOMAIN t : Idle(t[i]) /\ t[i].type # "torn"
      <4>1. ASSUME NEW r, Idle(r), r.type # "torn"
            PROVE  <<r>> \in Seq(Recs) /\ \A i \in DOMAIN <<r>> : Idle(<<r>>[i]) /\ <<r>>[i].type # "torn"
        BY <4>1 DEF Idle
      <4>2. <<>> \in Seq(Recs) /\ \A i \in DOMAIN <<>> : Idle(<<>>[i]) /\ <<>>[i].type # "torn"
        BY EmptyTypes
      <4>3. CASE Grant
        BY <4>1, <4>2, <4>3, GrantLogs
      <4>4. CASE Tell
        BY <4>1, <4>4, TellLogs
      <4> QED
        BY <2>4, <4>3, <4>4
    <3>2. /\ pc \in {"prompt", "telling"} /\ pc' \in {"prompt", "telling"} /\ UNCHANGED <<turns, serial>>
      BY <2>4 DEF Grant, Tell
    <3>3. ~solo => Between(file', serial)
      BY <1>1, <2>3, <3>1, <3>2, BetweenGrows
    <3>4. solo => Running(file', serial)
      <4>1. \A i \in DOMAIN t : Behind(t[i], serial)
        BY <3>1, BehindAre
      <4> QED
        BY <1>1, <2>3, <3>1, <3>2, <4>1, RunningGrows
    <3> QED
      BY <2>3, <3>2, <3>3, <3>4
  <2>5. CASE Begin
    <3>1. /\ pc = "prompt" /\ pc' = "turn" /\ serial' = serial + 1 /\ file' = file
          /\ (~solo => turns' = turns + 1)
      BY <2>5 DEF Begin
    <3>2. ~solo => Midway(file', serial')
      BY <1>1, <2>3, <3>1, NextTurn
    <3>3. solo => Running(file', serial')
      <4> SUFFICES ASSUME solo PROVE Running(file', serial')
        OBVIOUS
      <4>1. serial = 0 /\ serial' = 1 /\ Running(file, 0)
        BY <2>3, <3>1
      <4> QED
        BY <1>1, <3>1, <4>1, NextTurn
    <3>4. ~solo => turns' = serial'
      BY <2>3, <3>1
    <3> QED
      BY <3>1, <3>2, <3>3, <3>4
  <2>6. CASE Label \/ Fail
    <3>1. PICK r \in Recs :
             /\ file' = file \o <<r>> /\ r.type = "turn_outcome" /\ r.by = serial /\ r.turn = turns
             /\ r.ok = TRUE => r.ended = "completed"
      BY <2>6, LabelLogs
    <3>2. pc \in {"turn", "returned"} /\ ~solo /\ pc' = "prompt" /\ UNCHANGED <<turns, serial>>
      BY <2>6 DEF Label, Fail
    <3>3. Midway(file, serial) /\ turns = serial /\ serial # 0
      BY <1>1, <2>3, <3>2
    <3>4. Between(file', serial)
      BY <1>1, <3>1, <3>3, LabelGrows
    <3> QED
      BY <3>2, <3>3, <3>4
  <2>7. CASE Exit
    <3>1. PICK r \in Recs : file' = file \o <<r>> /\ r.type = "session_end" /\ r.by = 0
      BY <2>7, ExitLogs
    <3>2. pc = "prompt" /\ ~solo /\ pc' = "off"
      BY <2>7 DEF Exit, Off
    <3>3. Lawful(file')
      BY <1>1, <2>3, <3>1, <3>2, LeftByExit
    <3> QED
      BY <3>2, <3>3
  <2>8. CASE ExitSolo \/ FailSolo
    <3>1. PICK t \in Seq(Recs), r \in Recs :
             /\ file' = file \o (t \o <<r>>) /\ OfRun(r, serial)
             /\ \A i \in DOMAIN t : InTurn(t[i], serial)
      BY <2>8, SoloEnds
    <3>2. pc \in {"turn", "returned"} /\ solo /\ pc' = "off"
      BY <2>8 DEF ExitSolo, FailSolo, Off
    <3>3. Running(file, serial) /\ serial # 0
      BY <1>1, <2>3, <3>2
    <3>4. /\ r.type = "session_end" /\ r.by = serial
          /\ r.ok = TRUE => r.ended = "completed" /\ \E p \in DOMAIN file : file[p].type = "tool_call"
      BY <3>1 DEF OfRun
    <3>5. Lawful(file')
      BY <1>1, <3>1, <3>3, <3>4, EndedLawful
    <3> QED
      BY <3>2, <3>5
  <2>9. CASE Crash
    <3> DEFINE r == Record("torn", TRUE, 0)
    <3>1. r \in Recs /\ r.type = "torn"
      BY IdleRecord DEF Idle
    <3>2. file' = file \o <<>> \/ file' = file \o <<r>>
      BY <2>9 DEF Crash, Log
    <3> HIDE DEF r
    <3>3. file \o <<>> = file
      BY <1>1
    <3>4. pc \in {"prompt", "telling", "turn", "returned"} /\ pc' = "off"
      BY <2>9 DEF Crash, Off
    <3>5. Running(file, serial) \/ Between(file, serial) \/ Midway(file, serial)
      BY <1>1, <2>3, <3>4
    <3>6. Lawful(file) /\ Lawful(file \o <<r>>)
      BY <1>1, <3>1, <3>5, LeftOpen
    <3>7. Lawful(file')
      <4>1. CASE file' = file \o <<>>
        BY <3>3, <3>6, <4>1
      <4>2. CASE file' = file \o <<r>>
        BY <3>6, <4>2
      <4> QED
        BY <3>2, <4>1, <4>2
    <3> QED
      BY <3>4, <3>7
  <2> QED
    BY <1>4, <2>4, <2>5, <2>6, <2>7, <2>8, <2>9
<1> QED
  BY <1>3, <1>4 DEF SessionStep

\* A run that ends leaves its file in order.
LEMMA OverLawful ==
  ASSUME TypeInv, Ordered, EndTask \/ EndBehaviour \/ TaskRaises \/ ChildEnds \/ ChildRaises
  PROVE  \A f \in over' : Lawful(f.records)
<1>1. PICK t \in Seq(Recs), r \in Recs :
        /\ over' = {[home |-> home, records |-> file \o (t \o <<r>>), gate |-> program = "gate"]}
        /\ OfRun(r, serial)
        /\ \A i \in DOMAIN t : InTurn(t[i], serial)
  BY RunEnds
<1>2. kind \in {"task", "behaviour", "child"} /\ pc \in {"turn", "returned"}
  BY DEF EndTask, EndBehaviour, TaskRaises, ChildEnds, ChildRaises
<1>3. Running(file, serial)
  BY <1>2 DEF Ordered, InHand, Talking
<1>4. file \in Seq(Recs) /\ serial \in Nat /\ serial # 0
  BY <1>2 DEF TypeInv, TypeOK, Stacked
<1>5. /\ r.type = "session_end" /\ r.by = serial
      /\ r.ok = TRUE => r.ended = "completed" /\ \E p \in DOMAIN file : file[p].type = "tool_call"
  BY <1>1 DEF OfRun
<1>6. Lawful(file \o (t \o <<r>>))
  BY <1>1, <1>3, <1>4, <1>5, EndedLawful
<1> DEFINE u == file \o (t \o <<r>>)
<1> HIDE DEF u
<1>7. over' = {[home |-> home, records |-> u, gate |-> program = "gate"]} /\ Lawful(u)
  BY <1>1, <1>6 DEF u
<1> QED
  BY <1>7

LEMMA HarnessOrdered ==
  ASSUME TypeInv, HarnessStep, Ordered
  PROVE  Ordered'
<1>1. UNCHANGED <<scope, solo, turns, program>>
  BY DEF HarnessStep, BeginTask, LayoutFails, EndTask, EndBehaviour, TaskRaises, BatchEnds, Spawn,
         ChildEnds, ChildRaises, Unwind, Next1, Resumes, Kept
<1>2. /\ file \in Seq(Recs) /\ stack \in Seq(Frames) /\ Len(stack) \in Nat /\ DOMAIN stack = 1..Len(stack)
      /\ serial \in Nat /\ turns \in Nat
  BY DEF TypeInv, TypeOK
<1>3. ASSUME file' = <<>>, pc' \in {"off", "idle"}, kind' = "none", serial' = serial
      PROVE  InHand'
  <2>1. Running(<<>>, serial) /\ Lawful(<<>>)
    BY <1>2, JustOpened, NothingLawful
  <2>2. Running(file', serial') /\ Lawful(file')
    BY <1>3, <2>1
  <2> QED
    BY <1>3, <2>2 DEF InHand, Talking
<1>4. CASE BeginTask
  <2> DEFINE r == Record("session_start", TRUE, 0)
  <2>1. Idle(r) /\ r.type = "session_start"
    BY IdleRecord
  <2>2. /\ file' = <<r>> /\ pc' = "turn" /\ stack' = stack /\ serial' = serial + 1 /\ over' = {} /\ pc = "idle"
    BY <1>4 DEF BeginTask
  <2> HIDE DEF r
  <2>3. kind' \in {"task", "behaviour"} /\ stack = <<>> /\ DOMAIN stack = {} /\ program # "session"
    BY <1>4, <2>2, EmptyTypes DEF BeginTask, TypeInv, TypeOK, Stacked
  <2>4. serial' \in Nat
    BY <1>2, <2>2
  <2>5. Running(file', serial')
    BY <2>1, <2>2, <2>4, JustOpened
  <2>6. InHand'
    BY <2>2, <2>3, <2>5 DEF InHand, Talking
  <2> QED
    BY <1>1, <2>2, <2>3, <2>6 DEF Ordered, Counted
<1>5. CASE LayoutFails \/ EndTask \/ EndBehaviour \/ TaskRaises \/ BatchEnds
  <2>1. /\ file' = <<>> /\ pc' \in {"off", "idle"} /\ kind' = "none" /\ UNCHANGED <<stack, serial>>
    BY <1>5 DEF LayoutFails, EndTask, EndBehaviour, TaskRaises, BatchEnds, Next1
  <2>2. InHand'
    BY <1>3, <2>1
  <2>3. \A f \in over' : Lawful(f.records)
    <3>1. CASE LayoutFails \/ BatchEnds
      BY <3>1 DEF LayoutFails, BatchEnds
    <3> QED
      BY <1>5, <3>1, OverLawful
  <2>4. \A m \in DOMAIN stack' : Waits(stack[m])'
    BY <1>1, <2>1 DEF Ordered, Waits, Talking
  <2>5. program # "session"
    BY <1>5 DEF LayoutFails, EndTask, EndBehaviour, TaskRaises, BatchEnds, TypeInv, Stacked
  <2> QED
    BY <1>1, <2>1, <2>2, <2>3, <2>4, <2>5 DEF Ordered, Counted
<1>6. CASE Spawn
  <2> DEFINE r == [Record("session_start", TRUE, 0) EXCEPT !.child = TRUE]
  <2>1. Idle(r) /\ r.type = "session_start"
    BY ChildRecord
  <2>2. /\ file' = <<r>> /\ stack' = Append(stack, Frame) /\ kind' = "child" /\ pc = "turn" /\ pc' = pc
        /\ serial' = serial /\ over' = {}
    BY <1>6 DEF Spawn
  <2> HIDE DEF r
  <2>3. Frame \in Frames /\ Frame.file = file /\ Frame.kind = kind
    BY <2>2, FrameType DEF TypeInv, Stacked, Frame
  <2>4. \A m \in DOMAIN stack' : (m \in DOMAIN stack /\ stack'[m] = stack[m]) \/ stack'[m] = Frame
    BY <1>2, <2>2, <2>3, Longer
  <2>5. Running(file', serial)
    BY <1>2, <2>1, <2>2, JustOpened
  <2>6. InHand'
    BY <2>2, <2>5 DEF InHand, Talking
  <2>7. Waits(Frame)
    BY <2>2, <2>3 DEF Ordered, InHand, Waits, Talking
  <2>8. \A m \in DOMAIN stack' : Waits(stack[m])'
    BY <1>1, <2>2, <2>4, <2>7 DEF Ordered, Waits, Talking
  <2>9. Counted'
    BY <1>1, <2>2 DEF Ordered, Counted
  <2> QED
    BY <2>2, <2>6, <2>8, <2>9 DEF Ordered
<1>7. CASE ChildEnds \/ ChildRaises
  <2> DEFINE n == Len(stack)
             r == Record("tool_call", TRUE, serial)
  <2>1. kind = "child" /\ pc \in {"turn", "returned"} /\ Resumes(stack[n])
    BY <1>7 DEF ChildEnds, ChildRaises
  <2>2. stack # <<>> /\ n \in DOMAIN stack /\ n \in Nat /\ n # 0 /\ serial # 0
    BY <1>2, <2>1 DEF TypeInv, Stacked
  <2>3. /\ stack' = SubSeq(stack, 1, n - 1) /\ pc' = "turn" /\ kind' = stack[n].kind
        /\ file' = Append(stack[n].file, r) /\ serial' = serial
    BY <2>1 DEF Resumes
  <2>4. InTurn(r, serial) /\ r \in Recs
    <3>1. PICK yes \in BOOLEAN : yes = TRUE
      OBVIOUS
    <3>2. InTurn(Record("tool_call", yes, serial), serial)
      BY <1>2, <3>1, TurnRecord
    <3> QED
      BY <3>1, <3>2 DEF InTurn
  <2> HIDE DEF r
  <2>5. stack[n].file \in Seq(Recs)
    <3>1. stack[n] \in Frames
      BY <1>2, <2>2
    <3> QED
      BY <3>1 DEF Frames
  <2>6. file' = stack[n].file \o <<r>> /\ <<r>> \in Seq(Recs) /\ \A i \in DOMAIN <<r>> : Behind(<<r>>[i], serial)
    <3>1. file' = stack[n].file \o <<r>>
      BY <2>3, <2>4, <2>5, AppendJoins
    <3>2. Behind(r, serial)
      BY <2>2, <2>4, BehindAre
    <3> QED
      BY <2>4, <3>1, <3>2
  <2>7. Waits(stack[n])
    BY <2>2 DEF Ordered
  <2>8. Talking(stack[n].kind) => Midway(file', serial)
    BY <1>2, <2>5, <2>6, <2>7, MidwayGrows DEF Waits
  <2>9. ~Talking(stack[n].kind) => Running(file', serial)
    BY <1>2, <2>5, <2>6, <2>7, RunningGrows DEF Waits
  <2>10. InHand'
    BY <1>1, <2>3, <2>8, <2>9 DEF InHand, Talking
  <2>11. DOMAIN stack' = 1..(n - 1) /\ \A i \in 1..(n - 1) : i \in DOMAIN stack /\ stack'[i] = stack[i]
    BY <1>2, <2>2, <2>3
  <2> HIDE DEF n
  <2>12. \A m \in DOMAIN stack' : Waits(stack[m])'
    BY <1>1, <2>3, <2>11 DEF Ordered, Waits, Talking
  <2>13. \A f \in over' : Lawful(f.records)
    BY <1>7, OverLawful
  <2>14. Counted'
    BY <1>1, <2>1, <2>3 DEF Ordered, Counted
  <2> QED
    BY <2>10, <2>12, <2>13, <2>14 DEF Ordered
<1>8. CASE Unwind
  <2>1. CASE program = "session" /\ ~solo
    <3> DEFINE r == Outcome("error")
    <3>1. kind = "child" /\ stack # <<>> /\ 1 \in DOMAIN stack /\ stack[1].kind = "session"
          /\ pc \in {"turn", "returned"} /\ serial # 0
      BY <1>2, <1>8, <2>1 DEF Unwind, TypeInv, Stacked
    <3>2. /\ file' = Append(stack[1].file, r) /\ pc' = "prompt" /\ kind' = "session" /\ stack' = <<>>
          /\ serial' = serial /\ over' \subseteq Started
      BY <1>8, <2>1 DEF Unwind
    <3>3. /\ r \in Recs /\ r.type = "turn_outcome" /\ r.by = serial /\ r.turn = turns
          /\ r.ok = TRUE => r.ended = "completed"
      BY <1>2, LabelRecord
    <3> HIDE DEF r
    <3>4. stack[1].file \in Seq(Recs)
      <4>1. stack[1] \in Frames
        BY <1>2, <3>1
      <4> QED
        BY <4>1 DEF Frames
    <3>5. Midway(stack[1].file, serial) /\ turns = serial
      BY <2>1, <3>1 DEF Ordered, Waits, Talking, Counted
    <3>6. Between(file', serial)
      <4>1. file' = stack[1].file \o <<r>>
        BY <3>2, <3>3, <3>4, AppendJoins
      <4> QED
        BY <1>2, <3>1, <3>3, <3>4, <3>5, <4>1, LabelGrows
    <3>7. InHand'
      BY <1>1, <2>1, <3>2, <3>6 DEF InHand, Talking
    <3>8. Counted'
      BY <1>1, <2>1, <3>2, <3>5 DEF Counted
    <3> QED
      BY <3>2, <3>7, <3>8, StartedLawful, EmptyTypes DEF Ordered
  <2>2. CASE ~(program = "session" /\ ~solo)
    <3>1. /\ over' = Started /\ file' = <<>> /\ pc' = "off" /\ kind' = "none" /\ stack' = <<>>
          /\ serial' = serial
      BY <1>8, <2>2 DEF Unwind
    <3>2. InHand'
      BY <1>3, <3>1
    <3>3. Counted'
      BY <3>1 DEF Counted
    <3> QED
      BY <3>1, <3>2, <3>3, StartedLawful, EmptyTypes DEF Ordered
  <2> QED
    BY <2>1, <2>2
<1> QED
  BY <1>4, <1>5, <1>6, <1>7, <1>8 DEF HarnessStep

LEMMA OrderInit == ASSUME FlyInit PROVE OrderInv
<1> DEFINE r == Record("session_start", TRUE, 0)
<1>1. Idle(r) /\ r.type = "session_start"
  BY IdleRecord
<1>2. stack = <<>> /\ over = {} /\ turns = 0 /\ serial = 0 /\ lives = 1 /\ DOMAIN stack = {}
  BY EmptyTypes DEF FlyInit
<1>3. CASE program = "session"
  <2>1. pc = "prompt" /\ kind = "session" /\ file = <<r>>
    BY <1>3 DEF FlyInit
  <2> HIDE DEF r
  <2>2. PICK n \in Nat : n = 0
    OBVIOUS
  <2>3. Running(file, serial) /\ Between(file, serial)
    BY <1>1, <1>2, <2>1, <2>2, JustOpened
  <2> QED
    BY <1>2, <2>1, <2>3 DEF OrderInv, Ordered, InHand, Counted
<1>4. CASE program # "session"
  <2>1. pc = "idle" /\ kind = "none" /\ file = <<>>
    BY <1>4 DEF FlyInit
  <2>2. PICK n \in Nat : n = 0
    OBVIOUS
  <2>3. Running(file, serial)
    BY <1>2, <2>1, <2>2, JustOpened
  <2> QED
    BY <1>2, <1>4, <2>1, <2>3 DEF OrderInv, Ordered, InHand, Counted, Talking
<1> QED
  BY <1>3, <1>4

LEMMA OrderStep == ASSUME TypeInv, OrderInv, [FlyNext]_fly PROVE OrderInv'
<1>1. CASE UNCHANGED scope /\ SessionStep
  BY <1>1, SessionOrdered
<1>2. CASE UNCHANGED scope /\ AgentStep
  BY <1>2, AgentOrdered, TurnLogs DEF OrderInv, AgentStep
<1>3. CASE HarnessStep
  <2>1. lives' = lives
    BY <1>3 DEF HarnessStep, BeginTask, LayoutFails, EndTask, EndBehaviour, TaskRaises, BatchEnds, Spawn,
                ChildEnds, ChildRaises, Unwind, Next1, Resumes, Kept
  <2> QED
    BY <1>3, <2>1, HarnessOrdered DEF OrderInv
<1>4. CASE UNCHANGED fly
  BY <1>4 DEF fly, vars, flyVars, OrderInv, Ordered, InHand, Waits, Counted, Talking
<1> QED
  BY <1>1, <1>2, <1>3, <1>4 DEF FlyNext

LEMMA OrderHolds == FlySpec => [](TypeInv /\ OrderInv)
<1>1. FlyInit => OrderInv
  BY OrderInit
<1>2. TypeInv /\ OrderInv /\ [FlyNext]_fly => OrderInv'
  BY OrderStep
<1> QED
  BY <1>1, <1>2, TypesHold, PTL DEF FlySpec

LEMMA ArchiveTaught ==
  ASSUME TypeInv, OrderInv, lives = 1, NEW f \in Archive
  PROVE  OnlyGood(f.records) /\ AllGood(f.records)
<1>1. Ordered
  BY DEF OrderInv
<1>2. Lawful(f.records)
  BY <1>1, StartedLawful DEF Archive, Ordered
<1>3. f \in Filings
  BY StartedType DEF Archive, TypeInv, TypeOK
<1>4. f.records \in Seq(Recs)
  BY <1>3 DEF Filings
<1> QED
  BY <1>2, <1>4, LawfulIsTaught

\* Of whatever file convert reads, whoever wrote it and however it was left,
\* only good turns become rows (TrainedUnlessResumed; convert.py,
\* trainable_turns and to_rows).
THEOREM OnlyGoodIsTrained == FlySpec => []TrainedUnlessResumed
<1>1. TypeInv /\ OrderInv => TrainedUnlessResumed
  BY ArchiveTaught DEF TrainedUnlessResumed, Converted
<1> QED
  BY <1>1, OrderHolds, PTL

\* A file that is over loses nothing of a good turn (GoodTurnsKept; convert.py,
\* is_trainable and to_rows).
THEOREM NothingGoodIsLost == FlySpec => []GoodTurnsKept
<1>1. TypeInv /\ OrderInv => GoodTurnsKept
  BY ArchiveTaught DEF GoodTurnsKept, Converted, Archive
<1> QED
  BY <1>1, OrderHolds, PTL
=============================================================================
