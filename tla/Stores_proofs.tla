--------------------------- MODULE Stores_proofs ----------------------------
(***************************************************************************)
(* Theorems about Stores, for any number of sessions, calls and starts, in *)
(* any scenario.  Shape says what the records of the state look like; the  *)
(* notes, the specs and the backlog then have an invariant each.           *)
(***************************************************************************)
EXTENDS Stores, FiniteSetTheorems, WellFoundedInduction, TLAPS

Files  == {"todos", "notes", "table", "specs"}
Stages == {"ready", "open"}

DiskShape ==
  disk = [todos |-> disk.todos, notes |-> disk.notes, table |-> disk.table, specs |-> disk.specs]

\* A call in progress: each store's has fields of its own.
OpShape(o) ==
  \/ o = Idle
  \/ /\ o = [store |-> "todos", stage |-> o.stage, new |-> o.new, act |-> o.act]
     /\ o.stage \in Stages
  \/ /\ o = [store |-> "notes", stage |-> o.stage, new |-> o.new]
     /\ o.stage \in Stages /\ o.new \in Nat
  \/ /\ o = [store |-> "table", stage |-> o.stage, new |-> o.new]
     /\ o.stage \in Stages
  \/ /\ o = [store |-> "specs", stage |-> o.stage, at |-> o.at,
             new |-> [id |-> o.new.id, met |-> o.new.met]]
     /\ o.stage \in Stages /\ o.at = <<o.at[1], o.at[2]>> /\ o.new.id \in Nat

SpecShape(s) ==
  \/ s = NoSpec
  \/ /\ s = [id |-> s.id, number |-> s.number, slug |-> s.slug, met |-> s.met,
             approved |-> s.approved]
     /\ s.id \in Nat /\ s.approved \in BOOLEAN

SessionShape(s) ==
  /\ s = [live |-> s.live, shown |-> s.shown, stale |-> s.stale, spec |-> s.spec, table |-> s.table]
  /\ SpecShape(s.spec)

Shape ==
  /\ DiskShape /\ disk.notes \in Seq(Nat)
  /\ op = [p \in Session |-> op[p]] /\ \A p \in Session : OpShape(op[p])
  /\ session = [p \in Session |-> session[p]] /\ \A p \in Session : SessionShape(session[p])
  /\ calls \in Nat

\* Writing one file leaves the others as they are.
LEMMA PutFields ==
  ASSUME DiskShape, NEW o, NEW content, o.store \in Files, disk' = Put(o, content)
  PROVE  /\ DiskShape'
         /\ disk'.todos = IF o.store = "todos" THEN content ELSE disk.todos
         /\ disk'.notes = IF o.store = "notes" THEN content ELSE disk.notes
         /\ disk'.table = IF o.store = "table" THEN content ELSE disk.table
         /\ disk'.specs = IF o.store = "specs"
                            THEN [at \in DOMAIN disk.specs \cup {o.at} |->
                                    IF at = o.at THEN content ELSE disk.specs[at]]
                            ELSE disk.specs
<1>1. CASE o.store = "specs"
  BY <1>1 DEF Put, DiskShape
<1>2. CASE o.store = "todos"
  BY <1>2 DEF Put, DiskShape
<1>3. CASE o.store = "notes"
  BY <1>3 DEF Put, DiskShape
<1>4. CASE o.store = "table"
  BY <1>4 DEF Put, DiskShape
<1> QED
  BY <1>1, <1>2, <1>3, <1>4 DEF Files

\* A call that is not idle is one of a store.
LEMMA BusyStore ==
  ASSUME NEW o, OpShape(o), o # Idle
  PROVE  o.store \in Files /\ o.stage \in Stages
BY DEF OpShape, Files

\* Whatever is done to the notes adds to them.
LEMMA NotesGrow ==
  ASSUME Shape, NEW p \in Session, op[p] # Idle,
         NEW content \in {Emptied(op[p]), Written(op[p])} \cup Torn(op[p]),
         disk' = Put(op[p], content)
  PROVE  /\ DiskShape' /\ disk'.notes \in Seq(Nat)
         /\ Range(disk.notes) \subseteq Range(disk'.notes)
<1> DEFINE o == op[p]
<1>1. OpShape(o) /\ o.store \in Files
  BY BusyStore DEF Shape
<1>2. DiskShape' /\ disk'.notes = IF o.store = "notes" THEN content ELSE disk.notes
  BY <1>1, PutFields DEF Shape
<1>3. CASE o.store # "notes"
  BY <1>2, <1>3 DEF Shape
<1>4. CASE o.store = "notes"
  <2>1. content \in {disk.notes} \cup {Append(disk.notes, n) : n \in Nat}
    BY <1>1, <1>4 DEF Emptied, Written, Torn, CutNote, OpShape
  <2>2. ASSUME NEW n \in Nat
        PROVE  /\ Append(disk.notes, n) \in Seq(Nat)
               /\ Range(disk.notes) \subseteq Range(Append(disk.notes, n))
    BY DEF Shape, Range
  <2> QED
    BY <1>2, <1>4, <2>1, <2>2 DEF Shape
<1> QED
  BY <1>2, <1>3, <1>4

LEMMA EnterShape ==
  ASSUME Shape, NEW p \in Session, NEW o, NEW harmed, Enter(p, o, harmed), OpShape(o),
         UNCHANGED disk,
         session' = [q \in Session |-> session'[q]], \A q \in Session : SessionShape(session'[q])
  PROVE  Shape'
<1>1. op' = [q \in Session |-> IF q = p THEN o ELSE op[q]] /\ calls' = calls + 1
  BY DEF Enter, Shape
<1> QED
  BY <1>1 DEF Shape, DiskShape

LEMMA CallShape == ASSUME Shape, NEW p \in Session, Call(p) PROVE Shape'
<1> USE DEF Shape
<1>1. ASSUME NEW new, NEW act, NEW harmed, Todos(p, new, act, harmed)
      PROVE  Shape'
  <2> DEFINE o == [store |-> "todos", stage |-> "ready", new |-> new, act |-> act]
  <2>1. OpShape(o)
    BY DEF OpShape, Stages
  <2>2. Enter(p, o, harmed) /\ UNCHANGED <<disk, session>>
    BY <1>1 DEF Todos
  <2> QED
    BY <2>1, <2>2, EnterShape
<1>2. CASE Remember(p)
  <2> DEFINE o == [store |-> "notes", stage |-> "ready", new |-> calls + 1]
  <2>1. OpShape(o)
    BY DEF OpShape, Stages
  <2>2. Enter(p, o, FALSE) /\ UNCHANGED <<disk, session>>
    BY <1>2 DEF Remember
  <2> QED
    BY <2>1, <2>2, EnterShape
<1>3. ASSUME NEW success \in BOOLEAN, Learn(p, success)
      PROVE  Shape'
  <2> DEFINE u == [n |-> session[p].table.n + 1,
                   wins |-> session[p].table.wins + (IF success THEN 1 ELSE 0)]
             o == [store |-> "table", stage |-> "ready", new |-> u]
  <2>1. OpShape(o)
    BY DEF OpShape, Stages
  <2>2. Enter(p, o, FALSE) /\ UNCHANGED disk /\ session' = [session EXCEPT ![p].table = u]
    BY <1>3 DEF Learn
  <2> HIDE DEF u
  <2>3. session' = [q \in Session |-> session'[q]] /\ \A q \in Session : SessionShape(session'[q])
    BY <2>2 DEF SessionShape
  <2> QED
    BY <2>1, <2>2, <2>3, EnterShape
<1>4. ASSUME NEW slug \in Slug, NEW r \in BOOLEAN, WriteSpec(p, slug, r)
      PROVE  Shape'
  <2> DEFINE at == IF Amends(p) THEN <<session[p].spec.number, session[p].spec.slug>>
                   ELSE <<Mint(slug, r), slug>>
             o == [store |-> "specs", stage |-> "ready", at |-> at,
                   new |-> [id |-> calls + 1, met |-> {}]]
  <2>1. at = <<at[1], at[2]>>
    OBVIOUS
  <2>2. Enter(p, o, ~r) /\ UNCHANGED <<disk, session>>
    BY <1>4 DEF WriteSpec
  <2> HIDE DEF at
  <2>3. OpShape(o)
    <3>1. /\ o.at = at /\ o.stage = "ready" /\ o.new.id = calls + 1 /\ o.new.met = {}
          /\ o.new = [id |-> calls + 1, met |-> {}]
      OBVIOUS
    <3>2. o.at = <<o.at[1], o.at[2]>>
      BY <2>1, <3>1, Zenon
    <3>3. o = [store |-> "specs", stage |-> o.stage, at |-> o.at,
               new |-> [id |-> o.new.id, met |-> o.new.met]]
      BY <3>1
    <3> HIDE DEF o
    <3> QED
      BY <3>1, <3>2, <3>3 DEF OpShape, Stages
  <2> QED
    BY <2>2, <2>3, EnterShape
<1>5. ASSUME NEW c \in Criterion, MarkMet(p, c)
      PROVE  Shape'
  <2> DEFINE spec == session[p].spec
             o == [store |-> "specs", stage |-> "ready", at |-> <<spec.number, spec.slug>>,
                   new |-> [id |-> spec.id, met |-> spec.met \cup {c}]]
  <2>1. SpecShape(spec) /\ spec.number # 0
    BY <1>5 DEF MarkMet, SessionShape
  <2>2. OpShape(o)
    <3>1. spec.id \in Nat
      BY <2>1 DEF SpecShape, NoSpec
    <3> HIDE DEF spec
    <3> QED
      BY <3>1 DEF OpShape, Stages
  <2>3. /\ Enter(p, o, FALSE) /\ UNCHANGED disk
        /\ session' = [session EXCEPT ![p].spec.met = @ \cup {c}]
    BY <1>5 DEF MarkMet
  <2>4. session' = [q \in Session |-> session'[q]] /\ \A q \in Session : SessionShape(session'[q])
    BY <2>1, <2>3 DEF SessionShape, SpecShape, NoSpec
  <2> QED
    BY <2>2, <2>3, <2>4, EnterShape
<1> QED
  BY <1>1, <1>2, <1>3, <1>4, <1>5 DEF Call, TodosAdd, TodosSet, TodosClear, Readable

\* What a session holds of the backlog is apart from its spec.
LEMMA ShownShape ==
  ASSUME NEW s, SessionShape(s), NEW shown
  PROVE  /\ SessionShape([s EXCEPT !.shown = shown, !.stale = FALSE])
         /\ SessionShape([s EXCEPT !.stale = TRUE])
         /\ [s EXCEPT !.shown = shown, !.stale = FALSE].spec = s.spec
         /\ [s EXCEPT !.stale = TRUE].spec = s.spec
         /\ [s EXCEPT !.shown = shown, !.stale = FALSE].live = s.live
         /\ [s EXCEPT !.stale = TRUE].live = s.live
<1> DEFINE a == [s EXCEPT !.shown = shown, !.stale = FALSE]
           b == [s EXCEPT !.stale = TRUE]
<1>1. a = [live |-> s.live, shown |-> shown, stale |-> FALSE, spec |-> s.spec, table |-> s.table]
  <2> DEFINE c == [s EXCEPT !.shown = shown]
  <2>1. c = [live |-> s.live, shown |-> shown, stale |-> s.stale, spec |-> s.spec, table |-> s.table]
    BY DEF SessionShape
  <2>2. a = [c EXCEPT !.stale = FALSE]
    OBVIOUS
  <2> HIDE DEF a, c
  <2> QED
    BY <2>1, <2>2
<1> HIDE DEF a
<1>2. b = [live |-> s.live, shown |-> s.shown, stale |-> TRUE, spec |-> s.spec, table |-> s.table]
  <2> DEFINE yes == TRUE
  <2>1. b = [s EXCEPT !.stale = yes]
    OBVIOUS
  <2> HIDE DEF yes, b
  <2>2. b = [live |-> s.live, shown |-> s.shown, stale |-> yes, spec |-> s.spec, table |-> s.table]
    BY <2>1 DEF SessionShape
  <2> QED
    BY <2>2 DEF yes
<1>3. a.spec = s.spec /\ b.spec = s.spec /\ a.live = s.live /\ b.live = s.live
  BY <1>1, <1>2
<1> HIDE DEF b
<1>4. SessionShape(a)
  BY <1>1 DEF SessionShape
<1>5. SessionShape(b)
  BY <1>2 DEF SessionShape
<1> QED
  BY <1>3, <1>4, <1>5, Zenon DEF a, b

\* The identity of a session's spec is a number.
LEMMA SpecIdType ==
  ASSUME Shape
  PROVE  \A q \in Session : session[q].spec.id \in Nat
<1> SUFFICES ASSUME NEW q \in Session PROVE session[q].spec.id \in Nat
  OBVIOUS
<1>1. SpecShape(session[q].spec)
  BY DEF Shape, SessionShape
<1>2. NoSpec.id \in Nat
  BY DEF NoSpec
<1> QED
  BY <1>1, <1>2 DEF SpecShape

LEMMA NextShape == ASSUME Shape, [Next]_vars PROVE Shape'
<1> USE DEF Shape
<1>1. ASSUME NEW p \in Session, Call(p) PROVE Shape'
  BY <1>1, CallShape
<1>2. ASSUME NEW p \in Session, Open(p) PROVE Shape'
  <2>1. DiskShape' /\ disk'.notes \in Seq(Nat)
    BY <1>2, NotesGrow DEF Open
  <2>2. \A q \in Session : OpShape(op'[q])
    BY <1>2 DEF Open, OpShape, Stages, Idle
  <2> QED
    BY <1>2, <2>1, <2>2 DEF Open
<1>3. ASSUME NEW p \in Session, Close(p) PROVE Shape'
  <2>1. DiskShape' /\ disk'.notes \in Seq(Nat)
    BY <1>3, NotesGrow DEF Close
  <2>2. op' = [op EXCEPT ![p] = Idle] /\ op[p] # Idle /\ UNCHANGED calls
    BY <1>3 DEF Close
  <2>3. session' = [q \in Session |-> session'[q]] /\ \A q \in Session : SessionShape(session'[q])
    <3>1. CASE UNCHANGED session
      BY <3>1
    <3>2. ASSUME NEW items, session' = Shows(p, items)
          PROVE  /\ session' = [q \in Session |-> session'[q]]
                 /\ \A q \in Session : SessionShape(session'[q])
      <4>1. ASSUME NEW q \in Session PROVE SessionShape(session'[q])
        <5>0. SessionShape(session[q])
          OBVIOUS
        <5>2. /\ SessionShape([session[q] EXCEPT !.shown = Display(items), !.stale = FALSE])
              /\ SessionShape([session[q] EXCEPT !.stale = TRUE])
          BY <5>0, ShownShape
        <5>1. session'[q] = IF q = p THEN [session[q] EXCEPT !.shown = Display(items), !.stale = FALSE]
                            ELSE [session[q] EXCEPT !.stale = TRUE]
          BY <3>2 DEF Shows
        <5> QED
          BY <5>1, <5>2
      <4> QED
        BY <3>2, <4>1 DEF Shows
    <3>3. ASSUME NEW yes \in BOOLEAN, op[p].store = "specs",
                 session' = [session EXCEPT ![p].spec =
                   [id |-> op[p].new.id, number |-> op[p].at[1], slug |-> op[p].at[2],
                    met |-> {}, approved |-> yes]]
          PROVE  /\ session' = [q \in Session |-> session'[q]]
                 /\ \A q \in Session : SessionShape(session'[q])
      <4> DEFINE s == [id |-> op[p].new.id, number |-> op[p].at[1], slug |-> op[p].at[2],
                       met |-> {}, approved |-> yes]
      <4>1. op[p].new.id \in Nat
        BY <3>3 DEF OpShape, Idle
      <4>2. SpecShape(s)
        BY <4>1 DEF SpecShape
      <4>3. session' = [session EXCEPT ![p].spec = s]
        BY <3>3
      <4> HIDE DEF s
      <4> QED
        BY <4>2, <4>3 DEF SessionShape
    <3>4. op[p].store \in Files
      BY <2>2, BusyStore
    <3> QED
      BY <1>3, <3>1, <3>2, <3>3, <3>4 DEF Close, Files
  <2> QED
    BY <2>1, <2>2, <2>3 DEF OpShape
<1>4. ASSUME NEW p \in Session, Fail(p) PROVE Shape'
  <2>1. DiskShape' /\ disk'.notes \in Seq(Nat)
    BY <1>4, NotesGrow DEF Fail, DiskShape
  <2> QED
    BY <1>4, <2>1 DEF Fail, OpShape
<1>5. ASSUME NEW p \in Session, Crash(p) PROVE Shape'
  <2>1. DiskShape' /\ disk'.notes \in Seq(Nat)
    BY <1>5, NotesGrow DEF Crash, DiskShape
  <2> QED
    BY <1>5, <2>1 DEF Crash, OpShape, SessionShape, SpecShape, Gone
<1>6. ASSUME NEW p \in Session, Start(p) \/ NewTask(p) \/ Leave(p) PROVE Shape'
  <2>1. UNCHANGED <<disk, op, calls>>
    BY <1>6 DEF Start, NewTask, Leave
  <2>2. SessionShape(Gone) /\ SpecShape(NoSpec)
    BY DEF SessionShape, SpecShape, Gone
  <2>3. session' = [q \in Session |-> session'[q]] /\ \A q \in Session : SessionShape(session'[q])
    <3>1. CASE Start(p)
      <4> DEFINE s == [live |-> TRUE, shown |-> BacklogText(disk.todos), stale |-> FALSE,
                       spec |-> NoSpec, table |-> LoadTable(disk.table)]
      <4>1. SessionShape(s)
        BY <2>2 DEF SessionShape
      <4>2. session' = [session EXCEPT ![p] = s]
        BY <3>1 DEF Start
      <4> HIDE DEF s
      <4> QED
        BY <4>1, <4>2
    <3>2. CASE NewTask(p)
      BY <3>2, <2>2 DEF NewTask, SessionShape
    <3>3. CASE Leave(p)
      BY <3>3, <2>2 DEF Leave
    <3> QED
      BY <1>6, <3>1, <3>2, <3>3
  <2> QED
    BY <2>1, <2>3 DEF DiskShape
<1>7. CASE UNCHANGED vars
  BY <1>7 DEF vars, DiskShape
<1> QED
  BY <1>1, <1>2, <1>3, <1>4, <1>5, <1>6, <1>7 DEF Next

LEMMA InitShape == Init => Shape
<1> SUFFICES ASSUME Init PROVE Shape
  OBVIOUS
<1>1. DiskShape /\ disk.notes \in Seq(Nat)
  BY DEF Init, DiskShape
<1>2. SessionShape(Gone) /\ OpShape(Idle)
  BY DEF SessionShape, SpecShape, Gone, OpShape
<1>3. session = [p \in Session |-> Gone] /\ op = [p \in Session |-> Idle] /\ calls = 0
  BY DEF Init
<1> QED
  BY <1>1, <1>2, <1>3 DEF Shape

-----------------------------------------------------------------------------
(* The notes.                                                              *)

\* Writing in the store of a call, or leaving the disk, keeps what is noted.
LEMMA NextNotes ==
  ASSUME Shape, NotesKept, [Next]_vars
  PROVE  NotesKept'
<1>1. ASSUME NEW p \in Session, op[p] # Idle, UNCHANGED noted,
             NEW content \in {Emptied(op[p]), Written(op[p])} \cup Torn(op[p]),
             disk' = Put(op[p], content)
      PROVE  NotesKept'
  BY <1>1, NotesGrow DEF NotesKept
<1>2. ASSUME UNCHANGED <<disk, noted>> PROVE NotesKept'
  BY <1>2 DEF NotesKept, Range
<1>3. ASSUME NEW p \in Session, Call(p) PROVE UNCHANGED <<disk, noted>>
  BY <1>3 DEF Call, TodosAdd, TodosSet, TodosClear, Todos, Remember, Learn, WriteSpec, MarkMet
<1>4. ASSUME NEW p \in Session, Open(p) PROVE NotesKept'
  BY <1>1, <1>4 DEF Open
<1>5. ASSUME NEW p \in Session, Close(p) PROVE NotesKept'
  <2>1. op[p] # Idle /\ disk' = Put(op[p], Written(op[p]))
    BY <1>5 DEF Close
  <2>2. op[p].store \in Files /\ OpShape(op[p])
    BY <2>1, BusyStore DEF Shape
  <2>3. CASE op[p].store # "notes"
    <3>1. UNCHANGED noted
      BY <1>5, <2>2, <2>3 DEF Close, Files
    <3> QED
      BY <1>1, <2>1, <3>1
  <2>4. CASE op[p].store = "notes"
    <3>1. noted' = noted \cup {op[p].new} /\ op[p].new \in Nat
      BY <1>5, <2>2, <2>4 DEF Close, OpShape, Idle
    <3>2. disk'.notes = Append(disk.notes, op[p].new)
      BY <2>1, <2>2, <2>4, PutFields DEF Written, Shape
    <3>3. op[p].new \in Range(disk'.notes)
      BY <3>1, <3>2 DEF Range, Shape
    <3>4. Range(disk.notes) \subseteq Range(disk'.notes)
      BY <2>1, NotesGrow
    <3> QED
      BY <3>1, <3>3, <3>4 DEF NotesKept
  <2> QED
    BY <2>3, <2>4
<1>6. ASSUME NEW p \in Session, Fail(p) \/ Crash(p) PROVE NotesKept'
  BY <1>1, <1>2, <1>6 DEF Fail, Crash
<1>7. ASSUME NEW p \in Session, Start(p) \/ NewTask(p) \/ Leave(p) PROVE UNCHANGED <<disk, noted>>
  BY <1>7 DEF Start, NewTask, Leave
<1>8. CASE UNCHANGED vars
  BY <1>2, <1>8 DEF vars
<1> QED
  BY <1>2, <1>3, <1>4, <1>5, <1>6, <1>7, <1>8 DEF Next

\* A note that was told to be saved stays whole, whatever crashes, fails or
\* writes beside it.
THEOREM NotesStay == Spec => []NotesKept
<1>1. Init => Shape /\ NotesKept
  BY InitShape DEF Init, NotesKept
<1>2. Shape /\ NotesKept /\ [Next]_vars => Shape' /\ NotesKept'
  BY NextShape, NextNotes
<1> QED
  BY <1>1, <1>2, PTL DEF Spec

-----------------------------------------------------------------------------
(* The specs, while their store has met no error, no cut write and no two  *)
(* writers: at most one call is about them, and it either marks an item of *)
(* the approved spec of its session or proposes one under a number that no *)
(* approved spec and no other session has.                                 *)

HasSpec(p) == session[p].spec.number # 0
At(p)      == <<session[p].spec.number, session[p].spec.slug>>
OnSpecs(p) == op[p].store = "specs"

Marks(p) ==
  /\ HasSpec(p) /\ session[p].spec.approved
  /\ op[p].at = At(p) /\ op[p].new.id = session[p].spec.id

Proposes(p) ==
  /\ op[p].new.id # session[p].spec.id /\ op[p].new.id <= calls
  /\ op[p].at[1] \in Nat \ {0}
  /\ \A a \in approved : a.at[1] # op[p].at[1]
  /\ \A q \in Session \ {p} : session[q].spec.number # op[p].at[1]
  /\ op[p].stage = "open" => op[p].at \in DOMAIN disk.specs

Alone    == \A p, q \in Session : OnSpecs(p) /\ OnSpecs(q) => p = q
Told     == \A p \in Session : OnSpecs(p) => Marks(p) \/ Proposes(p)
Numbered == /\ IsFiniteSet(DOMAIN disk.specs)
            /\ \E n \in Nat : \A at \in DOMAIN disk.specs : at[1] \in 0..n

Owned ==
  \A p \in Session :
    /\ session[p].spec.id <= calls
    /\ HasSpec(p) =>
         /\ session[p].spec.number \in Nat /\ At(p) \in DOMAIN disk.specs
         /\ \A q \in Session \ {p} : session[q].spec.number # session[p].spec.number
         /\ IF session[p].spec.approved THEN [at |-> At(p), id |-> session[p].spec.id] \in approved
            ELSE \A a \in approved : a.at[1] # session[p].spec.number

Kept ==
  \A a \in approved :
    /\ a.at \in DOMAIN disk.specs
    /\ \/ disk.specs[a.at].id = a.id
       \/ \E p \in Session : OnSpecs(p) /\ op[p].stage = "open" /\ op[p].at = a.at
    /\ \A b \in approved : b.at[1] = a.at[1] => b = a

SpecsInv == "specs" \notin hurt => Alone /\ Told /\ Numbered /\ Owned /\ Kept

\* A call is one of a live session.
CallsLive == \A p \in Session : ~Live(p) => op[p] = Idle

\* A bounded set of numbers has a largest one.
LEMMA Largest ==
  ASSUME NEW n \in Nat, NEW S \in SUBSET (0..n), S # {}
  PROVE  Max(S) \in S /\ \A j \in S : j <= Max(S)
<1> DEFINE R == OpToRel(<, Nat)
           T == {n - k : k \in S}
<1>1. IsWellFoundedOn(R, Nat)
  BY NatLessThanWellFounded
<1>2. T \in SUBSET Nat /\ T # {}
  <2>1. ASSUME NEW k \in S PROVE n - k \in Nat
    OBVIOUS
  <2> QED
    BY <2>1
<1>3. PICK m \in T : \A y \in T : ~(<<y, m>> \in R)
  <2> HIDE DEF R, T
  <2> QED
    BY <1>1, <1>2, WFMin
<1>4. \A y \in T : ~(y < m)
  BY <1>2, <1>3 DEF OpToRel
<1>5. PICK k \in S : m = n - k
  BY <1>3
<1>6. ASSUME NEW j \in S PROVE k >= j
  <2>1. n - j \in T
    OBVIOUS
  <2>2. ~(n - j < n - k)
    BY <2>1, <1>4, <1>5
  <2> QED
    BY <2>2
<1>7. Max(S) \in S /\ \A j \in S : Max(S) >= j
  BY <1>6 DEF Max
<1> QED
  BY <1>7

\* The number that is minted is past those of all files.
LEMMA MintFresh ==
  ASSUME Numbered, NEW slug
  PROVE  /\ Mint(slug, TRUE) \in Nat \ {0}
         /\ \A at \in DOMAIN disk.specs : at[1] < Mint(slug, TRUE)
<1> DEFINE seen  == {at[1] : at \in DOMAIN disk.specs}
           first == 1 + Max({0} \cup seen)
           card  == Cardinality(DOMAIN disk.specs)
           frees == {n \in first..(first + card) : <<n, slug>> \notin DOMAIN disk.specs}
<1>1. PICK n \in Nat : \A at \in DOMAIN disk.specs : at[1] \in 0..n
  BY DEF Numbered
<1>2. {0} \cup seen \in SUBSET (0..n) /\ {0} \cup seen # {}
  BY <1>1
<1>3. /\ first \in Nat \ {0}
      /\ \A at \in DOMAIN disk.specs : at[1] < first
  <2>1. Max({0} \cup seen) \in {0} \cup seen /\ \A j \in {0} \cup seen : j <= Max({0} \cup seen)
    <3> HIDE DEF seen
    <3> QED
      BY <1>2, Largest
  <2>2. Max({0} \cup seen) \in Nat
    BY <2>1, <1>2
  <2>3. ASSUME NEW at \in DOMAIN disk.specs PROVE at[1] < first
    BY <2>1, <2>2, <1>1
  <2> QED
    BY <2>2, <2>3
<1>4. card \in Nat
  BY FS_CardinalityType DEF Numbered
<1>5. first \in frees
  <2>1. <<first, slug>> \notin DOMAIN disk.specs
    <3>1. <<first, slug>>[1] = first
      OBVIOUS
    <3> HIDE DEF first
    <3> QED
      BY <1>3, <3>1
  <2> HIDE DEF first, card
  <2> QED
    BY <1>3, <1>4, <2>1
<1>6. \A k \in frees : k \in Nat /\ first <= k
  <2> HIDE DEF first, card
  <2> QED
    BY <1>3, <1>4
<1>7. Min(frees) \in frees /\ \A y \in frees : Min(frees) <= y
  BY <1>5, <1>6 DEF Min
<1>8. Mint(slug, TRUE) = Min(frees)
  BY DEF Mint
<1> DEFINE mint == Min(frees)
<1> HIDE DEF frees, first
<1>9. mint \in Nat /\ first <= mint
  BY <1>6, <1>7
<1> HIDE DEF mint
<1>10. ASSUME NEW at \in DOMAIN disk.specs PROVE at[1] < mint
  <2>1. at[1] \in Nat /\ at[1] < first /\ first \in Nat
    BY <1>1, <1>3
  <2> QED
    BY <2>1, <1>9
<1>11. mint \in Nat \ {0} /\ \A at \in DOMAIN disk.specs : at[1] < mint
  BY <1>3, <1>9, <1>10
<1> QED
  BY <1>8, <1>11, Zenon DEF mint

\* What is no step of a spec's writing, but for one that gives up before the
\* file is opened, or a session that drops its spec, keeps the invariant.
LEMMA SpecsAside ==
  ASSUME Shape, Shape', SpecsInv, UNCHANGED <<disk.specs, approved>>,
         hurt \subseteq hurt', calls <= calls',
         \A q \in Session :
           /\ session'[q].spec \in {session[q].spec, NoSpec}
           /\ op'[q].store = "specs" => op'[q] = op[q] /\ session'[q].spec = session[q].spec
           /\ op[q].store = "specs" /\ op[q].stage = "open" => op'[q] = op[q]
  PROVE  SpecsInv'
<1> SUFFICES ASSUME "specs" \notin hurt' PROVE (Alone /\ Told /\ Numbered /\ Owned /\ Kept)'
  BY DEF SpecsInv
<1>1. Alone /\ Told /\ Numbered /\ Owned /\ Kept
  BY DEF SpecsInv
<1>2. \A q \in Session : OnSpecs(q)' => OnSpecs(q) /\ op'[q] = op[q] /\ session'[q].spec = session[q].spec
  BY DEF OnSpecs
<1>3. NoSpec.id = 0 /\ NoSpec.number = 0
  BY DEF NoSpec
<1>4. calls \in Nat /\ calls' \in Nat /\ \A q \in Session : session[q].spec.id \in Nat
  BY SpecIdType DEF Shape
<1>5. Alone'
  BY <1>1, <1>2 DEF Alone
<1>6. Told'
  <2> SUFFICES ASSUME NEW p \in Session, OnSpecs(p)' PROVE Marks(p)' \/ Proposes(p)'
    BY DEF Told
  <2>1. OnSpecs(p) /\ op'[p] = op[p] /\ session'[p].spec = session[p].spec
    BY <1>2
  <2>2. CASE Marks(p)
    BY <2>1, <2>2 DEF Marks, HasSpec, At
  <2>3. CASE Proposes(p)
    <3>1. op[p].new.id \in Nat
      BY <2>1 DEF Shape, OpShape, OnSpecs, Idle
    <3>2. op'[p].new.id <= calls'
      BY <1>4, <2>1, <2>3, <3>1 DEF Proposes
    <3>3. \A q \in Session \ {p} : session'[q].spec.number # op'[p].at[1]
      BY <1>3, <2>1, <2>3 DEF Proposes
    <3> QED
      BY <2>1, <2>3, <3>2, <3>3 DEF Proposes
  <2> QED
    BY <1>1, <2>1, <2>2, <2>3 DEF Told
<1>7. Numbered'
  BY <1>1 DEF Numbered
<1>8. Owned'
  <2> SUFFICES ASSUME NEW p \in Session
               PROVE  /\ session'[p].spec.id <= calls'
                      /\ HasSpec(p)' =>
                           /\ session'[p].spec.number \in Nat /\ At(p)' \in DOMAIN disk.specs
                           /\ \A q \in Session \ {p} : session'[q].spec.number # session'[p].spec.number
                           /\ IF session'[p].spec.approved
                                THEN [at |-> At(p)', id |-> session'[p].spec.id] \in approved
                              ELSE \A a \in approved : a.at[1] # session'[p].spec.number
    BY DEF Owned
  <2>1. CASE session'[p].spec = NoSpec
    BY <1>3, <1>4, <2>1 DEF HasSpec
  <2>2. CASE session'[p].spec = session[p].spec
    <3>1. (HasSpec(p)' <=> HasSpec(p)) /\ At(p)' = At(p)
      BY <2>2 DEF HasSpec, At
    <3>2. session'[p].spec.id <= calls'
      <4>1. session[p].spec.id \in Nat /\ session[p].spec.id <= calls
        BY <1>1, <1>4 DEF Owned
      <4> QED
        BY <1>4, <2>2, <4>1
    <3>3. HasSpec(p) => \A q \in Session \ {p} : session'[q].spec.number # session'[p].spec.number
      <4> SUFFICES ASSUME HasSpec(p), NEW q \in Session \ {p}
                   PROVE  session'[q].spec.number # session'[p].spec.number
        OBVIOUS
      <4>1. session[p].spec.number # 0 /\ session[q].spec.number # session[p].spec.number
        BY <1>1 DEF Owned, HasSpec
      <4>2. session'[q].spec.number \in {0, session[q].spec.number}
        BY <1>3
      <4> QED
        BY <2>2, <4>1, <4>2
    <3>4. HasSpec(p) =>
            /\ session[p].spec.number \in Nat /\ At(p) \in DOMAIN disk.specs
            /\ IF session[p].spec.approved THEN [at |-> At(p), id |-> session[p].spec.id] \in approved
               ELSE \A a \in approved : a.at[1] # session[p].spec.number
      BY <1>1 DEF Owned
    <3> QED
      BY <2>2, <3>1, <3>2, <3>3, <3>4
  <2> QED
    BY <2>1, <2>2
<1>9. Kept'
  <2> SUFFICES ASSUME NEW a \in approved
               PROVE  \/ disk.specs[a.at].id = a.id
                      \/ \E p \in Session : OnSpecs(p)' /\ op'[p].stage = "open" /\ op'[p].at = a.at
    BY <1>1 DEF Kept
  <2> QED
    BY <1>1 DEF Kept, OnSpecs
<1> QED
  BY <1>5, <1>6, <1>7, <1>8, <1>9

\* A call of another store is aside.
LEMMA OtherCall ==
  ASSUME Shape, Shape', SpecsInv, NEW p \in Session, op[p] = Idle, NEW o, NEW harmed,
         Enter(p, o, harmed), o.store # "specs", UNCHANGED <<disk, approved>>,
         \A q \in Session : session'[q].spec = session[q].spec
  PROVE  SpecsInv'
<1>1. op' = [op EXCEPT ![p] = o] /\ calls' = calls + 1 /\ hurt \subseteq hurt'
  BY DEF Enter
<1>2. calls <= calls'
  BY <1>1 DEF Shape
<1>3. Idle.store # "specs"
  BY DEF Idle
<1>4. \A q \in Session : op'[q] = IF q = p THEN o ELSE op[q]
  BY <1>1 DEF Shape
<1> QED
  BY <1>1, <1>2, <1>3, <1>4, SpecsAside

\* Where a call about the specs leaves their store unhurt, it is the only one.
LEMMA EntersAlone ==
  ASSUME Shape, SpecsInv, NEW p \in Session, op[p] = Idle, NEW o, NEW harmed \in BOOLEAN,
         Enter(p, o, harmed), o.store = "specs", "specs" \notin hurt'
  PROVE  /\ ~harmed /\ Alone' /\ Alone /\ Told /\ Numbered /\ Owned /\ Kept
         /\ op'[p] = o /\ calls' = calls + 1
         /\ \A q \in Session : ~OnSpecs(q) /\ (q # p => ~OnSpecs(q)')
<1>1. /\ op' = [op EXCEPT ![p] = o] /\ calls' = calls + 1
      /\ hurt' = hurt \cup (IF harmed \/ \E q \in Session \ {p} : op[q].store = "specs"
                              THEN {"specs"} ELSE {})
  BY DEF Enter
<1>2. ~harmed /\ (\A q \in Session \ {p} : op[q].store # "specs") /\ "specs" \notin hurt
  BY <1>1
<1>3. \A q \in Session : ~OnSpecs(q)
  BY <1>2 DEF OnSpecs, Idle
<1>4. op'[p] = o /\ \A q \in Session : q # p => ~OnSpecs(q)'
  BY <1>1, <1>2 DEF OnSpecs, Shape
<1> QED
  BY <1>1, <1>2, <1>3, <1>4 DEF SpecsInv, Alone

\* The identities are those of calls that were made.
LEMMA IdBound ==
  ASSUME Shape, Owned, NEW q \in Session
  PROVE  /\ session[q].spec.id \in Nat /\ calls \in Nat
         /\ session[q].spec.id <= calls /\ session[q].spec.id <= calls + 1
<1>1. session[q].spec.id \in Nat /\ calls \in Nat
  BY SpecIdType DEF Shape
<1>2. session[q].spec.id <= calls
  BY DEF Owned
<1> QED
  BY <1>1, <1>2

LEMMA WriteSpecStep ==
  ASSUME Shape, Shape', SpecsInv, NEW p \in Session, NEW slug \in Slug, NEW r \in BOOLEAN,
         WriteSpec(p, slug, r)
  PROVE  SpecsInv'
<1> SUFFICES ASSUME "specs" \notin hurt' PROVE (Alone /\ Told /\ Numbered /\ Owned /\ Kept)'
  BY DEF SpecsInv
<1> DEFINE at == IF Amends(p) THEN <<session[p].spec.number, session[p].spec.slug>>
                 ELSE <<Mint(slug, r), slug>>
           o  == [store |-> "specs", stage |-> "ready", at |-> at,
                  new |-> [id |-> calls + 1, met |-> {}]]
<1>1. /\ op[p] = Idle /\ Enter(p, o, ~r)
      /\ UNCHANGED <<disk, session, approved>>
  BY DEF WriteSpec, Free
<1>2. o.store = "specs" /\ o.at = at /\ o.stage = "ready" /\ o.new.id = calls + 1
  OBVIOUS
<1> HIDE DEF o
<1>3. /\ ~(~r) /\ Alone' /\ Alone /\ Told /\ Numbered /\ Owned /\ Kept
      /\ op'[p] = o /\ calls' = calls + 1
      /\ \A q \in Session : ~OnSpecs(q) /\ (q # p => ~OnSpecs(q)')
  BY <1>1, <1>2, EntersAlone
<1>4. /\ at[1] \in Nat \ {0}
      /\ \A a \in approved : a.at[1] # at[1]
      /\ \A q \in Session \ {p} : session[q].spec.number # at[1]
  <2>1. CASE Amends(p)
    <3>1. at[1] = session[p].spec.number /\ HasSpec(p) /\ ~session[p].spec.approved
      BY <2>1 DEF Amends, HasSpec
    <3> HIDE DEF at
    <3>2. session[p].spec.number # 0
      BY <3>1 DEF HasSpec
    <3> QED
      BY <1>3, <3>1, <3>2 DEF Owned
  <2>2. CASE ~Amends(p)
    <3>1. at[1] = Mint(slug, r) /\ r = TRUE
      BY <1>3, <2>2
    <3>2. at[1] \in Nat \ {0} /\ \A f \in DOMAIN disk.specs : f[1] < at[1]
      <4> HIDE DEF at
      <4> QED
        BY <1>3, <3>1, MintFresh
    <3> HIDE DEF at
    <3>3. \A f \in DOMAIN disk.specs : f[1] # at[1]
      <4> SUFFICES ASSUME NEW f \in DOMAIN disk.specs PROVE f[1] # at[1]
        OBVIOUS
      <4>1. f[1] \in Nat
        BY <1>3 DEF Numbered
      <4> QED
        BY <3>2, <4>1
    <3>4. \A a \in approved : a.at[1] # at[1]
      BY <1>3, <3>3 DEF Kept
    <3>5. ASSUME NEW q \in Session PROVE session[q].spec.number # at[1]
      <4>1. CASE HasSpec(q)
        <5>1. At(q) \in DOMAIN disk.specs /\ At(q)[1] = session[q].spec.number
          BY <1>3, <4>1 DEF Owned, At
        <5> QED
          BY <3>3, <5>1
      <4>2. CASE ~HasSpec(q)
        BY <3>2, <4>2 DEF HasSpec
      <4> QED
        BY <4>1, <4>2
    <3> QED
      BY <3>2, <3>4, <3>5
  <2> QED
    BY <2>1, <2>2
<1> HIDE DEF at
<1>5. Proposes(p)'
  <2>1. session[p].spec.id \in Nat /\ session[p].spec.id <= calls /\ calls \in Nat
    BY <1>3, SpecIdType DEF Owned, Shape
  <2>2. op'[p].new.id # session[p].spec.id /\ op'[p].new.id <= calls'
    BY <1>2, <1>3, <2>1
  <2> QED
    BY <1>1, <1>2, <1>3, <1>4, <2>2 DEF Proposes
<1>6. Told'
  BY <1>3, <1>5 DEF Told
<1>7. Numbered' /\ Kept'
  BY <1>1, <1>3 DEF Numbered, Kept, OnSpecs
<1>8. Owned'
  <2>1. \A q \in Session : session[q].spec.id <= calls'
    BY <1>3, IdBound
  <2> QED
    BY <1>1, <1>3, <2>1 DEF Owned, HasSpec, At
<1> QED
  BY <1>3, <1>6, <1>7, <1>8

LEMMA MarkMetStep ==
  ASSUME Shape, Shape', SpecsInv, NEW p \in Session, NEW c \in Criterion, MarkMet(p, c)
  PROVE  SpecsInv'
<1> SUFFICES ASSUME "specs" \notin hurt' PROVE (Alone /\ Told /\ Numbered /\ Owned /\ Kept)'
  BY DEF SpecsInv
<1> DEFINE spec == session[p].spec
           o    == [store |-> "specs", stage |-> "ready", at |-> <<spec.number, spec.slug>>,
                    new |-> [id |-> spec.id, met |-> spec.met \cup {c}]]
<1>1. /\ op[p] = Idle /\ Enter(p, o, FALSE)
      /\ UNCHANGED <<disk, approved>> /\ HasSpec(p) /\ spec.approved
      /\ session' = [session EXCEPT ![p].spec.met = @ \cup {c}]
  BY DEF MarkMet, Free, HasSpec
<1>2. o.store = "specs" /\ o.at = At(p) /\ o.stage = "ready" /\ o.new.id = spec.id
  BY DEF At
<1>3. \A q \in Session : /\ session'[q].spec.id = session[q].spec.id
                          /\ session'[q].spec.number = session[q].spec.number
                          /\ session'[q].spec.slug = session[q].spec.slug
                          /\ session'[q].spec.approved = session[q].spec.approved
  <2>1. SpecShape(spec) /\ spec # NoSpec
    BY <1>1 DEF Shape, SessionShape, HasSpec, NoSpec
  <2>2. spec = [id |-> spec.id, number |-> spec.number, slug |-> spec.slug, met |-> spec.met,
                approved |-> spec.approved]
    BY <2>1 DEF SpecShape
  <2>3. session'[p].spec = [spec EXCEPT !.met = @ \cup {c}]
    <3>1. session[p] = [live |-> session[p].live, shown |-> session[p].shown,
                        stale |-> session[p].stale, spec |-> spec, table |-> session[p].table]
      BY DEF Shape, SessionShape
    <3>2. session'[p] = [session[p] EXCEPT !.spec = [spec EXCEPT !.met = @ \cup {c}]]
      BY <1>1 DEF Shape
    <3> HIDE DEF spec, o
    <3> QED
      BY <3>1, <3>2
  <2>4. \A q \in Session : q # p => session'[q] = session[q]
    BY <1>1 DEF Shape
  <2> HIDE DEF o
  <2>5. /\ session'[p].spec.id = spec.id /\ session'[p].spec.number = spec.number
        /\ session'[p].spec.slug = spec.slug /\ session'[p].spec.approved = spec.approved
    BY <2>2, <2>3
  <2> QED
    BY <2>4, <2>5
<1> HIDE DEF o
<1>4. /\ Alone' /\ Alone /\ Told /\ Numbered /\ Owned /\ Kept
      /\ op'[p] = o /\ calls' = calls + 1
      /\ \A q \in Session : ~OnSpecs(q) /\ (q # p => ~OnSpecs(q)')
  BY <1>1, <1>2, EntersAlone
<1>5. \A q \in Session : (HasSpec(q)' <=> HasSpec(q)) /\ At(q)' = At(q)
  BY <1>3 DEF HasSpec, At
<1>6. Marks(p)'
  BY <1>1, <1>2, <1>3, <1>4, <1>5 DEF Marks
<1>7. Told'
  BY <1>4, <1>6 DEF Told
<1>8. Numbered' /\ Kept'
  BY <1>1, <1>4 DEF Numbered, Kept, OnSpecs
<1>9. Owned'
  <2>1. \A q \in Session : session'[q].spec.id <= calls'
    BY <1>3, <1>4, IdBound
  <2> QED
    BY <1>1, <1>3, <1>4, <1>5, <2>1 DEF Owned
<1> QED
  BY <1>4, <1>7, <1>8, <1>9

\* Opening the file of a call about the specs: the one it names is emptied.
LEMMA OpenStep ==
  ASSUME Shape, Shape', SpecsInv, NEW p \in Session, Open(p)
  PROVE  SpecsInv'
<1> DEFINE o == op[p]
<1>1. /\ o # Idle /\ OpShape(o) /\ o.store \in Files /\ o.stage = "ready"
      /\ disk' = Put(o, Emptied(o)) /\ UNCHANGED <<session, calls, approved, hurt>>
      /\ op' = [op EXCEPT ![p].stage = "open"]
  BY BusyStore DEF Open, Shape
<1>2. /\ op'[p].stage = "open" /\ op'[p].store = o.store
      /\ o.store = "specs" => op'[p].at = o.at /\ op'[p].new = o.new
      /\ \A q \in Session : q # p => op'[q] = op[q]
  BY <1>1 DEF Shape, OpShape
<1>3. disk'.specs = IF o.store = "specs"
                      THEN [at \in DOMAIN disk.specs \cup {o.at} |->
                              IF at = o.at THEN Emptied(o) ELSE disk.specs[at]]
                      ELSE disk.specs
  BY <1>1, PutFields DEF Shape
<1>4. CASE o.store # "specs"
  <2>1. \A q \in Session :
           /\ session'[q].spec = session[q].spec
           /\ op'[q].store = "specs" => op'[q] = op[q]
           /\ op[q].store = "specs" => op'[q] = op[q]
    BY <1>1, <1>2, <1>4
  <2>2. calls <= calls' /\ hurt \subseteq hurt' /\ UNCHANGED <<disk.specs, approved>>
    BY <1>1, <1>3, <1>4 DEF Shape
  <2> QED
    BY <2>1, <2>2, SpecsAside
<1>5. CASE o.store = "specs" /\ "specs" \notin hurt
  <2>1. Alone /\ Told /\ Numbered /\ Owned /\ Kept /\ OnSpecs(p) /\ OnSpecs(p)'
    BY <1>2, <1>5 DEF SpecsInv, OnSpecs
  <2>2. DOMAIN disk'.specs = DOMAIN disk.specs \cup {o.at}
    BY <1>3, <1>5
  <2>3. \A q \in Session : OnSpecs(q)' <=> OnSpecs(q)
    BY <1>2, <2>1 DEF OnSpecs
  <2>4. Alone'
    BY <2>1, <2>3 DEF Alone
  <2>5. Marks(p)' \/ Proposes(p)'
    <3>1. CASE Marks(p)
      BY <1>1, <1>2, <1>5, <3>1 DEF Marks, HasSpec, At
    <3>2. CASE Proposes(p)
      BY <1>1, <1>2, <1>5, <2>2, <3>2 DEF Proposes
    <3> QED
      BY <2>1, <3>1, <3>2 DEF Told
  <2>6. Told'
    BY <2>1, <2>3, <2>5 DEF Told, Alone
  <2>7. o.at[1] \in Nat
    <3>1. CASE Marks(p)
      <4>1. HasSpec(p) /\ o.at = At(p)
        BY <3>1 DEF Marks
      <4>2. session[p].spec.number \in Nat
        BY <2>1, <4>1 DEF Owned
      <4>3. At(p)[1] = session[p].spec.number
        BY DEF At
      <4> QED
        BY <4>1, <4>2, <4>3
    <3>2. CASE Proposes(p)
      BY <3>2 DEF Proposes
    <3> QED
      BY <2>1, <3>1, <3>2 DEF Told
  <2>8. Numbered'
    <3>1. IsFiniteSet(DOMAIN disk'.specs)
      BY <2>1, <2>2, FS_AddElement DEF Numbered
    <3>2. PICK n \in Nat : \A at \in DOMAIN disk.specs : at[1] \in 0..n
      BY <2>1 DEF Numbered
    <3>3. n + o.at[1] \in Nat
      BY <2>7
    <3>4. ASSUME NEW at \in DOMAIN disk'.specs PROVE at[1] \in 0..(n + o.at[1])
      BY <2>2, <2>7, <3>2
    <3> QED
      BY <3>1, <3>3, <3>4 DEF Numbered
  <2>9. Owned'
    BY <1>1, <2>1, <2>2 DEF Owned, HasSpec, At
  <2>10. Kept'
    <3> SUFFICES ASSUME NEW a \in approved
                 PROVE  \/ disk'.specs[a.at].id = a.id
                        \/ \E q \in Session : OnSpecs(q)' /\ op'[q].stage = "open" /\ op'[q].at = a.at
      BY <1>1, <2>1, <2>2 DEF Kept
    <3>1. CASE a.at = o.at
      BY <1>2, <1>5, <2>1, <3>1
    <3>2. CASE a.at # o.at
      <4>1. a.at \in DOMAIN disk.specs /\ disk'.specs[a.at] = disk.specs[a.at]
        BY <1>3, <1>5, <2>1, <3>2 DEF Kept
      <4>2. \A q \in Session : OnSpecs(q) => q = p /\ op[q].stage # "open"
        BY <1>1, <2>1 DEF Alone
      <4>3. disk.specs[a.at].id = a.id
        BY <2>1, <4>2 DEF Kept
      <4> QED
        BY <4>1, <4>3
    <3> QED
      BY <3>1, <3>2
  <2> QED
    BY <2>4, <2>6, <2>8, <2>9, <2>10 DEF SpecsInv
<1> QED
  BY <1>1, <1>4, <1>5 DEF SpecsInv

\* The end of a call that writes a spec, when it is the only one.
LEMMA CloseSpecs ==
  ASSUME Shape, Shape', SpecsInv, NEW p \in Session, Close(p), op[p].store = "specs",
         "specs" \notin hurt'
  PROVE  (Alone /\ Told /\ Numbered /\ Owned /\ Kept)'
<1> DEFINE o == op[p]
<1>1. /\ o # Idle /\ OpShape(o) /\ o.stage = "open"
      /\ disk' = Put(o, o.new) /\ UNCHANGED <<calls, hurt>> /\ op' = [op EXCEPT ![p] = Idle]
  BY DEF Close, Shape, Written
<1>2. disk'.specs = [at \in DOMAIN disk.specs \cup {o.at} |->
                       IF at = o.at THEN o.new ELSE disk.specs[at]]
  <2> DEFINE content == o.new
  <2>1. DiskShape /\ o.store \in Files /\ disk' = Put(o, content)
    BY <1>1 DEF Shape, Files
  <2> HIDE DEF content, o
  <2>2. disk'.specs = IF o.store = "specs"
                        THEN [at \in DOMAIN disk.specs \cup {o.at} |->
                                IF at = o.at THEN content ELSE disk.specs[at]]
                        ELSE disk.specs
    BY <2>1, PutFields
  <2> QED
    BY <2>2 DEF content, o
<1>3. Alone /\ Told /\ Numbered /\ Owned /\ Kept /\ OnSpecs(p)
  BY <1>1 DEF SpecsInv, OnSpecs
<1>4. \A q \in Session : ~OnSpecs(q)'
  BY <1>1, <1>3 DEF OnSpecs, Alone, Shape, Idle
<1>5. Alone' /\ Told'
  BY <1>4 DEF Alone, Told
<1>6. /\ o.at \in DOMAIN disk.specs /\ DOMAIN disk'.specs = DOMAIN disk.specs
      /\ disk'.specs[o.at] = o.new
      /\ \A at \in DOMAIN disk.specs : at # o.at => disk'.specs[at] = disk.specs[at]
  <2>1. o.at \in DOMAIN disk.specs
    <3>1. CASE Marks(p)
      BY <1>3, <3>1 DEF Marks, Owned
    <3>2. CASE Proposes(p)
      BY <1>1, <3>2 DEF Proposes
    <3> QED
      BY <1>3, <3>1, <3>2 DEF Told
  <2> QED
    BY <1>2, <2>1
<1>7. Numbered'
  BY <1>3, <1>6 DEF Numbered
<1>8. \A a \in approved : a.at # o.at => disk'.specs[a.at].id = a.id
  <2> SUFFICES ASSUME NEW a \in approved, a.at # o.at PROVE disk'.specs[a.at].id = a.id
    OBVIOUS
  <2>1. a.at \in DOMAIN disk.specs /\ disk'.specs[a.at] = disk.specs[a.at]
    BY <1>3, <1>6 DEF Kept
  <2>2. ~\E q \in Session : OnSpecs(q) /\ op[q].at = a.at
    BY <1>3 DEF Alone
  <2> QED
    BY <1>3, <2>1, <2>2 DEF Kept
<1>9. CASE session[p].spec.id = o.new.id
  <2>1. Marks(p)
    BY <1>3, <1>9 DEF Told, Proposes
  <2>2. UNCHANGED <<session, approved>>
    BY <1>9 DEF Close
  <2>3. [at |-> o.at, id |-> o.new.id] \in approved
    BY <1>3, <2>1 DEF Marks, Owned
  <2>4. \A a \in approved : a.at = o.at => a.id = o.new.id
    BY <1>3, <2>3 DEF Kept
  <2>5. Kept'
    BY <1>3, <1>6, <1>8, <2>2, <2>4 DEF Kept
  <2>6. Owned'
    BY <1>1, <1>3, <1>6, <2>2 DEF Owned, HasSpec, At
  <2> QED
    BY <1>5, <1>7, <2>5, <2>6
<1>10. CASE session[p].spec.id # o.new.id
  <2>1. Proposes(p)
    BY <1>3, <1>10 DEF Told, Marks
  <2>2. PICK yes \in BOOLEAN :
          /\ session' = [session EXCEPT ![p].spec =
               [id |-> o.new.id, number |-> o.at[1], slug |-> o.at[2], met |-> {}, approved |-> yes]]
          /\ approved' = IF yes THEN approved \cup {[at |-> o.at, id |-> o.new.id]} ELSE approved
    BY <1>10 DEF Close
  <2> DEFINE s == [id |-> o.new.id, number |-> o.at[1], slug |-> o.at[2], met |-> {}, approved |-> yes]
             e == [at |-> o.at, id |-> o.new.id]
  <2>3. session'[p].spec = s /\ \A q \in Session : q # p => session'[q] = session[q]
    <3>1. session[p] = [live |-> session[p].live, shown |-> session[p].shown, stale |-> session[p].stale,
                        spec |-> session[p].spec, table |-> session[p].table]
      BY DEF Shape, SessionShape
    <3>2. session' = [session EXCEPT ![p].spec = s]
      BY <2>2
    <3> HIDE DEF s
    <3> QED
      BY <3>1, <3>2 DEF Shape
  <2>4. s.id = o.new.id /\ s.number = o.at[1] /\ s.slug = o.at[2] /\ s.approved = yes
    OBVIOUS
  <2>5. o.at = <<o.at[1], o.at[2]>> /\ o.new.id \in Nat
    BY <1>1 DEF OpShape, Idle
  <2>6. HasSpec(p)' /\ At(p)' = o.at
    BY <2>1, <2>3, <2>4, <2>5 DEF HasSpec, At, Proposes
  <2>7. \A q \in Session : q # p => (HasSpec(q)' <=> HasSpec(q)) /\ At(q)' = At(q)
    BY <2>3 DEF HasSpec, At
  <2>8. /\ approved' = IF yes THEN approved \cup {e} ELSE approved
        /\ e.at = o.at /\ e.id = o.new.id
        /\ \A a \in approved : a.at[1] # o.at[1]
        /\ \A q \in Session \ {p} : session[q].spec.number # o.at[1]
    BY <2>1, <2>2 DEF Proposes
  <2> HIDE DEF s, e, o
  <2>9. Kept'
    <3> SUFFICES ASSUME NEW a \in approved'
                 PROVE  /\ a.at \in DOMAIN disk'.specs
                        /\ disk'.specs[a.at].id = a.id
                        /\ \A b \in approved' : b.at[1] = a.at[1] => b = a
      BY DEF Kept
    <3>1. CASE a \in approved
      BY <1>3, <1>6, <1>8, <2>8, <3>1 DEF Kept
    <3>2. CASE a = e
      BY <1>6, <2>8, <3>2
    <3> QED
      BY <2>8, <3>1, <3>2
  <2>10. Owned'
    <3> SUFFICES ASSUME NEW q \in Session
                 PROVE  /\ session'[q].spec.id <= calls'
                        /\ HasSpec(q)' =>
                             /\ session'[q].spec.number \in Nat /\ At(q)' \in DOMAIN disk'.specs
                             /\ \A t \in Session \ {q} : session'[t].spec.number # session'[q].spec.number
                             /\ IF session'[q].spec.approved
                                  THEN [at |-> At(q)', id |-> session'[q].spec.id] \in approved'
                                ELSE \A a \in approved' : a.at[1] # session'[q].spec.number
      BY DEF Owned
    <3>1. CASE q = p
      <4>1. session'[p].spec.id <= calls' /\ session'[p].spec.number \in Nat
        BY <1>1, <2>1, <2>3, <2>4 DEF Proposes, o
      <4>2. \A t \in Session \ {p} : session'[t].spec.number # session'[p].spec.number
        BY <2>3, <2>4, <2>8
      <4>3. IF session'[p].spec.approved THEN [at |-> At(p)', id |-> session'[p].spec.id] \in approved'
            ELSE \A a \in approved' : a.at[1] # session'[p].spec.number
        BY <2>3, <2>4, <2>6, <2>8 DEF e
      <4> QED
        BY <1>6, <2>6, <3>1, <4>1, <4>2, <4>3
    <3>2. CASE q # p
      <4>1. session'[q].spec.id <= calls'
        BY <1>1, <1>3, <2>3, <3>2 DEF Owned
      <4>2. HasSpec(q) =>
              /\ session[q].spec.number \in Nat /\ At(q) \in DOMAIN disk.specs
              /\ \A t \in Session \ {q} : session[t].spec.number # session[q].spec.number
              /\ IF session[q].spec.approved THEN [at |-> At(q), id |-> session[q].spec.id] \in approved
                 ELSE \A a \in approved : a.at[1] # session[q].spec.number
        BY <1>3 DEF Owned
      <4>3. session[q].spec.number # o.at[1]
        BY <2>8, <3>2
      <4>4. \A t \in Session \ {q} : HasSpec(q) => session'[t].spec.number # session[q].spec.number
        BY <2>3, <2>4, <4>2, <4>3
      <4> QED
        BY <1>6, <2>3, <2>7, <2>8, <3>2, <4>1, <4>2, <4>3, <4>4
    <3> QED
      BY <3>1, <3>2
  <2> QED
    BY <1>5, <1>7, <2>9, <2>10
<1> QED
  BY <1>9, <1>10

LEMMA CloseStep ==
  ASSUME Shape, Shape', SpecsInv, NEW p \in Session, Close(p)
  PROVE  SpecsInv'
<1> DEFINE o == op[p]
<1>1. /\ o # Idle /\ OpShape(o) /\ o.store \in Files /\ disk' = Put(o, Written(o))
      /\ UNCHANGED <<calls, hurt>> /\ op' = [op EXCEPT ![p] = Idle]
  BY BusyStore DEF Close, Shape
<1>2. CASE o.store = "specs"
  BY <1>2, CloseSpecs DEF SpecsInv
<1>3. CASE o.store # "specs"
  <2>1. UNCHANGED disk.specs
    BY <1>1, <1>3, PutFields DEF Shape
  <2>2. UNCHANGED approved
    BY <1>1, <1>3 DEF Close, Files
  <2>3. \A q \in Session : session'[q].spec = session[q].spec
    <3>1. CASE UNCHANGED session
      BY <3>1
    <3>2. ASSUME NEW items, session' = Shows(p, items), NEW q \in Session
          PROVE  session'[q].spec = session[q].spec
      <4>1. session'[q] = IF q = p THEN [session[q] EXCEPT !.shown = Display(items), !.stale = FALSE]
                          ELSE [session[q] EXCEPT !.stale = TRUE]
        BY <3>2 DEF Shows
      <4>2. /\ [session[q] EXCEPT !.shown = Display(items), !.stale = FALSE].spec = session[q].spec
            /\ [session[q] EXCEPT !.stale = TRUE].spec = session[q].spec
        <5>1. SessionShape(session[q])
          BY DEF Shape
        <5> QED
          BY <5>1, ShownShape
      <4> QED
        BY <4>1, <4>2
    <3> QED
      BY <1>1, <1>3, <3>1, <3>2 DEF Close, Files
  <2>4. \A q \in Session :
           /\ op'[q].store = "specs" => op'[q] = op[q]
           /\ op[q].store = "specs" => op'[q] = op[q]
    BY <1>1, <1>3 DEF Shape, Idle
  <2>5. calls <= calls' /\ hurt \subseteq hurt'
    BY <1>1 DEF Shape
  <2> QED
    <3>1. \A q \in Session :
             /\ session'[q].spec \in {session[q].spec, NoSpec}
             /\ op'[q].store = "specs" => op'[q] = op[q] /\ session'[q].spec = session[q].spec
             /\ op[q].store = "specs" /\ op[q].stage = "open" => op'[q] = op[q]
      BY <2>3, <2>4
    <3> QED
      BY <2>1, <2>2, <2>5, <3>1, SpecsAside
<1> QED
  BY <1>2, <1>3

\* A call that is cut short leaves a whole store, or one that is hurt.
LEMMA CutStep ==
  ASSUME Shape, Shape', SpecsInv, NEW p \in Session, Fail(p) \/ Crash(p)
  PROVE  SpecsInv'
<1> DEFINE o == op[p]
<1>1. /\ o # Idle /\ OpShape(o) /\ o.store \in Files
      /\ UNCHANGED <<calls, approved>> /\ op' = [op EXCEPT ![p] = Idle]
      /\ IF o.stage = "ready" THEN UNCHANGED <<disk, hurt>>
         ELSE /\ \E content \in Torn(o) : disk' = Put(o, content)
              /\ hurt' = hurt \cup {o.store}
  BY BusyStore DEF Fail, Crash, Shape
<1>2. \A q \in Session : session'[q].spec \in {session[q].spec, NoSpec}
  BY DEF Fail, Crash, Gone, Shape
<1>3. \A q \in Session : q # p => session'[q] = session[q] /\ op'[q] = op[q]
  BY <1>1 DEF Fail, Crash, Shape
<1>4. op'[p] = Idle /\ Idle.store # "specs"
  BY <1>1 DEF Idle, Shape
<1>5. calls <= calls' /\ hurt \subseteq hurt'
  BY <1>1 DEF Shape
<1>6. CASE o.stage = "open" /\ o.store = "specs"
  BY <1>1, <1>6 DEF SpecsInv
<1>7. CASE o.stage = "ready" \/ o.store # "specs"
  <2>1. UNCHANGED disk.specs
    BY <1>1, <1>7, PutFields DEF Shape
  <2>2. \A q \in Session :
           /\ op'[q].store = "specs" => op'[q] = op[q] /\ session'[q].spec = session[q].spec
           /\ op[q].store = "specs" /\ op[q].stage = "open" => op'[q] = op[q]
    BY <1>3, <1>4, <1>7
  <2> QED
    BY <1>1, <1>2, <1>5, <2>1, <2>2, SpecsAside
<1> QED
  BY <1>1, <1>6, <1>7, BusyStore DEF Stages

LEMMA NextCallsLive == ASSUME Shape, CallsLive, [Next]_vars PROVE CallsLive'
<1>1. ASSUME NEW p \in Session, Call(p) PROVE CallsLive'
  <2>1. /\ Live(p) /\ \A q \in Session : session'[q].live = session[q].live
        /\ \A q \in Session : q # p => op'[q] = op[q]
    <3>1. ASSUME NEW new, NEW act, NEW harmed, Todos(p, new, act, harmed)
          PROVE  /\ \A q \in Session : session'[q].live = session[q].live
                 /\ \A q \in Session : q # p => op'[q] = op[q]
      BY <3>1 DEF Todos, Enter, Shape
    <3>2. Live(p)
      BY <1>1 DEF Call, TodosAdd, TodosSet, TodosClear, Remember, Learn, WriteSpec, MarkMet, Free
    <3>3. CASE Remember(p) \/ \E slug \in Slug, r \in Readable : WriteSpec(p, slug, r)
      BY <3>2, <3>3 DEF Remember, WriteSpec, Enter, Shape
    <3>4. ASSUME NEW success \in BOOLEAN, Learn(p, success)
          PROVE  /\ \A q \in Session : session'[q].live = session[q].live
                 /\ \A q \in Session : q # p => op'[q] = op[q]
      BY <3>4 DEF Learn, Enter, Shape, SessionShape
    <3>5. ASSUME NEW c \in Criterion, MarkMet(p, c)
          PROVE  /\ \A q \in Session : session'[q].live = session[q].live
                 /\ \A q \in Session : q # p => op'[q] = op[q]
      BY <3>5 DEF MarkMet, Enter, Shape, SessionShape
    <3> QED
      BY <1>1, <3>1, <3>2, <3>3, <3>4, <3>5 DEF Call, TodosAdd, TodosSet, TodosClear
  <2> QED
    BY <2>1 DEF CallsLive, Live
<1>2. ASSUME NEW p \in Session, Open(p) PROVE CallsLive'
  BY <1>2 DEF Open, CallsLive, Live, Shape
<1>3. ASSUME NEW p \in Session, Close(p) PROVE CallsLive'
  <2>1. \A q \in Session : session'[q].live = session[q].live
    <3>1. CASE UNCHANGED session
      BY <3>1
    <3>2. ASSUME NEW items, session' = Shows(p, items), NEW q \in Session
          PROVE  session'[q].live = session[q].live
      <4>1. session'[q] = IF q = p THEN [session[q] EXCEPT !.shown = Display(items), !.stale = FALSE]
                          ELSE [session[q] EXCEPT !.stale = TRUE]
        BY <3>2 DEF Shows
      <4>2. /\ [session[q] EXCEPT !.shown = Display(items), !.stale = FALSE].live = session[q].live
            /\ [session[q] EXCEPT !.stale = TRUE].live = session[q].live
        <5>1. SessionShape(session[q])
          BY DEF Shape
        <5> QED
          BY <5>1, ShownShape
      <4> QED
        BY <4>1, <4>2
    <3>3. ASSUME NEW s, session' = [session EXCEPT ![p].spec = s], NEW q \in Session
          PROVE  session'[q].live = session[q].live
      BY <3>3 DEF Shape, SessionShape
    <3>4. op[p].store \in Files
      BY <1>3, BusyStore DEF Close, Shape
    <3> QED
      BY <1>3, <3>1, <3>2, <3>3, <3>4 DEF Close, Files
  <2>2. op' = [op EXCEPT ![p] = Idle]
    BY <1>3 DEF Close
  <2> QED
    BY <2>1, <2>2 DEF CallsLive, Live, Shape
<1>4. ASSUME NEW p \in Session, Fail(p) \/ Crash(p) PROVE CallsLive'
  BY <1>4 DEF Fail, Crash, CallsLive, Live, Shape
<1>5. ASSUME NEW p \in Session, Start(p) \/ NewTask(p) \/ Leave(p) PROVE CallsLive'
  <2>1. op[p] = Idle /\ UNCHANGED op
    BY <1>5 DEF Start, NewTask, Leave, CallsLive
  <2>2. \A q \in Session : q # p => session'[q] = session[q]
    BY <1>5 DEF Start, NewTask, Leave, Shape
  <2> QED
    BY <2>1, <2>2 DEF CallsLive, Live
<1>6. CASE UNCHANGED vars
  BY <1>6 DEF vars, CallsLive, Live
<1> QED
  BY <1>1, <1>2, <1>3, <1>4, <1>5, <1>6 DEF Next

LEMMA NextSpecs ==
  ASSUME Shape, Shape', CallsLive, SpecsInv, [Next]_vars
  PROVE  SpecsInv'
<1>1. ASSUME NEW p \in Session, Call(p) PROVE SpecsInv'
  <2>1. op[p] = Idle
    BY <1>1 DEF Call, TodosAdd, TodosSet, TodosClear, Remember, Learn, WriteSpec, MarkMet, Free
  <2>2. ASSUME NEW new, NEW act, NEW harmed, Todos(p, new, act, harmed) PROVE SpecsInv'
    BY <2>1, <2>2, OtherCall DEF Todos
  <2>3. CASE Remember(p)
    BY <2>1, <2>3, OtherCall DEF Remember
  <2>4. ASSUME NEW success \in BOOLEAN, Learn(p, success) PROVE SpecsInv'
    <3>1. \A q \in Session : session'[q].spec = session[q].spec
      BY <2>4 DEF Learn, Shape, SessionShape
    <3> DEFINE u == [n |-> session[p].table.n + 1,
                     wins |-> session[p].table.wins + (IF success THEN 1 ELSE 0)]
               o == [store |-> "table", stage |-> "ready", new |-> u]
    <3>2. Enter(p, o, FALSE) /\ UNCHANGED <<disk, approved>>
      BY <2>4 DEF Learn
    <3>3. o.store # "specs"
      OBVIOUS
    <3> HIDE DEF o
    <3> QED
      BY <2>1, <3>1, <3>2, <3>3, OtherCall
  <2>5. ASSUME NEW slug \in Slug, NEW r \in Readable, WriteSpec(p, slug, r) PROVE SpecsInv'
    BY <2>5, WriteSpecStep DEF Readable
  <2>6. ASSUME NEW c \in Criterion, MarkMet(p, c) PROVE SpecsInv'
    BY <2>6, MarkMetStep
  <2> QED
    BY <1>1, <2>2, <2>3, <2>4, <2>5, <2>6 DEF Call, TodosAdd, TodosSet, TodosClear
<1>2. ASSUME NEW p \in Session, Open(p) \/ Close(p) \/ Fail(p) \/ Crash(p) PROVE SpecsInv'
  BY <1>2, OpenStep, CloseStep, CutStep
<1>3. ASSUME NEW p \in Session, Start(p) \/ NewTask(p) \/ Leave(p) PROVE SpecsInv'
  <2>1. op[p] = Idle /\ UNCHANGED <<disk, op, calls, approved, hurt>>
    BY <1>3 DEF Start, NewTask, Leave, CallsLive
  <2>2. session'[p].spec = NoSpec /\ \A q \in Session : q # p => session'[q] = session[q]
    <3>1. CASE Start(p)
      BY <3>1 DEF Start, Shape
    <3>2. CASE NewTask(p)
      BY <3>2 DEF NewTask, Shape, SessionShape
    <3>3. CASE Leave(p)
      BY <3>3 DEF Leave, Shape, Gone
    <3> QED
      BY <1>3, <3>1, <3>2, <3>3
  <2>3. Idle.store # "specs"
    BY DEF Idle
  <2>4. calls <= calls'
    BY <2>1 DEF Shape
  <2> QED
    BY <2>1, <2>2, <2>3, <2>4, SpecsAside
<1>4. CASE UNCHANGED vars
  <2>1. calls <= calls'
    BY <1>4 DEF vars, Shape
  <2> QED
    BY <1>4, <2>1, SpecsAside DEF vars
<1> QED
  BY <1>1, <1>2, <1>3, <1>4 DEF Next

\* An approved spec keeps its file: no other proposal, of this task or of a
\* later one, is written over it, and no two have one number.
THEOREM ApprovedStay == Spec => []SpecsApart
<1>1. Init => Shape /\ CallsLive /\ SpecsInv
  <2> SUFFICES ASSUME Init PROVE CallsLive /\ SpecsInv
    BY InitShape
  <2>1. \A p \in Session : session[p] = Gone /\ op[p] = Idle
    BY DEF Init
  <2>2. \A p \in Session : ~OnSpecs(p) /\ ~HasSpec(p) /\ session[p].spec.id = 0
    BY <2>1 DEF OnSpecs, HasSpec, Gone, Idle, NoSpec
  <2>3. calls = 0 /\ approved = {} /\ DOMAIN disk.specs = {}
    BY DEF Init
  <2>4. Alone /\ Told /\ Kept
    BY <2>2, <2>3 DEF Alone, Told, Kept
  <2>5. Owned
    BY <2>2, <2>3 DEF Owned
  <2>6. Numbered
    BY <2>3, FS_EmptySet DEF Numbered
  <2> QED
    BY <2>1, <2>4, <2>5, <2>6 DEF CallsLive, SpecsInv
<1>2. Shape /\ CallsLive /\ SpecsInv /\ [Next]_vars => (Shape /\ CallsLive /\ SpecsInv)'
  BY NextShape, NextCallsLive, NextSpecs
<1>3. SpecsInv => SpecsApart
  BY DEF SpecsInv, SpecsApart, Quiet, Kept, OnSpecs
<1> QED
  BY <1>1, <1>2, <1>3, PTL DEF Spec

-----------------------------------------------------------------------------
(* The backlog, while its store has met no error, no cut write, no two     *)
(* writers and no number that was shown of another list: at most one call  *)
(* is about it, what that one is to write records the backlog as it shall  *)
(* be, and the numbers that a session was shown are those of the list.     *)

Entry == [content : Content, status : Status]

Records(items, bl) ==
  /\ items \in Seq(Entry) /\ bl \in [Content -> Status \cup {"absent"}]
  /\ \A i, j \in DOMAIN items : items[i].content = items[j].content => i = j
  /\ \A i \in DOMAIN items : bl[items[i].content] = items[i].status
  /\ \A c \in Content : bl[c] # "absent" => \E i \in DOMAIN items : items[i].content = c

OnTodos(p) == op[p].store = "todos"

Single   == \A p, q \in Session : OnTodos(p) /\ OnTodos(q) => p = q
Coming   == \A p \in Session : OnTodos(p) => Records(op[p].new, Noted(op[p].act))
Standing == (\A p \in Session : ~(OnTodos(p) /\ op[p].stage = "open")) => Records(disk.todos, backlog)
Current  == \A p \in Session : ~session[p].stale =>
              \A i \in DOMAIN session[p].shown \cap DOMAIN disk.todos :
                session[p].shown[i] = disk.todos[i].content

TodosInv == "todos" \notin hurt => Single /\ Coming /\ Standing /\ Current

\* An entry is what its fields say.
LEMMA EntryFields ==
  ASSUME NEW e \in Entry
  PROVE  /\ e.content \in Content /\ e.status \in Status
         /\ \A s \in Status : /\ [e EXCEPT !.status = s] \in Entry
                              /\ [e EXCEPT !.status = s].status = s
                              /\ [e EXCEPT !.status = s].content = e.content
BY DEF Entry

\* What is given a status anew, by its place, is where it was.
LEMMA SetRecords ==
  ASSUME NEW items, NEW bl, Records(items, bl), NEW i \in DOMAIN items, NEW s \in Status
  PROVE  Records(SetStatus(items, i, s), [c \in Content |-> IF c = items[i].content THEN s ELSE bl[c]])
<1> DEFINE new == SetStatus(items, i, s)
           nbl == [c \in Content |-> IF c = items[i].content THEN s ELSE bl[c]]
           e   == [items[i] EXCEPT !.status = s]
<1>1. /\ items \in Seq(Entry) /\ bl \in [Content -> Status \cup {"absent"}]
      /\ \A j, k \in DOMAIN items : items[j].content = items[k].content => j = k
      /\ \A j \in DOMAIN items : bl[items[j].content] = items[j].status
      /\ \A c \in Content : bl[c] # "absent" => \E j \in DOMAIN items : items[j].content = c
  BY DEF Records
<1>2. \A j \in DOMAIN items : items[j] \in Entry /\ items[j].content \in Content
  <2>1. \A j \in DOMAIN items : items[j] \in Entry
    BY <1>1
  <2> QED
    BY <2>1, EntryFields
<1>3. e \in Entry /\ e.status = s /\ e.content = items[i].content
  BY <1>2, EntryFields
<1>4. new = [items EXCEPT ![i] = e]
  BY DEF SetStatus
<1> HIDE DEF new, e
<1>5. new \in Seq(Entry) /\ DOMAIN new = DOMAIN items
  BY <1>1, <1>3, <1>4
<1>6. \A j \in DOMAIN items : new[j] = IF j = i THEN e ELSE items[j]
  BY <1>1, <1>4
<1>7. \A j \in DOMAIN items : new[j].content = items[j].content
  BY <1>3, <1>6
<1>8. nbl \in [Content -> Status \cup {"absent"}]
  BY <1>1
<1>9. \A j \in DOMAIN items : nbl[items[j].content] = new[j].status
  <2> SUFFICES ASSUME NEW j \in DOMAIN items PROVE nbl[items[j].content] = new[j].status
    OBVIOUS
  <2>1. CASE j = i
    BY <1>2, <1>3, <1>6, <2>1
  <2>2. CASE j # i
    BY <1>1, <1>2, <1>6, <2>2
  <2> QED
    BY <2>1, <2>2
<1>10. \A c \in Content : nbl[c] # "absent" => \E j \in DOMAIN items : items[j].content = c
  BY <1>1
<1> HIDE DEF nbl
<1>11. Records(new, nbl)
  <2>1. \A j, k \in DOMAIN new : new[j].content = new[k].content => j = k
    BY <1>1, <1>5, <1>7
  <2>2. \A j \in DOMAIN new : nbl[new[j].content] = new[j].status
    BY <1>5, <1>7, <1>9
  <2>3. \A c \in Content : nbl[c] # "absent" => \E j \in DOMAIN new : new[j].content = c
    BY <1>5, <1>7, <1>10
  <2> QED
    BY <1>5, <1>8, <2>1, <2>2, <2>3 DEF Records
<1> QED
  BY <1>11 DEF new, nbl

\* What is added is there once.
LEMMA AddRecords ==
  ASSUME NEW items, NEW bl, Records(items, bl), NEW c \in Content, NEW s \in Status
  PROVE  Records(Add(items, c, s), [d \in Content |-> IF d = c THEN s ELSE bl[d]])
<1>1. /\ items \in Seq(Entry) /\ bl \in [Content -> Status \cup {"absent"}]
      /\ \A j, k \in DOMAIN items : items[j].content = items[k].content => j = k
      /\ \A j \in DOMAIN items : bl[items[j].content] = items[j].status
      /\ \A d \in Content : bl[d] # "absent" => \E j \in DOMAIN items : items[j].content = d
  BY DEF Records
<1>2. CASE \E i \in DOMAIN items : items[i].content = c
  <2>1. PICK i \in DOMAIN items : items[i].content = c
    BY <1>2
  <2>2. {j \in DOMAIN items : items[j].content = c} = {i}
    BY <1>1, <2>1
  <2>3. Min({i}) = i
    <3>1. i \in Nat
      BY <1>1
    <3> QED
      BY <3>1 DEF Min
  <2>4. Add(items, c, s) = SetStatus(items, i, s)
    BY <1>2, <2>2, <2>3 DEF Add, SetStatus
  <2> QED
    BY <2>1, <2>4, SetRecords
<1>3. CASE ~\E i \in DOMAIN items : items[i].content = c
  <2> DEFINE new == Append(items, Item(c, s))
             nbl == [d \in Content |-> IF d = c THEN s ELSE bl[d]]
  <2>1. Add(items, c, s) = new
    BY <1>3 DEF Add
  <2>2. Item(c, s) \in Entry /\ Item(c, s).content = c /\ Item(c, s).status = s
    BY DEF Item, Entry
  <2>3. /\ new \in Seq(Entry) /\ DOMAIN items = 1..Len(items) /\ DOMAIN new = 1..(Len(items) + 1)
        /\ Len(items) \in Nat /\ new[Len(items) + 1] = Item(c, s)
        /\ \A j \in DOMAIN items : new[j] = items[j]
    BY <1>1, <2>2
  <2> HIDE DEF new
  <2>4. \A j \in DOMAIN new : j \in DOMAIN items \/ j = Len(items) + 1
    BY <2>3
  <2>5. \A j \in DOMAIN items : items[j].content \in Content /\ items[j].content # c
    <3>1. \A j \in DOMAIN items : items[j] \in Entry
      BY <1>1
    <3> QED
      BY <1>3, <3>1, EntryFields
  <2>6. new[Len(items) + 1].content = c /\ new[Len(items) + 1].status = s
    BY <2>2, <2>3
  <2>7. \A j, k \in DOMAIN new : new[j].content = new[k].content => j = k
    BY <1>1, <2>3, <2>4, <2>5, <2>6
  <2>8. \A j \in DOMAIN new : nbl[new[j].content] = new[j].status
    <3> SUFFICES ASSUME NEW j \in DOMAIN new PROVE nbl[new[j].content] = new[j].status
      OBVIOUS
    <3>1. CASE j \in DOMAIN items
      BY <1>1, <2>3, <2>5, <3>1
    <3>2. CASE j = Len(items) + 1
      BY <2>6, <3>2
    <3> QED
      BY <2>4, <3>1, <3>2
  <2>9. \A d \in Content : nbl[d] # "absent" => \E j \in DOMAIN new : new[j].content = d
    <3> SUFFICES ASSUME NEW d \in Content, nbl[d] # "absent"
                 PROVE  \E j \in DOMAIN new : new[j].content = d
      OBVIOUS
    <3>1. CASE d = c
      <4>1. Len(items) + 1 \in DOMAIN new
        BY <2>3
      <4> QED
        BY <2>6, <3>1, <4>1
    <3>2. CASE d # c
      <4>1. PICK j \in DOMAIN items : items[j].content = d
        BY <1>1, <3>2
      <4>2. j \in DOMAIN new /\ new[j].content = d
        BY <2>3, <4>1
      <4> QED
        BY <4>2
    <3> QED
      BY <3>1, <3>2
  <2>10. nbl \in [Content -> Status \cup {"absent"}]
    BY <1>1
  <2> HIDE DEF nbl
  <2>11. Records(new, nbl)
    BY <2>3, <2>7, <2>8, <2>9, <2>10 DEF Records
  <2> QED
    BY <2>1, <2>11 DEF nbl
<1> QED
  BY <1>2, <1>3

LEMMA NatInd ==
  ASSUME NEW A, 0 \in A, \A k \in Nat : k \in A => k + 1 \in A
  PROVE  Nat \subseteq A
<1> SUFFICES ASSUME Nat \ A # {} PROVE FALSE
  OBVIOUS
<1> DEFINE R == OpToRel(<, Nat)
<1>1. IsWellFoundedOn(R, Nat)
  BY NatLessThanWellFounded
<1>2. PICK m \in Nat \ A : \A y \in Nat \ A : ~(<<y, m>> \in R)
  <2> HIDE DEF R
  <2>1. Nat \ A \in SUBSET Nat
    OBVIOUS
  <2> QED
    BY <1>1, <2>1, WFMin
<1>3. \A y \in Nat \ A : ~(y < m)
  BY <1>2 DEF OpToRel
<1> HIDE DEF R
<1>4. m \in Nat /\ m \notin A /\ m # 0 /\ m - 1 \in Nat
  OBVIOUS
<1>5. m - 1 \in A
  BY <1>3, <1>4
<1>6. (m - 1) + 1 \in A
  BY <1>4, <1>5
<1> QED
  BY <1>4, <1>6

\* What is kept of the items are those that are not done, each once.
LEMMA KeptItems ==
  ASSUME NEW items \in Seq(Entry),
         \A i, j \in DOMAIN items : items[i].content = items[j].content => i = j
  PROVE  /\ ClearDone(items) \in Seq(Entry)
         /\ \A i, j \in DOMAIN ClearDone(items) :
              ClearDone(items)[i].content = ClearDone(items)[j].content => i = j
         /\ Range(ClearDone(items)) = {items[i] : i \in {j \in DOMAIN items : Outstanding(items[j])}}
<1> DEFINE Body(f, n) == IF n = 0 THEN <<>>
                         ELSE IF Outstanding(items[n]) THEN Append(f[n - 1], items[n]) ELSE f[n - 1]
           A == {k \in Nat : \E f : f = [n \in 0..k |-> Body(f, n)]}
<1>1. Len(items) \in Nat /\ DOMAIN items = 1..Len(items) /\ \A n \in 1..Len(items) : items[n] \in Entry
  OBVIOUS
<1>2. Nat \subseteq A
  <2>1. 0 \in A
    <3> DEFINE f == [n \in 0..0 |-> <<>>]
    <3>1. f = [n \in 0..0 |-> Body(f, n)]
      OBVIOUS
    <3> HIDE DEF f, Body
    <3> QED
      BY <3>1
  <2>2. ASSUME NEW k \in Nat, k \in A PROVE k + 1 \in A
    <3>1. PICK f : f = [n \in 0..k |-> Body(f, n)]
      BY <2>2
    <3> DEFINE g == [n \in 0..(k + 1) |-> IF n = k + 1 THEN Body(f, n) ELSE f[n]]
    <3>2. ASSUME NEW n \in 0..(k + 1) PROVE g[n] = Body(g, n)
      <4>1. n = 0 \/ (n - 1 \in 0..k /\ g[n - 1] = f[n - 1])
        OBVIOUS
      <4>2. Body(g, n) = Body(f, n)
        BY <4>1
      <4>3. CASE n = k + 1
        BY <4>2, <4>3
      <4>4. CASE n # k + 1
        <5>1. n \in 0..k /\ g[n] = f[n]
          BY <4>4
        <5>2. f[n] = Body(f, n)
          BY <3>1, <5>1
        <5> HIDE DEF Body, g
        <5> QED
          BY <4>2, <5>1, <5>2
      <4> QED
        BY <4>3, <4>4
    <3>3. g = [n \in 0..(k + 1) |-> Body(g, n)]
      <4> HIDE DEF Body
      <4>1. g = [n \in 0..(k + 1) |-> g[n]]
        OBVIOUS
      <4> HIDE DEF g
      <4> QED
        BY <3>2, <4>1
    <3> HIDE DEF g, Body
    <3> QED
      BY <3>3
  <2> HIDE DEF A
  <2> QED
    BY <2>1, <2>2, NatInd
<1>3. PICK f : f = [n \in 0..Len(items) |-> Body(f, n)] /\ ClearDone(items) = f[Len(items)]
  <2> DEFINE kept == CHOOSE kept : kept = [n \in 0..Len(items) |-> Body(kept, n)]
  <2>1. \E f : f = [n \in 0..Len(items) |-> Body(f, n)]
    BY <1>1, <1>2
  <2>2. kept = [n \in 0..Len(items) |-> Body(kept, n)]
    BY <2>1
  <2>3. ClearDone(items) = kept[Len(items)]
    BY DEF ClearDone
  <2> QED
    BY <2>2, <2>3
<1> DEFINE Of(k) == {items[i] : i \in {j \in 1..k : Outstanding(items[j])}}
           Good(s, k) == /\ s \in Seq(Entry) /\ Range(s) = Of(k)
                         /\ \A i, j \in DOMAIN s : s[i].content = s[j].content => i = j
           B == {k \in Nat : k <= Len(items) => Good(f[k], k)}
<1>4. 0 \in B
  <2>1. f[0] = <<>>
    BY <1>1, <1>3
  <2>2. <<>> \in Seq(Entry) /\ DOMAIN <<>> = {} /\ Range(<<>>) = {}
    BY DEF Range
  <2>3. Of(0) = {}
    OBVIOUS
  <2> HIDE DEF Of
  <2> QED
    BY <2>1, <2>2, <2>3
<1>5. ASSUME NEW k \in Nat, k \in B PROVE k + 1 \in B
  <2> SUFFICES ASSUME k + 1 <= Len(items) PROVE Good(f[k + 1], k + 1)
    OBVIOUS
  <2>1. k <= Len(items) /\ k + 1 \in 0..Len(items) /\ k + 1 # 0 /\ (k + 1) - 1 = k
    BY <1>1
  <2>2. Good(f[k], k)
    BY <1>5, <2>1
  <2>3. f[k + 1] = IF Outstanding(items[k + 1]) THEN Append(f[k], items[k + 1]) ELSE f[k]
    BY <1>3, <2>1
  <2> DEFINE s == f[k]
             e == items[k + 1]
  <2>4. CASE ~Outstanding(e)
    <3>1. Of(k + 1) = Of(k)
      BY <2>4
    <3> HIDE DEF Of
    <3> QED
      BY <2>2, <2>3, <2>4, <3>1
  <2>5. CASE Outstanding(e)
    <3>1. Of(k + 1) = Of(k) \cup {e}
      BY <2>5
    <3>2. \A x \in Of(k) : x.content # e.content
      BY <1>1, <2>1
    <3> HIDE DEF Of
    <3>3. e \in Entry
      BY <1>1, <2>1
    <3>4. s \in Seq(Entry) /\ Range(s) = Of(k) /\ \A i, j \in DOMAIN s : s[i].content = s[j].content => i = j
      BY <2>2
    <3> HIDE DEF s, e
    <3> DEFINE t == Append(s, e)
    <3>5. /\ t \in Seq(Entry) /\ DOMAIN s = 1..Len(s) /\ DOMAIN t = 1..(Len(s) + 1)
          /\ Len(s) \in Nat /\ t[Len(s) + 1] = e /\ \A j \in DOMAIN s : t[j] = s[j]
      BY <3>3, <3>4
    <3> HIDE DEF t
    <3>6. \A j \in DOMAIN t : j \in DOMAIN s \/ j = Len(s) + 1
      BY <3>5
    <3>7. Range(t) = Range(s) \cup {e}
      BY <3>5, <3>6 DEF Range
    <3>8. \A j \in DOMAIN s : s[j].content # e.content
      BY <3>2, <3>4 DEF Range
    <3>9. \A i, j \in DOMAIN t : t[i].content = t[j].content => i = j
      BY <3>4, <3>5, <3>6, <3>8
    <3>10. Good(t, k + 1)
      BY <3>1, <3>4, <3>5, <3>7, <3>9
    <3> QED
      BY <2>3, <2>5, <3>10 DEF s, e, t
  <2> QED
    BY <2>4, <2>5
<1>6. Len(items) \in B
  <2>1. Nat \subseteq B
    <3> HIDE DEF B
    <3> QED
      BY <1>4, <1>5, NatInd
  <2> QED
    BY <1>1, <2>1
<1>7. Good(ClearDone(items), Len(items))
  BY <1>1, <1>3, <1>6
<1> QED
  BY <1>1, <1>7

\* Clearing drops what is done and nothing else.
LEMMA ClearRecords ==
  ASSUME NEW items, NEW bl, Records(items, bl)
  PROVE  Records(ClearDone(items), [c \in Content |-> IF bl[c] = "done" THEN "absent" ELSE bl[c]])
<1> DEFINE new == ClearDone(items)
           nbl == [c \in Content |-> IF bl[c] = "done" THEN "absent" ELSE bl[c]]
<1>1. /\ items \in Seq(Entry) /\ bl \in [Content -> Status \cup {"absent"}]
      /\ \A j, k \in DOMAIN items : items[j].content = items[k].content => j = k
      /\ \A j \in DOMAIN items : bl[items[j].content] = items[j].status
      /\ \A d \in Content : bl[d] # "absent" => \E j \in DOMAIN items : items[j].content = d
  BY DEF Records
<1>2. \A j \in DOMAIN items : items[j] \in Entry /\ items[j].content \in Content /\ items[j].status \in Status
  <2>1. \A j \in DOMAIN items : items[j] \in Entry
    BY <1>1
  <2> QED
    BY <2>1, EntryFields
<1>3. /\ new \in Seq(Entry)
      /\ \A i, j \in DOMAIN new : new[i].content = new[j].content => i = j
      /\ Range(new) = {items[i] : i \in {j \in DOMAIN items : Outstanding(items[j])}}
  BY <1>1, KeptItems
<1> HIDE DEF new
<1>4. \A i \in DOMAIN new : \E j \in DOMAIN items : new[i] = items[j] /\ items[j].status # "done"
  BY <1>3 DEF Range, Outstanding
<1>5. \A j \in DOMAIN items : items[j].status # "done" => \E i \in DOMAIN new : new[i] = items[j]
  BY <1>3 DEF Range, Outstanding
<1>6. nbl \in [Content -> Status \cup {"absent"}]
  BY <1>1
<1>7. \A i \in DOMAIN new : nbl[new[i].content] = new[i].status
  BY <1>1, <1>2, <1>4
<1>8. \A c \in Content : nbl[c] # "absent" => \E i \in DOMAIN new : new[i].content = c
  <2> SUFFICES ASSUME NEW c \in Content, nbl[c] # "absent"
               PROVE  \E i \in DOMAIN new : new[i].content = c
    OBVIOUS
  <2>1. bl[c] # "absent" /\ bl[c] # "done"
    OBVIOUS
  <2>2. PICK j \in DOMAIN items : items[j].content = c
    BY <1>1, <2>1
  <2>3. items[j].status # "done"
    BY <1>1, <2>1, <2>2
  <2> QED
    BY <1>5, <2>2, <2>3
<1> HIDE DEF nbl
<1>9. Records(new, nbl)
  BY <1>3, <1>6, <1>7, <1>8 DEF Records
<1> QED
  BY <1>9 DEF new, nbl

\* What a session was shown, where nothing but its spec or its table changes.
LEMMA SpecAside ==
  ASSUME Shape, NEW p \in Session, NEW x,
         \/ session' = [session EXCEPT ![p].spec = x]
         \/ session' = [session EXCEPT ![p].table = x]
  PROVE  \A q \in Session : session'[q].shown = session[q].shown /\ session'[q].stale = session[q].stale
<1>1. CASE session' = [session EXCEPT ![p].spec = x]
  BY <1>1 DEF Shape, SessionShape
<1>2. CASE session' = [session EXCEPT ![p].table = x]
  BY <1>2 DEF Shape, SessionShape
<1> QED
  BY <1>1, <1>2

\* What the close of a call about the backlog leaves a session with.
LEMMA ShownStale ==
  ASSUME NEW s, SessionShape(s), NEW shown
  PROVE  /\ [s EXCEPT !.shown = shown, !.stale = FALSE].shown = shown
         /\ [s EXCEPT !.stale = TRUE].stale
<1> DEFINE a == [s EXCEPT !.shown = shown]
<1>1. a = [live |-> s.live, shown |-> shown, stale |-> s.stale, spec |-> s.spec, table |-> s.table]
  BY DEF SessionShape
<1>2. [s EXCEPT !.shown = shown, !.stale = FALSE] = [a EXCEPT !.stale = FALSE]
  OBVIOUS
<1> HIDE DEF a
<1>3. [a EXCEPT !.stale = FALSE].shown = shown
  BY <1>1
<1>4. [s EXCEPT !.stale = TRUE].stale
  BY DEF SessionShape
<1> QED
  BY <1>2, <1>3, <1>4

\* The two sides of Noted.
LEMMA NotedIs ==
  ASSUME NEW act
  PROVE  /\ act.to = "absent" =>
              Noted(act) = [c \in Content |-> IF backlog[c] = "done" THEN "absent" ELSE backlog[c]]
         /\ act.to # "absent" =>
              Noted(act) = [c \in Content |-> IF c = act.of THEN act.to ELSE backlog[c]]
BY DEF Noted

\* What changes neither the list nor what is to be of it, and starts no call
\* about it, keeps the invariant.
LEMMA TodosAside ==
  ASSUME TodosInv, UNCHANGED <<disk.todos, backlog>>, hurt \subseteq hurt', Current => Current',
         \A q \in Session :
           /\ op'[q].store = "todos" => op'[q] = op[q]
           /\ op[q].store = "todos" /\ op[q].stage = "open" => op'[q] = op[q]
  PROVE  TodosInv'
<1> SUFFICES ASSUME "todos" \notin hurt' PROVE (Single /\ Coming /\ Standing /\ Current)'
  BY DEF TodosInv
<1>1. Single /\ Coming /\ Standing /\ Current
  BY DEF TodosInv
<1>2. \A q \in Session : OnTodos(q)' => OnTodos(q) /\ op'[q] = op[q]
  BY DEF OnTodos
<1>3. Single'
  BY <1>1, <1>2 DEF Single
<1>4. Coming'
  <2>1. \A act : Noted(act)' = Noted(act)
    BY DEF Noted
  <2> QED
    BY <1>1, <1>2, <2>1 DEF Coming
<1>5. Standing'
  <2> SUFFICES ASSUME \A q \in Session : ~(OnTodos(q)' /\ op'[q].stage = "open")
               PROVE  Records(disk.todos, backlog)
    BY DEF Standing
  <2>1. \A q \in Session : ~(OnTodos(q) /\ op[q].stage = "open")
    BY DEF OnTodos
  <2> QED
    BY <1>1, <2>1 DEF Standing
<1> QED
  BY <1>1, <1>3, <1>4, <1>5

\* The numbers stand while neither the list nor what was shown changes.
LEMMA SameShown ==
  ASSUME UNCHANGED disk.todos,
         \A q \in Session : session'[q].shown = session[q].shown /\ session'[q].stale = session[q].stale
  PROVE  Current => Current'
BY DEF Current

\* A call of another store is aside.
LEMMA OtherStore ==
  ASSUME Shape, TodosInv, NEW p \in Session, op[p] = Idle, NEW o, NEW harmed,
         Enter(p, o, harmed), o.store # "todos", UNCHANGED <<disk, backlog>>,
         \A q \in Session : session'[q].shown = session[q].shown /\ session'[q].stale = session[q].stale
  PROVE  TodosInv'
<1>1. op' = [op EXCEPT ![p] = o] /\ hurt \subseteq hurt'
  BY DEF Enter
<1>2. Idle.store # "todos"
  BY DEF Idle
<1>3. \A q \in Session : op'[q] = IF q = p THEN o ELSE op[q]
  BY <1>1 DEF Shape
<1>4. Current => Current'
  BY SameShown
<1> QED
  BY <1>1, <1>2, <1>3, <1>4, TodosAside

\* A call about the backlog that leaves its store unhurt is the only one, and
\* the list stands as it is recorded.
LEMMA TodosStep ==
  ASSUME Shape, TodosInv, NEW p \in Session, op[p] = Idle,
         NEW new, NEW act, NEW harmed \in BOOLEAN, Todos(p, new, act, harmed),
         Records(disk.todos, backlog) /\ Current /\ ~harmed => Records(new, Noted(act))
  PROVE  TodosInv'
<1> DEFINE o == [store |-> "todos", stage |-> "ready", new |-> new, act |-> act]
<1> SUFFICES ASSUME "todos" \notin hurt' PROVE (Single /\ Coming /\ Standing /\ Current)'
  BY DEF TodosInv
<1>1. /\ Enter(p, o, harmed) /\ UNCHANGED <<disk, session, backlog>>
      /\ o.store = "todos" /\ o.stage = "ready" /\ o.new = new /\ o.act = act
  BY DEF Todos
<1> HIDE DEF o
<1>2. /\ op' = [op EXCEPT ![p] = o]
      /\ hurt' = hurt \cup (IF harmed \/ \E q \in Session \ {p} : op[q].store = "todos"
                              THEN {"todos"} ELSE {})
  BY <1>1 DEF Enter
<1>3. ~harmed /\ (\A q \in Session \ {p} : op[q].store # "todos") /\ "todos" \notin hurt
  BY <1>2
<1>4. \A q \in Session : ~OnTodos(q)
  BY <1>3 DEF OnTodos, Idle
<1>5. Single /\ Coming /\ Standing /\ Current /\ Records(disk.todos, backlog)
  BY <1>3, <1>4 DEF TodosInv, Standing
<1>6. op'[p] = o /\ \A q \in Session : q # p => ~OnTodos(q)'
  BY <1>2, <1>3 DEF OnTodos, Shape
<1>7. Single'
  BY <1>6 DEF Single
<1>8. Noted(act)' = Noted(act)
  BY <1>1 DEF Noted
<1>9. Coming'
  BY <1>1, <1>3, <1>5, <1>6, <1>8 DEF Coming
<1>10. Standing' /\ Current'
  BY <1>1, <1>5 DEF Standing, Current
<1> QED
  BY <1>7, <1>9, <1>10

LEMMA TodosCalls ==
  ASSUME Shape, TodosInv, NEW p \in Session,
         \/ \E c \in Content, s \in Status, r \in Readable : TodosAdd(p, c, s, r)
         \/ \E i \in DOMAIN session[p].shown, s \in Status, r \in Readable : TodosSet(p, i, s, r)
         \/ \E r \in Readable : TodosClear(p, r)
  PROVE  TodosInv'
<1>1. \A r \in Readable : r \in BOOLEAN
  BY DEF Readable
<1>2. \A s \in Status : s # "absent"
  BY DEF Status
<1>3. ASSUME NEW c \in Content, NEW s \in Status, NEW r \in Readable, TodosAdd(p, c, s, r)
      PROVE  TodosInv'
  <2> DEFINE new == Add(Load(disk.todos, r), c, s)
             act == [of |-> c, to |-> s]
             bad == ~r
  <2>1. op[p] = Idle /\ Todos(p, new, act, bad) /\ bad \in BOOLEAN
    BY <1>1, <1>3 DEF TodosAdd, Free
  <2>2. ASSUME Records(disk.todos, backlog), ~bad PROVE Records(new, Noted(act))
    <3>1. Load(disk.todos, r) = disk.todos
      BY <1>1, <2>2 DEF Load
    <3>2. Noted(act) = [d \in Content |-> IF d = c THEN s ELSE backlog[d]]
      BY <1>2, NotedIs
    <3> QED
      BY <2>2, <3>1, <3>2, AddRecords
  <2> HIDE DEF new, act, bad
  <2> QED
    BY <2>1, <2>2, TodosStep
<1>4. ASSUME NEW i \in DOMAIN session[p].shown, NEW s \in Status, NEW r \in Readable,
             TodosSet(p, i, s, r)
      PROVE  TodosInv'
  <2> DEFINE items == Load(disk.todos, r)
             new == SetStatus(items, i, s)
             act == [of |-> session[p].shown[i], to |-> s]
  <2>1. i \in DOMAIN items /\ op[p] = Idle
    BY <1>4 DEF TodosSet, Free
  <2>2. PICK bad \in BOOLEAN : Todos(p, new, act, bad) /\ (bad <=> ~r \/ session[p].stale)
    <3>1. Todos(p, new, act, ~r \/ session[p].stale)
      BY <1>4 DEF TodosSet
    <3> HIDE DEF new, act
    <3> QED
      BY <3>1
  <2>3. ASSUME Records(disk.todos, backlog), Current, ~bad PROVE Records(new, Noted(act))
    <3>1. items = disk.todos /\ ~session[p].stale
      BY <1>1, <2>2, <2>3 DEF Load
    <3>2. session[p].shown[i] = disk.todos[i].content
      BY <2>1, <2>3, <3>1 DEF Current
    <3>3. Noted(act) = [d \in Content |-> IF d = disk.todos[i].content THEN s ELSE backlog[d]]
      BY <1>2, <3>2, NotedIs
    <3> QED
      BY <2>1, <2>3, <3>1, <3>3, SetRecords
  <2> HIDE DEF new, act
  <2> QED
    BY <2>1, <2>2, <2>3, TodosStep
<1>5. ASSUME NEW r \in Readable, TodosClear(p, r)
      PROVE  TodosInv'
  <2> DEFINE new == ClearDone(Load(disk.todos, r))
             act == [of |-> "done", to |-> "absent"]
             bad == ~r
  <2>1. op[p] = Idle /\ Todos(p, new, act, bad) /\ bad \in BOOLEAN
    BY <1>1, <1>5 DEF TodosClear, Free
  <2>2. ASSUME Records(disk.todos, backlog), ~bad PROVE Records(new, Noted(act))
    <3>1. Load(disk.todos, r) = disk.todos
      BY <1>1, <2>2 DEF Load
    <3>2. Noted(act) = [c \in Content |-> IF backlog[c] = "done" THEN "absent" ELSE backlog[c]]
      BY NotedIs
    <3> QED
      BY <2>2, <3>1, <3>2, ClearRecords
  <2> HIDE DEF new, act, bad
  <2> QED
    BY <2>1, <2>2, TodosStep
<1> QED
  BY <1>3, <1>4, <1>5

LEMMA TodosOpen ==
  ASSUME Shape, TodosInv, NEW p \in Session, Open(p)
  PROVE  TodosInv'
<1>1. /\ op[p] # Idle /\ op[p].stage = "ready" /\ disk' = Put(op[p], Emptied(op[p]))
      /\ op' = [op EXCEPT ![p].stage = "open"] /\ UNCHANGED <<session, backlog, hurt>>
  BY DEF Open
<1>2. op[p].store \in Files /\ OpShape(op[p])
  BY <1>1, BusyStore DEF Shape
<1>3. disk'.todos = IF op[p].store = "todos" THEN Emptied(op[p]) ELSE disk.todos
  BY <1>1, <1>2, PutFields DEF Shape
<1>4. \A q \in Session : q # p => op'[q] = op[q]
  BY <1>1 DEF Shape
<1>5. op'[p].store = op[p].store /\ op'[p].stage = "open"
  BY <1>1, <1>2 DEF OpShape, Shape
<1>6. CASE op[p].store # "todos"
  <2>1. Current => Current'
    BY <1>1, <1>3, <1>6, SameShown
  <2> QED
    BY <1>1, <1>3, <1>4, <1>5, <1>6, <2>1, TodosAside
<1>7. CASE op[p].store = "todos"
  <2> SUFFICES ASSUME "todos" \notin hurt' PROVE (Single /\ Coming /\ Standing /\ Current)'
    BY DEF TodosInv
  <2>1. Single /\ Coming /\ Standing /\ Current
    BY <1>1 DEF TodosInv
  <2>2. \A q \in Session : OnTodos(q)' <=> OnTodos(q)
    BY <1>4, <1>5 DEF OnTodos
  <2>3. op'[p].new = op[p].new /\ op'[p].act = op[p].act
    BY <1>1, <1>2, <1>7 DEF OpShape, Shape
  <2>4. \A act : Noted(act)' = Noted(act)
    BY <1>1 DEF Noted
  <2>5. Single'
    BY <2>1, <2>2 DEF Single
  <2>6. Coming'
    BY <1>4, <2>1, <2>2, <2>3, <2>4 DEF Coming
  <2>7. Standing'
    BY <1>5, <1>7 DEF Standing, OnTodos
  <2>8. disk'.todos = <<>>
    BY <1>3, <1>7 DEF Emptied
  <2>9. Current'
    BY <2>8 DEF Current
  <2> QED
    BY <2>5, <2>6, <2>7, <2>9
<1> QED
  BY <1>6, <1>7

LEMMA TodosClose ==
  ASSUME Shape, TodosInv, NEW p \in Session, Close(p)
  PROVE  TodosInv'
<1>1. /\ op[p] # Idle /\ op[p].stage = "open" /\ disk' = Put(op[p], Written(op[p]))
      /\ op' = [op EXCEPT ![p] = Idle] /\ UNCHANGED hurt
  BY DEF Close
<1>2. op[p].store \in Files /\ OpShape(op[p]) /\ Idle.store # "todos"
  BY <1>1, BusyStore DEF Shape, Idle
<1>3. disk'.todos = IF op[p].store = "todos" THEN Written(op[p]) ELSE disk.todos
  BY <1>1, <1>2, PutFields DEF Shape
<1>4. op'[p] = Idle /\ \A q \in Session : q # p => op'[q] = op[q]
  BY <1>1 DEF Shape
<1>5. CASE op[p].store # "todos"
  <2>1. UNCHANGED backlog
    BY <1>2, <1>5 DEF Close, Files
  <2>2. \A q \in Session : session'[q].shown = session[q].shown /\ session'[q].stale = session[q].stale
    <3>1. CASE UNCHANGED session
      BY <3>1
    <3>2. ASSUME NEW s, session' = [session EXCEPT ![p].spec = s]
          PROVE  \A q \in Session : session'[q].shown = session[q].shown
                                    /\ session'[q].stale = session[q].stale
      BY <3>2, SpecAside
    <3> QED
      BY <1>2, <1>5, <3>1, <3>2 DEF Close, Files
  <2>3. Current => Current'
    BY <1>3, <1>5, <2>2, SameShown
  <2> QED
    BY <1>1, <1>2, <1>3, <1>4, <1>5, <2>1, <2>3, TodosAside
<1>6. CASE op[p].store = "todos"
  <2> SUFFICES ASSUME "todos" \notin hurt' PROVE (Single /\ Coming /\ Standing /\ Current)'
    BY DEF TodosInv
  <2>1. Single /\ Coming /\ Standing /\ Current
    BY <1>1 DEF TodosInv
  <2>2. session' = Shows(p, op[p].new) /\ backlog' = Noted(op[p].act)
    BY <1>6 DEF Close
  <2>3. disk'.todos = op[p].new
    BY <1>3, <1>6 DEF Written
  <2>4. \A q \in Session : ~OnTodos(q)'
    BY <1>2, <1>4, <1>6, <2>1 DEF Single, OnTodos
  <2>5. Records(op[p].new, Noted(op[p].act))
    BY <1>6, <2>1 DEF Coming, OnTodos
  <2>6. Standing'
    BY <2>2, <2>3, <2>5 DEF Standing
  <2>7. Single' /\ Coming'
    BY <2>4 DEF Single, Coming
  <2>8. Current'
    <3> SUFFICES ASSUME NEW q \in Session, ~session'[q].stale,
                        NEW i \in DOMAIN session'[q].shown \cap DOMAIN disk'.todos
                 PROVE  session'[q].shown[i] = disk'.todos[i].content
      BY DEF Current
    <3>1. session'[q] = IF q = p THEN [session[q] EXCEPT !.shown = Display(op[p].new), !.stale = FALSE]
                        ELSE [session[q] EXCEPT !.stale = TRUE]
      BY <2>2 DEF Shows
    <3>2. SessionShape(session[q])
      BY DEF Shape
    <3>3. q = p
      BY <3>1, <3>2, ShownStale
    <3>4. session'[q].shown = Display(op[p].new)
      BY <3>1, <3>2, <3>3, ShownStale
    <3> QED
      BY <2>3, <3>4 DEF Display
  <2> QED
    BY <2>6, <2>7, <2>8
<1> QED
  BY <1>5, <1>6

\* What is cut short once the file is open hurts the store.
LEMMA TodosCut ==
  ASSUME Shape, TodosInv, NEW p \in Session, Fail(p) \/ Crash(p)
  PROVE  TodosInv'
<1>1. /\ op[p] # Idle /\ op' = [op EXCEPT ![p] = Idle] /\ UNCHANGED backlog
      /\ IF op[p].stage = "ready" THEN UNCHANGED <<disk, hurt>>
         ELSE /\ \E content \in Torn(op[p]) : disk' = Put(op[p], content)
              /\ hurt' = hurt \cup {op[p].store}
  BY DEF Fail, Crash
<1>2. session' = session \/ session' = [session EXCEPT ![p] = Gone]
  BY DEF Fail, Crash
<1>3. op[p].store \in Files /\ op[p].stage \in Stages /\ Idle.store # "todos"
  BY <1>1, BusyStore DEF Shape, Idle
<1>4. op'[p] = Idle /\ \A q \in Session : q # p => op'[q] = op[q]
  BY <1>1 DEF Shape
<1>5. CASE op[p].stage = "open" /\ op[p].store = "todos"
  BY <1>1, <1>5 DEF TodosInv
<1>6. CASE ~(op[p].stage = "open" /\ op[p].store = "todos")
  <2>1. UNCHANGED disk.todos /\ hurt \subseteq hurt'
    <3>1. CASE op[p].stage = "ready"
      BY <1>1, <3>1
    <3>2. CASE op[p].stage = "open"
      BY <1>1, <1>3, <1>6, <3>2, PutFields DEF Shape
    <3> QED
      BY <1>3, <3>1, <3>2 DEF Stages
  <2>2. Current => Current'
    <3>1. Gone.shown = <<>>
      BY DEF Gone
    <3>2. \A q \in Session : session'[q] = session[q] \/ session'[q].shown = <<>>
      BY <1>2, <3>1 DEF Shape
    <3> QED
      BY <2>1, <3>2 DEF Current
  <2> QED
    BY <1>1, <1>3, <1>4, <1>6, <2>1, <2>2, TodosAside
<1> QED
  BY <1>5, <1>6

LEMMA NextTodos == ASSUME Shape, TodosInv, [Next]_vars PROVE TodosInv'
<1>1. ASSUME NEW p \in Session, Call(p) PROVE TodosInv'
  <2>1. op[p] = Idle
    BY <1>1 DEF Call, TodosAdd, TodosSet, TodosClear, Remember, Learn, WriteSpec, MarkMet, Free
  <2>2. CASE Remember(p)
    BY <2>1, <2>2, OtherStore DEF Remember
  <2>3. ASSUME NEW success \in BOOLEAN, Learn(p, success) PROVE TodosInv'
    <3> DEFINE u == [n |-> session[p].table.n + 1,
                     wins |-> session[p].table.wins + (IF success THEN 1 ELSE 0)]
               o == [store |-> "table", stage |-> "ready", new |-> u]
    <3>1. Enter(p, o, FALSE) /\ UNCHANGED <<disk, backlog>> /\ session' = [session EXCEPT ![p].table = u]
      BY <2>3 DEF Learn
    <3>2. o.store # "todos"
      OBVIOUS
    <3> HIDE DEF o, u
    <3>3. \A q \in Session : session'[q].shown = session[q].shown /\ session'[q].stale = session[q].stale
      BY <3>1, SpecAside
    <3> QED
      BY <2>1, <3>1, <3>2, <3>3, OtherStore
  <2>4. ASSUME NEW slug \in Slug, NEW r \in Readable, WriteSpec(p, slug, r) PROVE TodosInv'
    <3> DEFINE at == IF Amends(p) THEN <<session[p].spec.number, session[p].spec.slug>>
                     ELSE <<Mint(slug, r), slug>>
               o == [store |-> "specs", stage |-> "ready", at |-> at,
                     new |-> [id |-> calls + 1, met |-> {}]]
               bad == ~r
    <3>1. Enter(p, o, bad) /\ UNCHANGED <<disk, backlog, session>>
      BY <2>4 DEF WriteSpec
    <3>2. o.store # "todos"
      OBVIOUS
    <3> HIDE DEF o, bad
    <3> QED
      BY <2>1, <3>1, <3>2, OtherStore
  <2>5. ASSUME NEW c \in Criterion, MarkMet(p, c) PROVE TodosInv'
    <3> DEFINE spec == session[p].spec
               o == [store |-> "specs", stage |-> "ready", at |-> <<spec.number, spec.slug>>,
                     new |-> [id |-> spec.id, met |-> spec.met \cup {c}]]
               no == FALSE
    <3>1. /\ Enter(p, o, no) /\ UNCHANGED <<disk, backlog>>
          /\ session' = [session EXCEPT ![p].spec.met = @ \cup {c}]
      BY <2>5 DEF MarkMet
    <3>2. o.store # "todos"
      OBVIOUS
    <3> HIDE DEF o, no
    <3>3. \A q \in Session : session'[q].shown = session[q].shown /\ session'[q].stale = session[q].stale
      BY <3>1 DEF Shape, SessionShape
    <3> QED
      BY <2>1, <3>1, <3>2, <3>3, OtherStore
  <2>6. CASE \/ \E c \in Content, s \in Status, r \in Readable : TodosAdd(p, c, s, r)
             \/ \E i \in DOMAIN session[p].shown, s \in Status, r \in Readable : TodosSet(p, i, s, r)
             \/ \E r \in Readable : TodosClear(p, r)
    BY <2>6, TodosCalls
  <2> QED
    BY <1>1, <2>2, <2>3, <2>4, <2>5, <2>6 DEF Call
<1>2. ASSUME NEW p \in Session, Open(p) \/ Close(p) \/ Fail(p) \/ Crash(p) PROVE TodosInv'
  BY <1>2, TodosOpen, TodosClose, TodosCut
<1>3. ASSUME NEW p \in Session, Start(p) \/ NewTask(p) \/ Leave(p) PROVE TodosInv'
  <2>1. UNCHANGED <<disk, op, backlog, hurt>>
    BY <1>3 DEF Start, NewTask, Leave
  <2>2. Current => Current'
    <3>1. CASE Start(p)
      <4>1. session'[p].shown = BacklogText(disk.todos) /\ \A q \in Session : q # p => session'[q] = session[q]
        BY <3>1 DEF Start, Shape
      <4>2. \A i \in DOMAIN BacklogText(disk.todos) : BacklogText(disk.todos)[i] = disk.todos[i].content
        BY DEF BacklogText
      <4> QED
        BY <2>1, <4>1, <4>2 DEF Current
    <3>2. CASE NewTask(p)
      <4>1. \A q \in Session : session'[q].shown = session[q].shown /\ session'[q].stale = session[q].stale
        BY <3>2, SpecAside DEF NewTask
      <4> QED
        BY <2>1, <4>1, SameShown
    <3>3. CASE Leave(p)
      <4>1. session'[p].shown = <<>> /\ \A q \in Session : q # p => session'[q] = session[q]
        BY <3>3 DEF Leave, Gone, Shape
      <4> QED
        BY <2>1, <4>1 DEF Current
    <3> QED
      BY <1>3, <3>1, <3>2, <3>3
  <2> QED
    BY <2>1, <2>2, TodosAside
<1>4. CASE UNCHANGED vars
  <2>1. Current => Current'
    BY <1>4 DEF vars, Current
  <2> QED
    BY <1>4, <2>1, TodosAside DEF vars
<1> QED
  BY <1>1, <1>2, <1>3, <1>4 DEF Next

\* Over any number of sessions the backlog holds each item once, with the
\* status that the last call gave it, the items marked by number included.
THEOREM BacklogStays == Spec => []BacklogKept
<1>1. Init => Shape /\ TodosInv
  <2> SUFFICES ASSUME Init PROVE TodosInv
    BY InitShape
  <2>1. \A p \in Session : session[p] = Gone /\ op[p] = Idle
    BY DEF Init
  <2>2. \A p \in Session : ~OnTodos(p) /\ session[p].shown = <<>>
    BY <2>1 DEF OnTodos, Gone, Idle
  <2>3. disk.todos = <<>> /\ backlog = [c \in Content |-> "absent"]
    BY DEF Init
  <2>4. <<>> \in Seq(Entry) /\ DOMAIN <<>> = {}
    OBVIOUS
  <2>5. Records(disk.todos, backlog)
    BY <2>3, <2>4 DEF Records
  <2>6. Single /\ Coming /\ Standing
    BY <2>2, <2>5 DEF Single, Coming, Standing
  <2>7. Current
    BY <2>2 DEF Current
  <2> QED
    BY <2>6, <2>7 DEF TodosInv
<1>2. Shape /\ TodosInv /\ [Next]_vars => (Shape /\ TodosInv)'
  BY NextShape, NextTodos
<1>3. TodosInv => BacklogKept
  <2> SUFFICES ASSUME TodosInv, Quiet("todos"), NEW c \in Content
               PROVE  LET places == {i \in DOMAIN disk.todos : disk.todos[i].content = c}
                      IN  IF backlog[c] = "absent" THEN places = {}
                          ELSE Cardinality(places) = 1
                               /\ \A i \in places : disk.todos[i].status = backlog[c]
    BY DEF BacklogKept
  <2> DEFINE places == {i \in DOMAIN disk.todos : disk.todos[i].content = c}
  <2>1. Records(disk.todos, backlog)
    BY DEF TodosInv, Quiet, Standing, OnTodos
  <2>2. \A i \in places : disk.todos[i].status = backlog[c]
    BY <2>1 DEF Records
  <2>3. \A i \in DOMAIN disk.todos : disk.todos[i].status \in Status
    <3>1. \A i \in DOMAIN disk.todos : disk.todos[i] \in Entry
      BY <2>1 DEF Records
    <3> QED
      BY <3>1, EntryFields
  <2>4. CASE backlog[c] = "absent"
    BY <2>2, <2>3, <2>4 DEF Status
  <2>5. CASE backlog[c] # "absent"
    <3>1. PICK i \in DOMAIN disk.todos : disk.todos[i].content = c
      BY <2>1, <2>5 DEF Records
    <3>2. places = {i}
      BY <2>1, <3>1 DEF Records
    <3>3. Cardinality({i}) = 1
      BY FS_Singleton
    <3> HIDE DEF places
    <3>4. Cardinality(places) = 1
      BY <3>2, <3>3
    <3> QED
      BY <2>2, <2>5, <3>4 DEF places
  <2> QED
    BY <2>4, <2>5
<1> QED
  BY <1>1, <1>2, <1>3, PTL DEF Spec
=============================================================================
