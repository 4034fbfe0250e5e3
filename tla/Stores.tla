------------------------------- MODULE Stores -------------------------------
(***************************************************************************)
(* What outlives a session in a workspace: the backlog (src/src/todos.py), *)
(* the notes (memory.py), the numbered specs (specstore.py) and the table  *)
(* of the effort learner (effort_online.py), with the tools that change    *)
(* them.  Sessions may run side by side, die between any two system calls, *)
(* and meet I/O errors; three of the stores are rewritten in place (the    *)
(* open empties the file, the close fills it), the notes are appended to.  *)
(*                                                                         *)
(* An item, a note or a spec is an identity; a text that was cut off by a  *)
(* crash is told apart from a whole one.                                   *)
(***************************************************************************)
EXTENDS Naturals, Sequences, FiniteSets, FiniteSetsExt, SequencesExt, Functions

CONSTANTS
  Session,       \* the processes, each of which may be started again
  Content,       \* what an item of the backlog may say
  Slug,          \* what the title of a spec may come to
  Criterion,     \* the acceptance items of a spec
  PromptItems,   \* how many items PROJECT_TODOS_MAX_CHARS has room for
  Scenarios      \* bound: the stores used side by side, the faults they meet
                 \* ("crash", "read", "write", "two" sessions at a time), and
                 \* how many calls and starts of a session there are

ASSUME StoresAssumption ==
  /\ PromptItems \in Nat
  /\ \A s \in Scenarios : /\ s.uses \subseteq {"todos", "notes", "specs", "table"}
                         /\ s.faults \subseteq {"crash", "read", "write", "two"}
                         /\ {s.calls, s.starts} \subseteq Nat

Status == {"pending", "in_progress", "done"}
Cut    == "cut"                        \* an item that was cut off, and a note
CutNote == 0
Broken == [n |-> 0, wins |-> 1]        \* a table that does not parse
NoSpec == [id |-> 0, number |-> 0]
Idle   == [store |-> "none"]

VARIABLES
  world,      \* the scenario
  disk,       \* the files, by store
  session,    \* what each process holds in memory
  op,         \* the call each is in, from its reading to its end
  calls, starts,
  backlog,    \* history: what the completed calls made of each item
  noted,      \* history: the notes told to be saved
  approved,   \* history: the specs the user approved, and where they are
  hurt        \* history: stores that met an error, a cut write or two writers

vars == <<world, disk, session, op, calls, starts, backlog, noted, approved, hurt>>

Live(p) == session[p].live
Free(p) == Live(p) /\ op[p] = Idle /\ calls < world.calls

-----------------------------------------------------------------------------
(* The backlog.                                                            *)

Item(c, s) == [content |-> c, status |-> s]

\* Mutant of Add: an item that was done is recorded anew.
AddAnew(items, c, s) ==
  IF \E i \in DOMAIN items : items[i].content = c /\ items[i].status # "done"
    THEN LET i == Min({j \in DOMAIN items : items[j].content = c})
         IN  [items EXCEPT ![i].status = s]
    ELSE Append(items, Item(c, s))

\* Adding what is there already only sets its status.
Add(items, c, s) ==
  IF \E i \in DOMAIN items : items[i].content = c
    THEN LET i == Min({j \in DOMAIN items : items[j].content = c})
         IN  [items EXCEPT ![i].status = s]
    ELSE Append(items, Item(c, s))

SetStatus(items, i, s) == [items EXCEPT ![i].status = s]

Outstanding(item) == item.status # "done"
ClearDone(items) ==
  LET kept[n \in 0..Len(items)] ==
        IF n = 0 THEN <<>>
        ELSE IF Outstanding(items[n]) THEN Append(kept[n - 1], items[n]) ELSE kept[n - 1]
  IN  kept[Len(items)]

\* What the model is shown: a number for each item, which is its place in the
\* whole list even where the done ones, or those that do not fit, are left out.
Display(items) == [i \in DOMAIN items |-> items[i].content]

BacklogText(items) ==
  LET open == {i \in DOMAIN items : Outstanding(items[i])}
      fit  == {i \in open : Cardinality({j \in open : j <= i}) <= PromptItems}
  IN  [i \in fit |-> items[i].content]

\* A file that cannot be read counts as an empty list.
Load(items, readable) == IF readable THEN items ELSE <<>>

-----------------------------------------------------------------------------
(* Calls: each reads its store, computes what shall be there and goes on   *)
(* to write it.                                                            *)

Readable == {TRUE} \cup (IF "read" \in world.faults THEN {FALSE} ELSE {})

Enter(p, o, harmed) ==
  /\ o.store \in world.uses
  /\ op' = [op EXCEPT ![p] = o]
  /\ calls' = calls + 1
  /\ hurt' = hurt \cup (IF harmed \/ \E q \in Session \ {p} : op[q].store = o.store
                          THEN {o.store} ELSE {})

Todos(p, new, act, harmed) ==
  /\ Enter(p, [store |-> "todos", stage |-> "ready", new |-> new, act |-> act], harmed)
  /\ UNCHANGED <<world, disk, session, starts, backlog, noted, approved>>

TodosAdd(p, c, s, readable) ==
  LET items == Load(disk.todos, readable)
  IN  Free(p) /\ Todos(p, Add(items, c, s), [of |-> c, to |-> s], ~readable)

\* By its number, which the model has from what it was last shown.
TodosSet(p, i, s, readable) ==
  LET items == Load(disk.todos, readable)
  IN  /\ Free(p) /\ i \in DOMAIN session[p].shown /\ i \in DOMAIN items
      /\ Todos(p, SetStatus(items, i, s), [of |-> session[p].shown[i], to |-> s],
               ~readable \/ session[p].stale)

TodosClear(p, readable) ==
  LET items == Load(disk.todos, readable)
  IN  Free(p) /\ Todos(p, ClearDone(items), [of |-> "done", to |-> "absent"], ~readable)

Remember(p) ==
  /\ Free(p)
  /\ Enter(p, [store |-> "notes", stage |-> "ready", new |-> calls + 1], FALSE)
  /\ UNCHANGED <<world, disk, session, starts, backlog, noted, approved>>

\* The learner counts an escalated turn and saves what it holds.
Learn(p, success) ==
  LET t == session[p].table
      u == [n |-> t.n + 1, wins |-> t.wins + (IF success THEN 1 ELSE 0)]
  IN  /\ Free(p)
      /\ session' = [session EXCEPT ![p].table = u]
      /\ Enter(p, [store |-> "table", stage |-> "ready", new |-> u], FALSE)
      /\ UNCHANGED <<world, disk, starts, backlog, noted, approved>>

\* The next number, past those of the files that are seen and of a file of
\* the same number and slug.
Mint(slug, readable) ==
  LET seen  == IF readable THEN {at[1] : at \in DOMAIN disk.specs} ELSE {}
      first == 1 + Max({0} \cup seen)
  IN  Min({n \in first..(first + Cardinality(DOMAIN disk.specs)) :
             <<n, slug>> \notin DOMAIN disk.specs})

\* Mutant of Amends: whatever spec the task has is amended.
AmendsAny(p) == session[p].spec.number # 0

\* A draft that was declined in this task keeps its file; an approved spec, or
\* none, gets a number of its own.
Amends(p) == session[p].spec.number # 0 /\ ~session[p].spec.approved

WriteSpec(p, slug, readable) ==
  /\ Free(p)
  /\ LET at == IF Amends(p) THEN <<session[p].spec.number, session[p].spec.slug>>
               ELSE <<Mint(slug, readable), slug>>
     IN  Enter(p, [store |-> "specs", stage |-> "ready", at |-> at,
                   new |-> [id |-> calls + 1, met |-> {}]], ~readable)
  /\ UNCHANGED <<world, disk, session, starts, backlog, noted, approved>>

\* An acceptance item of the approved spec is marked, in memory and on disk.
MarkMet(p, c) ==
  LET spec == session[p].spec
  IN  /\ Free(p) /\ spec.number # 0 /\ spec.approved
      /\ session' = [session EXCEPT ![p].spec.met = @ \cup {c}]
      /\ Enter(p, [store |-> "specs", stage |-> "ready", at |-> <<spec.number, spec.slug>>,
                   new |-> [id |-> spec.id, met |-> spec.met \cup {c}]], FALSE)
      /\ UNCHANGED <<world, disk, starts, backlog, noted, approved>>

-----------------------------------------------------------------------------
(* Writing.                                                                *)

Put(o, content) ==
  IF o.store = "specs"
    THEN [disk EXCEPT !.specs = [at \in DOMAIN @ \cup {o.at} |->
                                   IF at = o.at THEN content ELSE @[at]]]
    ELSE [disk EXCEPT ![o.store] = content]

\* What a file may hold when its writing was cut short.
Torn(o) ==
  CASE o.store = "todos" ->
         LET n == Len(o.new)
         IN  {SubSeq(o.new, 1, k) : k \in 0..n}
               \cup {Append(SubSeq(o.new, 1, k), [o.new[k + 1] EXCEPT !.content = Cut])
                       : k \in 0..(n - 1)}
    [] o.store = "notes" -> {disk.notes, Append(disk.notes, CutNote)}
    [] o.store = "table" -> {Broken}
    [] o.store = "specs" -> {[id |-> 0, met |-> {}]}

\* Mutant of Emptied: the notes are opened like the others.
EmptiedAll(o) == CASE o.store \in {"todos", "notes"} -> <<>>
                   [] o.store = "table" -> Broken
                   [] o.store = "specs" -> [id |-> 0, met |-> {}]

\* Opening a file for writing empties it; the notes are opened for appending.
Emptied(o) == CASE o.store = "todos" -> <<>>
                [] o.store = "notes" -> disk.notes
                [] o.store = "table" -> Broken
                [] o.store = "specs" -> [id |-> 0, met |-> {}]

Written(o) == IF o.store = "notes" THEN Append(disk.notes, o.new) ELSE o.new

Open(p) ==
  /\ op[p] # Idle /\ op[p].stage = "ready"
  /\ disk' = Put(op[p], Emptied(op[p]))
  /\ op' = [op EXCEPT ![p].stage = "open"]
  /\ UNCHANGED <<world, session, calls, starts, backlog, noted, approved, hurt>>

\* What the backlog is to be after a call.
Noted(act) ==
  IF act.to = "absent" THEN [c \in Content |-> IF backlog[c] = "done" THEN "absent" ELSE backlog[c]]
  ELSE [c \in Content |-> IF c = act.of THEN act.to ELSE backlog[c]]

\* The other sessions' numbers may now be of another list.
Shows(p, items) ==
  [q \in Session |-> IF q = p THEN [session[q] EXCEPT !.shown = Display(items), !.stale = FALSE]
                     ELSE [session[q] EXCEPT !.stale = TRUE]]

Close(p) ==
  LET o == op[p]
  IN  /\ o # Idle /\ o.stage = "open"
      /\ disk' = Put(o, Written(o))
      /\ op' = [op EXCEPT ![p] = Idle]
      /\ CASE o.store = "todos" ->
                /\ session' = Shows(p, o.new) /\ backlog' = Noted(o.act)
                /\ UNCHANGED <<noted, approved>>
           [] o.store = "notes" ->
                /\ noted' = noted \cup {o.new}
                /\ UNCHANGED <<session, backlog, approved>>
           [] o.store = "table" -> UNCHANGED <<session, backlog, noted, approved>>
           [] o.store = "specs" ->
                IF session[p].spec.id = o.new.id
                  THEN UNCHANGED <<session, backlog, noted, approved>>
                  ELSE \E yes \in BOOLEAN :
                         /\ session' = [session EXCEPT ![p].spec =
                              [id |-> o.new.id, number |-> o.at[1], slug |-> o.at[2],
                               met |-> {}, approved |-> yes]]
                         /\ approved' = IF yes THEN approved \cup {[at |-> o.at, id |-> o.new.id]}
                                        ELSE approved
                         /\ UNCHANGED <<backlog, noted>>
      /\ UNCHANGED <<world, calls, starts, hurt>>

\* An I/O error: when the file is opened nothing has changed, when it is
\* written it is cut short.  The tool fails, or says nothing of it.
Fail(p) ==
  /\ "write" \in world.faults /\ op[p] # Idle
  /\ IF op[p].stage = "ready"
       THEN UNCHANGED <<disk, hurt>>
       ELSE /\ \E content \in Torn(op[p]) : disk' = Put(op[p], content)
            /\ hurt' = hurt \cup {op[p].store}
  /\ op' = [op EXCEPT ![p] = Idle]
  /\ UNCHANGED <<world, session, calls, starts, backlog, noted, approved>>

-----------------------------------------------------------------------------
(* Sessions and tasks.                                                     *)

LoadTable(t) == IF t = Broken THEN [n |-> 0, wins |-> 0] ELSE t

Gone == [live |-> FALSE, shown |-> <<>>, stale |-> FALSE, spec |-> NoSpec,
         table |-> [n |-> 0, wins |-> 0]]

Start(p) ==
  /\ ~Live(p) /\ starts < world.starts /\ starts' = starts + 1
  /\ "two" \in world.faults \/ \A q \in Session : ~Live(q)
  /\ session' = [session EXCEPT ![p] =
       [live |-> TRUE, shown |-> BacklogText(disk.todos), stale |-> FALSE,
        spec |-> NoSpec, table |-> LoadTable(disk.table)]]
  /\ UNCHANGED <<world, disk, op, calls, backlog, noted, approved, hurt>>

\* A new task, for which every earlier approval has lapsed.
NewTask(p) ==
  /\ Live(p) /\ op[p] = Idle /\ session[p].spec # NoSpec
  /\ session' = [session EXCEPT ![p].spec = NoSpec]
  /\ UNCHANGED <<world, disk, op, calls, starts, backlog, noted, approved, hurt>>

Leave(p) ==
  /\ Live(p) /\ op[p] = Idle
  /\ session' = [session EXCEPT ![p] = Gone]
  /\ UNCHANGED <<world, disk, op, calls, starts, backlog, noted, approved, hurt>>

Crash(p) ==
  /\ "crash" \in world.faults /\ Live(p) /\ op[p] # Idle
  /\ IF op[p].stage = "ready"
       THEN UNCHANGED <<disk, hurt>>
       ELSE /\ \E content \in Torn(op[p]) : disk' = Put(op[p], content)
            /\ hurt' = hurt \cup {op[p].store}
  /\ op' = [op EXCEPT ![p] = Idle]
  /\ session' = [session EXCEPT ![p] = Gone]
  /\ UNCHANGED <<world, calls, starts, backlog, noted, approved>>

Init ==
  /\ world \in Scenarios
  /\ disk = [todos |-> <<>>, notes |-> <<>>, table |-> [n |-> 0, wins |-> 0], specs |-> <<>>]
  /\ session = [p \in Session |-> Gone] /\ op = [p \in Session |-> Idle]
  /\ calls = 0 /\ starts = 0
  /\ backlog = [c \in Content |-> "absent"]
  /\ noted = {} /\ approved = {} /\ hurt = {}

Call(p) ==
  \/ \E c \in Content, s \in Status, r \in Readable : TodosAdd(p, c, s, r)
  \/ \E i \in DOMAIN session[p].shown, s \in Status, r \in Readable : TodosSet(p, i, s, r)
  \/ \E r \in Readable : TodosClear(p, r)
  \/ Remember(p) \/ \E success \in BOOLEAN : Learn(p, success)
  \/ \E slug \in Slug, r \in Readable : WriteSpec(p, slug, r)
  \/ \E c \in Criterion : MarkMet(p, c)

Next == \E p \in Session :
  Call(p) \/ Open(p) \/ Close(p) \/ Fail(p) \/ Start(p) \/ NewTask(p) \/ Leave(p) \/ Crash(p)

Spec == Init /\ [][Next]_vars

-----------------------------------------------------------------------------
(* Properties.                                                             *)

Quiet(store) == store \notin hurt /\ \A p \in Session : op[p].store # store

\* Over any number of sessions the backlog holds each item once, with the
\* status that the last call gave it, the items marked by number included:
\* the number is the one the model was shown (todos.py).  What it does not
\* survive is in `hurt`: a write cut short, an unreadable file, two writers.
BacklogKept ==
  Quiet("todos") =>
    \A c \in Content :
      LET places == {i \in DOMAIN disk.todos : disk.todos[i].content = c}
      IN  IF backlog[c] = "absent" THEN places = {}
          ELSE Cardinality(places) = 1 /\ \A i \in places : disk.todos[i].status = backlog[c]

\* A note that was told to be saved stays whole, whatever crashes, fails or
\* writes beside it (memory.py appends, and begins on a line of its own).
NotesKept == noted \subseteq Range(disk.notes)

\* An approved spec keeps its file: no other proposal, of this task or of a
\* later one, is written over it (specstore.py, "number is IDENTITY").
SpecsApart ==
  Quiet("specs") =>
    \A a \in approved :
      /\ disk.specs[a.at].id = a.id
      /\ \A b \in approved : b.at[1] = a.at[1] => b = a
=============================================================================
