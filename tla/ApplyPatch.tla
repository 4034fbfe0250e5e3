----------------------------- MODULE ApplyPatch -----------------------------
(***************************************************************************)
(* One call of the apply_patch tool (src/src/patch.py): the envelope is    *)
(* parsed, every operation is gated and resolved against the disk, and     *)
(* only then is the plan applied, each operation leaving behind how to     *)
(* undo it; a fault half-way rolls the applied operations back.            *)
(*                                                                         *)
(* A file's text is a set of tokens.  A SEARCH/REPLACE hunk <<old, new>>   *)
(* matches when old occurs in the text (editmatch.resolve finds a unique   *)
(* place or refuses) and replaces it by new.  Directories are left out.    *)
(***************************************************************************)
EXTENDS Naturals, Sequences

CONSTANTS
  File,       \* the paths an operation can name
  Token,      \* the pieces of text a file is made of
  Binary,     \* the tokens that do not decode as UTF-8
  Gone,       \* marks a path that names no file
  Patches,    \* the envelopes the model may send; <<>> stands for one that does not parse
  Disks,      \* the disks the call may start from
  Denials     \* the sets of paths the permission engine may refuse

Text     == SUBSET Token
Absent   == {Gone}
Hunk     == Token \X Token
Contents == Text \cup {Absent}

Op ==
       [op : {"add"}, path : File, text : Text]
  \cup [op : {"delete"}, path : File]
  \cup [op : {"move"}, path : File, to : File]
  \cup [op : {"update"}, path : File, hunks : Seq(Hunk) \ {<<>>}]

\* A planned write carries the text resolved at validation, never the hunks.
Step ==
       [do : {"write"}, path : File, text : Text]
  \cup [do : {"delete"}, path : File]
  \cup [do : {"rename"}, path : File, from : File]

\* How one applied step is taken back.
Undo ==
       [undo : {"restore"}, path : File, text : Text]
  \cup [undo : {"remove"}, path : File]
  \cup [undo : {"rename"}, path : File, from : File]

Touch == [path : File, action : {"write", "edit", "delete"}]

ASSUME PatchAssumption ==
  /\ Gone \notin Token
  /\ Binary \subseteq Token
  /\ Patches \subseteq Seq(Op)
  /\ Disks \subseteq [File -> Contents]
  /\ Denials \subseteq SUBSET File

VARIABLES
  disk,      \* what each path holds
  patch,     \* the operations of the envelope
  denied,    \* the paths the permission engine refuses during this call
  pc,        \* where the call is
  next,      \* the operation being validated, then the planned step being applied
  hunk,      \* the hunk of an Update being resolved
  buffer,    \* the text of that Update, resolved so far
  plan,      \* the steps to apply, in order
  touched,   \* the ledger entries to record on success
  undo,      \* how to take the applied steps back, last one last
  ledger,    \* ctx.mutations: the last recorded action on each path, or "none"
  trail,     \* history: the disk before each undo record, and now
  undoFault  \* history: did an undo itself fail?

vars == <<disk, patch, denied, pc, next, hunk, buffer, plan, touched, undo,
          ledger, trail, undoFault>>

Exists(path) == disk[path] # Absent

Op1 == patch[next]     \* the operation being validated

Validating(kind) ==
  /\ pc = "validate"
  /\ next \in DOMAIN patch
  /\ Op1.op = kind

\* A PatchError: nothing has been written yet.
Refuse ==
  /\ pc' = "refused"
  /\ UNCHANGED <<disk, patch, denied, next, hunk, buffer, plan, touched, undo,
                 ledger, trail, undoFault>>

Planned(step, entries) ==
  /\ plan' = Append(plan, step)
  /\ touched' = touched \o entries
  /\ next' = next + 1
  /\ hunk' = 1
  /\ buffer' = {}
  /\ UNCHANGED <<disk, patch, denied, pc, undo, ledger, trail, undoFault>>

-----------------------------------------------------------------------------
(* Parsing and validation: the disk is only read.                          *)

\* parse_patch: an envelope without a well-formed operation is refused.
Parse ==
  /\ pc = "parse"
  /\ IF patch = <<>>
     THEN Refuse
     ELSE /\ pc' = "validate"
          /\ UNCHANGED <<disk, patch, denied, next, hunk, buffer, plan,
                         touched, undo, ledger, trail, undoFault>>

ValidateAdd ==
  /\ Validating("add")
  /\ IF Op1.path \in denied \/ Exists(Op1.path)
     THEN Refuse
     ELSE Planned([do |-> "write", path |-> Op1.path, text |-> Op1.text],
                  <<[path |-> Op1.path, action |-> "write"]>>)

ValidateDelete ==
  /\ Validating("delete")
  /\ IF Op1.path \in denied \/ ~Exists(Op1.path)
     THEN Refuse
     ELSE Planned([do |-> "delete", path |-> Op1.path],
                  <<[path |-> Op1.path, action |-> "delete"]>>)

ValidateMove ==
  /\ Validating("move")
  /\ IF \/ {Op1.path, Op1.to} \cap denied # {}
        \/ ~Exists(Op1.path)
        \/ Exists(Op1.to)
     THEN Refuse
     ELSE Planned([do |-> "rename", path |-> Op1.to, from |-> Op1.path],
                  <<[path |-> Op1.path, action |-> "delete"],
                    [path |-> Op1.to, action |-> "write"]>>)

\* An Update reads the file from the DISK, whatever is already planned for it.
ReadUpdate ==
  /\ Validating("update")
  /\ hunk = 1
  /\ IF Op1.path \in denied \/ ~Exists(Op1.path)
     THEN Refuse
     ELSE IF disk[Op1.path] \cap Binary # {}
          THEN Refuse
          ELSE /\ buffer' = disk[Op1.path]
               /\ hunk' = 2
               /\ UNCHANGED <<disk, patch, denied, pc, next, plan, touched,
                              undo, ledger, trail, undoFault>>

\* Hunk number hunk - 1 is resolved against the text the ones before it left.
ResolveHunk ==
  /\ Validating("update")
  /\ hunk - 1 \in DOMAIN Op1.hunks
  /\ LET old == Op1.hunks[hunk - 1][1]
         new == Op1.hunks[hunk - 1][2]
     IN  IF old \notin buffer
         THEN Refuse
         ELSE /\ buffer' = (buffer \ {old}) \cup {new}
              /\ hunk' = hunk + 1
              /\ UNCHANGED <<disk, patch, denied, pc, next, plan, touched,
                             undo, ledger, trail, undoFault>>

PlanUpdate ==
  /\ Validating("update")
  /\ hunk = Len(Op1.hunks) + 2
  /\ Planned([do |-> "write", path |-> Op1.path, text |-> buffer],
             <<[path |-> Op1.path, action |-> "edit"]>>)

StartApply ==
  /\ pc = "validate"
  /\ next = Len(patch) + 1
  /\ pc' = "apply"
  /\ next' = 1
  /\ UNCHANGED <<disk, patch, denied, hunk, buffer, plan, touched, undo,
                 ledger, trail, undoFault>>

Validate ==
  \/ ValidateAdd
  \/ ValidateDelete
  \/ ValidateMove
  \/ ReadUpdate
  \/ ResolveHunk
  \/ PlanUpdate
  \/ StartApply

-----------------------------------------------------------------------------
(* Applying the plan.  Each step may also fail with an OSError.            *)

Applying(do) ==
  /\ pc = "apply"
  /\ next \in DOMAIN plan
  /\ plan[next].do = do

\* The effect `after` lands and `record` is pushed; control goes on at `to`.
Effect(after, record, to) ==
  /\ disk' = after
  /\ undo' = Append(undo, record)
  /\ trail' = Append(trail, after)
  /\ pc' = to
  /\ next' = next + 1
  /\ UNCHANGED <<patch, denied, hunk, buffer, plan, touched, ledger,
                 undoFault>>

\* The effect did not happen: whatever was applied before is taken back.
Fail ==
  /\ pc' = "undo"
  /\ UNCHANGED <<disk, patch, denied, next, hunk, buffer, plan, touched, undo,
                 ledger, trail, undoFault>>

ApplyDelete ==
  /\ Applying("delete")
  /\ LET path == plan[next].path
     IN  IF Exists(path)
         THEN Effect([disk EXCEPT ![path] = Absent],
                     [undo |-> "restore", path |-> path, text |-> disk[path]],
                     "apply")
         ELSE Fail

\* Mutant of Renamed: a copy that leaves its source behind.
Copied(d, from, to) == [d EXCEPT ![to] = d[from]]

\* POSIX os.rename replaces a destination that exists by now.
Renamed(d, from, to) == [d EXCEPT ![to] = d[from], ![from] = Absent]

ApplyRename ==
  /\ Applying("rename")
  /\ LET from == plan[next].from
         path == plan[next].path
     IN  IF Exists(from)
         THEN Effect(Renamed(disk, from, path),
                     [undo |-> "rename", path |-> path, from |-> from],
                     "apply")
         ELSE Fail

\* The undo of a write is registered before the file is opened.
UndoOfWrite(path) ==
  IF Exists(path)
  THEN [undo |-> "restore", path |-> path, text |-> disk[path]]
  ELSE [undo |-> "remove", path |-> path]

ApplyWrite ==
  /\ Applying("write")
  /\ Effect([disk EXCEPT ![plan[next].path] = plan[next].text],
            UndoOfWrite(plan[next].path), "apply")

\* open(path, "w") truncated the file and the write then failed.
WriteFails ==
  /\ Applying("write")
  /\ Effect([disk EXCEPT ![plan[next].path] = {}],
            UndoOfWrite(plan[next].path), "undo")

\* The step raised before it changed anything.
StepFails ==
  /\ pc = "apply"
  /\ next \in DOMAIN plan
  /\ Fail

Apply ==
  \/ ApplyDelete
  \/ ApplyRename
  \/ ApplyWrite
  \/ WriteFails
  \/ StepFails

-----------------------------------------------------------------------------
(* Success records the ledger; failure undoes, last step first.            *)

\* Mutant of LastAction: the first entry of a path wins.
FirstAction(path) ==
  LET mine == {k \in DOMAIN touched : touched[k].path = path}
  IN  IF mine = {}
      THEN ledger[path]
      ELSE touched[CHOOSE k \in mine : \A j \in mine : k <= j].action

\* _record_mutation in order: the last entry of a path is the one that stays.
LastAction(path) ==
  LET mine == {k \in DOMAIN touched : touched[k].path = path}
  IN  IF mine = {}
      THEN ledger[path]
      ELSE touched[CHOOSE k \in mine : \A j \in mine : j <= k].action

Succeed ==
  /\ pc = "apply"
  /\ next = Len(plan) + 1
  /\ pc' = "ok"
  /\ ledger' = [path \in File |-> LastAction(path)]
  /\ UNCHANGED <<disk, patch, denied, next, hunk, buffer, plan, touched, undo,
                 trail, undoFault>>

\* Mutant of Undone: a file the call created is left behind.
UndoneButCreated(record, d) ==
  CASE record.undo = "restore" -> [d EXCEPT ![record.path] = record.text]
    [] record.undo = "remove"  -> d
    [] record.undo = "rename"  ->
         IF d[record.path] = Absent THEN d
         ELSE Renamed(d, record.path, record.from)

\* What taking one record back does to disk d; a rename whose source is gone
\* raises, and the error is swallowed.
Undone(record, d) ==
  CASE record.undo = "restore" -> [d EXCEPT ![record.path] = record.text]
    [] record.undo = "remove"  -> [d EXCEPT ![record.path] = Absent]
    [] record.undo = "rename"  ->
         IF d[record.path] = Absent THEN d
         ELSE Renamed(d, record.path, record.from)

PopUndo ==
  /\ undo' = SubSeq(undo, 1, Len(undo) - 1)
  /\ trail' = SubSeq(trail, 1, Len(undo))
  /\ UNCHANGED <<patch, denied, pc, next, hunk, buffer, plan, touched, ledger>>

UndoLast ==
  /\ pc = "undo"
  /\ undo # <<>>
  /\ disk' = Undone(undo[Len(undo)], disk)
  /\ PopUndo
  /\ UNCHANGED undoFault

\* An OSError inside an undo is swallowed and the next record is tried; a
\* restore may have truncated its file by then.
UndoFails ==
  /\ pc = "undo"
  /\ undo # <<>>
  /\ LET record == undo[Len(undo)]
     IN  \/ UNCHANGED disk
         \/ /\ record.undo = "restore"
            /\ disk' = [disk EXCEPT ![record.path] = {}]
  /\ undoFault' = TRUE
  /\ PopUndo

RolledBack ==
  /\ pc = "undo"
  /\ undo = <<>>
  /\ pc' = "rolledback"
  /\ UNCHANGED <<disk, patch, denied, next, hunk, buffer, plan, touched, undo,
                 ledger, trail, undoFault>>

-----------------------------------------------------------------------------
Init ==
  /\ disk \in Disks
  /\ patch \in Patches
  /\ denied \in Denials
  /\ pc = "parse"
  /\ next = 1
  /\ hunk = 1
  /\ buffer = {}
  /\ plan = <<>>
  /\ touched = <<>>
  /\ undo = <<>>
  /\ ledger = [path \in File |-> "none"]
  /\ trail = <<disk>>
  /\ undoFault = FALSE

Next ==
  \/ Parse
  \/ Validate
  \/ Apply
  \/ Succeed
  \/ UndoLast
  \/ UndoFails
  \/ RolledBack

Spec == Init /\ [][Next]_vars

\* The call runs on its caller's thread: while it can take a step, it does.
FairSpec == Spec /\ WF_vars(Next)
-----------------------------------------------------------------------------
(* Properties.                                                             *)

TypeOK ==
  /\ disk \in [File -> Contents]
  /\ patch \in Seq(Op)
  /\ denied \in SUBSET File
  /\ pc \in {"parse", "validate", "apply", "undo", "ok", "refused", "rolledback"}
  /\ next \in Nat \ {0}
  /\ hunk \in Nat \ {0}
  /\ buffer \in Text
  /\ plan \in Seq(Step)
  /\ touched \in Seq(Touch)
  /\ undo \in Seq(Undo)
  /\ ledger \in [File -> {"none", "write", "edit", "delete"}]
  /\ trail \in Seq([File -> Contents])
  /\ Len(trail) = Len(undo) + 1
  /\ undoFault \in BOOLEAN

Before == trail[1]     \* the disk the call started from

\* The paths an operation names.
Paths(op) == IF op.op = "move" THEN {op.path, op.to} ELSE {op.path}

\* No path is named by two operations of the envelope.
DisjointPaths ==
  \A j, k \in DOMAIN patch : j # k => Paths(patch[j]) \cap Paths(patch[k]) = {}

\* No two Moves have the same destination.
DistinctTargets ==
  \A j, k \in DOMAIN patch :
    /\ j # k
    /\ patch[j].op = "move"
    /\ patch[k].op = "move"
    => patch[j].to # patch[k].to

\* A call that reports failure leaves every file as it found it, wherever the
\* fault struck, provided no undo failed itself and no two Moves share a
\* destination: paths named twice in any other way roll back exactly too
\* (patch.py, the undo list of apply_patch).
RollbackExact ==
  pc \in {"refused", "rolledback"} /\ ~undoFault /\ DistinctTargets
    => disk = Before

\* The contract apply_patch states of every envelope: "on ANY error, no file
\* is changed".
FailureChangesNothing ==
  pc \in {"refused", "rolledback"} /\ ~undoFault => disk = Before

\* The text after each hunk.
Resolved(text, hunks) ==
  LET after[n \in 0..Len(hunks)] ==
        IF n = 0 THEN text
        ELSE (after[n - 1] \ {hunks[n][1]}) \cup {hunks[n][2]}
  IN  after
HunksApplied(text, hunks) == Resolved(text, hunks)[Len(hunks)]

\* What an operation of its own promises of the disk after the call.
Landed(op) ==
  CASE op.op = "add"    -> disk[op.path] = op.text
    [] op.op = "delete" -> disk[op.path] = Absent
    [] op.op = "move"   -> disk[op.path] = Absent /\ disk[op.to] = Before[op.path]
    [] op.op = "update" -> disk[op.path] = HunksApplied(Before[op.path], op.hunks)

\* A call that reports success has carried out every operation, and changed
\* no path but theirs, when no path is named twice.
AllOpsLand ==
  pc = "ok" /\ DisjointPaths =>
    /\ \A k \in DOMAIN patch : Landed(patch[k])
    /\ \A path \in File \ UNION {Paths(patch[k]) : k \in DOMAIN patch} :
         disk[path] = Before[path]

\* After a successful call the mutation ledger accounts for the disk: every
\* path that changed has an entry, and an entry says "delete" exactly when the
\* file is gone.  The completion gate (agent.py, _unverified_items) relies on
\* it, for envelopes that name a path twice as well.
LedgerAccountsForDisk ==
  pc = "ok" =>
    \A path \in File :
      /\ disk[path] # Before[path] => ledger[path] # "none"
      /\ ledger[path] # "none" => (ledger[path] = "delete" <=> disk[path] = Absent)

\* A file whose path no operation of the envelope is allowed to name is never
\* written, at any moment of the call, not even by the rollback.
DeniedUntouched == [][\A path \in denied : disk'[path] = disk[path]]_vars
=============================================================================
