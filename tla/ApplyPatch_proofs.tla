-------------------------- MODULE ApplyPatch_proofs --------------------------
(***************************************************************************)
(* For every set of paths and tokens, every envelope and every disk: a     *)
(* rollback restores the disk, a refused path is never written, a success  *)
(* carries out the envelope, and the ledger accounts for the disk.         *)
(***************************************************************************)
EXTENDS ApplyPatch, SequenceTheorems, WellFoundedInduction, TLAPS

-----------------------------------------------------------------------------
(***************************************************************************)
(* The inductive invariant.  RollbackExact is not inductive: it says       *)
(* nothing before the call ends.  What carries it is that every undo       *)
(* record, whenever it was made, leads from the disk after its step back   *)
(* to the disk before it.  One thing breaks that step by step: a Move onto *)
(* a file an earlier Add created is undone to a missing file, not to the   *)
(* added one; the record of the Add, still on the list, accounts for it.   *)
(***************************************************************************)

IsRename(record) == record.undo = "rename"

\* A planned rename is the Move of the same number; it was resolved when its
\* destination did not exist.
PlanFollowsPatch ==
  /\ pc \in {"parse", "validate"} => Len(plan) = next - 1
  /\ \A k \in DOMAIN plan :
       plan[k].do = "rename" =>
         /\ k \in DOMAIN patch
         /\ patch[k].op = "move"
         /\ patch[k].to = plan[k].path
         /\ Before[plan[k].path] = Absent
         /\ plan[k].from # plan[k].path

\* Record k undoes planned step k.
UndoFollowsPlan ==
  /\ pc = "apply" => Len(undo) = next - 1
  /\ \A k \in DOMAIN undo :
       IsRename(undo[k]) =>
         /\ k \in DOMAIN plan
         /\ plan[k].do = "rename"
         /\ plan[k].path = undo[k].path
         /\ plan[k].from = undo[k].from

\* What one step did to the disk, as its undo record tells it.
StepOf(record, d, e) ==
  /\ IsRename(record) =>
       /\ d[record.from] # Absent
       /\ e = Renamed(d, record.from, record.path)
  /\ ~IsRename(record) =>
       /\ \A p \in File \ {record.path} : e[p] = d[p]
       /\ d[record.path] = IF record.undo = "restore" THEN record.text ELSE Absent

History == \A k \in DOMAIN undo : StepOf(undo[k], trail[k], trail[k + 1])

\* A file that was not there at first was written or renamed into place.
Appeared ==
  \A j \in DOMAIN trail, p \in File :
    Before[p] = Absent /\ trail[j][p] # Absent =>
      \E i \in DOMAIN undo :
        /\ i < j
        /\ undo[i].path = p
        /\ undo[i].undo \in {"remove", "rename"}

\* The file of an Add still to be taken back, already gone.
AlreadyGone(p) ==
  /\ disk[p] = Absent
  /\ \E k \in DOMAIN undo : undo[k].undo = "remove" /\ undo[k].path = p
  /\ \A k \in DOMAIN undo : IsRename(undo[k]) => undo[k].path # p

Present ==
  /\ pc \in {"parse", "validate", "refused"} => undo = <<>>
  /\ pc = "rolledback" => undo = <<>>
  /\ pc \notin {"undo", "rolledback"} => disk = trail[Len(trail)]
  /\ pc \in {"undo", "rolledback"} /\ ~undoFault /\ DistinctTargets =>
       \A p \in File : disk[p] = trail[Len(trail)][p] \/ AlreadyGone(p)

IInv ==
  /\ TypeOK
  /\ PlanFollowsPatch
  /\ UndoFollowsPlan
  /\ History
  /\ Appeared
  /\ Present

-----------------------------------------------------------------------------
\* What an operation of the envelope contributes to its type.
LEMMA OpType ==
  ASSUME NEW o \in Op
  PROVE  /\ o.path \in File
         /\ o.op \in {"add", "delete", "move", "update"}
         /\ o.op = "add" => o.text \in Text
         /\ o.op = "move" => o.to \in File
         /\ o.op = "update" => o.hunks \in Seq(Hunk)
BY DEF Op

\* What a planned step contributes to its type.
LEMMA StepType ==
  ASSUME NEW s \in Step
  PROVE  /\ s.path \in File
         /\ s.do \in {"write", "delete", "rename"}
         /\ s.do = "write" => s.text \in Text
         /\ s.do = "rename" => s.from \in File
BY DEF Step

\* Taking a record back yields a disk.
LEMMA UndoneType ==
  ASSUME NEW u \in Undo, NEW d \in [File -> Contents]
  PROVE  Undone(u, d) \in [File -> Contents]
<1>1. CASE u \in [undo : {"restore"}, path : File, text : Text]
  BY <1>1 DEF Undone, Contents
<1>2. CASE u \in [undo : {"remove"}, path : File]
  BY <1>2 DEF Undone, Contents
<1>3. CASE u \in [undo : {"rename"}, path : File, from : File]
  BY <1>3 DEF Undone, Renamed, Contents
<1>. QED
  BY <1>1, <1>2, <1>3 DEF Undo

\* Appending a step keeps the types of plan and touched.
LEMMA PlannedType ==
  ASSUME TypeOK, NEW s \in Step, NEW entries \in Seq(Touch), Planned(s, entries)
  PROVE  TypeOK'
<1>1. touched \o entries \in Seq(Touch)
  BY ConcatProperties DEF TypeOK
<1>2. Append(plan, s) \in Seq(Step)
  BY DEF TypeOK
<1>3. {} \in Text /\ 1 \in Nat \ {0} /\ next + 1 \in Nat \ {0}
  BY DEF Text, TypeOK
<1>. QED
  BY <1>1, <1>2, <1>3 DEF TypeOK, Planned

\* An effect keeps the types of disk, undo and trail.
LEMMA EffectType ==
  ASSUME TypeOK, NEW d \in [File -> Contents], NEW u \in Undo,
         NEW to \in {"apply", "undo"}, Effect(d, u, to)
  PROVE  TypeOK'
<1>1. Append(undo, u) \in Seq(Undo) /\ Len(Append(undo, u)) = Len(undo) + 1
  BY DEF TypeOK
<1>2. Append(trail, d) \in Seq([File -> Contents]) /\ Len(Append(trail, d)) = Len(trail) + 1
  BY DEF TypeOK
<1>3. next + 1 \in Nat \ {0}
  BY DEF TypeOK
<1>. QED
  BY <1>1, <1>2, <1>3 DEF TypeOK, Effect

\* A prefix of a sequence.
LEMMA PrefixType ==
  ASSUME NEW S, NEW s \in Seq(S), NEW n \in 0..Len(s)
  PROVE  /\ SubSeq(s, 1, n) \in Seq(S)
         /\ Len(SubSeq(s, 1, n)) = n
         /\ \A k \in 1..n : SubSeq(s, 1, n)[k] = s[k]
<1>1. n \in Int /\ 1 \in Int /\ Len(s) \in Nat
  OBVIOUS
<1>2. \A k \in 1..n : s[k] \in S
  BY <1>1, ElementOfSeq
<1>3. /\ SubSeq(s, 1, n) \in Seq(S)
      /\ Len(SubSeq(s, 1, n)) = IF 1 <= n THEN n - 1 + 1 ELSE 0
      /\ \A k \in 1..(n - 1 + 1) : SubSeq(s, 1, n)[k] = s[1 + k - 1]
  BY <1>1, <1>2, SubSeqProperties
<1>4. ASSUME NEW k \in 1..n
      PROVE  SubSeq(s, 1, n)[k] = s[k]
  <2>1. k \in 1..(n - 1 + 1) /\ 1 + k - 1 = k
    BY <1>1
  <2>. QED
    BY <2>1, <1>3
<1>. QED
  BY <1>1, <1>3, <1>4

\* Popping a record keeps undo and trail one apart.
LEMMA PopType ==
  ASSUME TypeOK, undo # <<>>, PopUndo
  PROVE  /\ undo' \in Seq(Undo)
         /\ trail' \in Seq([File -> Contents])
         /\ Len(undo) \in Nat \ {0}
         /\ Len(trail') = Len(undo)
         /\ Len(undo') = Len(undo) - 1
         /\ \A k \in 1..Len(undo') : undo'[k] = undo[k]
         /\ \A k \in 1..Len(trail') : trail'[k] = trail[k]
<1>1. Len(undo) \in Nat \ {0} /\ Len(trail) = Len(undo) + 1
  BY EmptySeq DEF TypeOK
<1>2. Len(undo) - 1 \in 0..Len(undo) /\ Len(undo) \in 0..Len(trail)
  BY <1>1
<1>3. undo \in Seq(Undo) /\ trail \in Seq([File -> Contents])
  BY DEF TypeOK
<1>. QED
  BY <1>1, <1>2, <1>3, PrefixType DEF PopUndo

\* A non-empty set of indices has a last one.
LEMMA LastIndex ==
  ASSUME NEW n \in Nat, NEW S \in SUBSET (1..n), S # {}
  PROVE  \E k \in S : \A j \in S : j <= k
<1>. DEFINE R == OpToRel(<, Nat)
            T == {n - k : k \in S}
<1>1. IsWellFoundedOn(R, Nat)
  BY NatLessThanWellFounded
<1>2. T \in SUBSET Nat /\ T # {}
  <2>1. ASSUME NEW k \in S PROVE n - k \in Nat
    OBVIOUS
  <2>. QED
    BY <2>1
<1>3. PICK m \in T : \A y \in T : ~(<<y, m>> \in R)
  <2>. HIDE DEF R, T
  <2>. QED
    BY <1>1, <1>2, WFMin
<1>4. \A y \in T : ~(y < m)
  BY <1>2, <1>3 DEF OpToRel
<1>5. PICK k \in S : m = n - k
  BY <1>3
<1>6. ASSUME NEW j \in S PROVE j <= k
  <2>1. n - j \in T
    OBVIOUS
  <2>2. ~(n - j < n - k)
    BY <2>1, <1>4, <1>5
  <2>. QED
    BY <2>2
<1>. QED
  BY <1>6

\* The ledger's new entries are of the kinds the tools record.
LEMMA LastActionType ==
  ASSUME TypeOK, NEW p \in File
  PROVE  LastAction(p) \in {"none", "write", "edit", "delete"}
<1>. DEFINE mine == {k \in DOMAIN touched : touched[k].path = p}
<1>1. CASE mine = {}
  BY <1>1 DEF LastAction, TypeOK
<1>2. CASE mine # {}
  <2>1. touched \in Seq(Touch) /\ Len(touched) \in Nat /\ DOMAIN touched = 1..Len(touched)
    BY DEF TypeOK
  <2>2. \E k \in mine : \A j \in mine : j <= k
    <3>1. mine \in SUBSET (1..Len(touched))
      BY <2>1
    <3>. HIDE DEF mine
    <3>. QED
      BY <1>2, <2>1, <3>1, LastIndex
  <2>3. (CHOOSE k \in mine : \A j \in mine : j <= k) \in mine
    <3>. HIDE DEF mine
    <3>. QED
      BY <2>2
  <2>4. \A k \in mine : touched[k] \in Touch
    BY <2>1, ElementOfSeq
  <2>. QED
    BY <1>2, <2>3, <2>4 DEF LastAction, Touch
<1>. QED
  BY <1>1, <1>2
-----------------------------------------------------------------------------
\* Every action keeps the types.
LEMMA TypeNext == TypeOK /\ [Next]_vars => TypeOK'
<1>. SUFFICES ASSUME TypeOK, [Next]_vars PROVE TypeOK'
  OBVIOUS
<1>op. next \in DOMAIN patch => Op1 \in Op
  BY ElementOfSeq, LenProperties DEF TypeOK, Op1
<1>step. next \in DOMAIN plan => plan[next] \in Step
  BY ElementOfSeq, LenProperties DEF TypeOK
<1>1. CASE Parse
  BY <1>1 DEF Parse, Refuse, TypeOK
<1>2. CASE ValidateAdd
  <2>1. CASE Refuse
    BY <2>1 DEF Refuse, TypeOK
  <2>2. CASE Planned([do |-> "write", path |-> Op1.path, text |-> Op1.text],
                     <<[path |-> Op1.path, action |-> "write"]>>)
    <3>1. Op1.path \in File /\ Op1.text \in Text
      BY <1>2, <1>op, OpType DEF ValidateAdd, Validating
    <3>2. [do |-> "write", path |-> Op1.path, text |-> Op1.text] \in Step
      BY <3>1 DEF Step
    <3>3. <<[path |-> Op1.path, action |-> "write"]>> \in Seq(Touch)
      BY <3>1 DEF Touch
    <3>. QED
      BY <2>2, <3>2, <3>3, PlannedType
  <2>. QED
    BY <1>2, <2>1, <2>2 DEF ValidateAdd
<1>3. CASE ValidateDelete
  <2>1. CASE Refuse
    BY <2>1 DEF Refuse, TypeOK
  <2>2. CASE Planned([do |-> "delete", path |-> Op1.path],
                     <<[path |-> Op1.path, action |-> "delete"]>>)
    <3>1. Op1.path \in File
      BY <1>3, <1>op, OpType DEF ValidateDelete, Validating
    <3>2. [do |-> "delete", path |-> Op1.path] \in Step
      BY <3>1 DEF Step
    <3>3. <<[path |-> Op1.path, action |-> "delete"]>> \in Seq(Touch)
      BY <3>1 DEF Touch
    <3>. QED
      BY <2>2, <3>2, <3>3, PlannedType
  <2>. QED
    BY <1>3, <2>1, <2>2 DEF ValidateDelete
<1>4. CASE ValidateMove
  <2>1. CASE Refuse
    BY <2>1 DEF Refuse, TypeOK
  <2>2. CASE Planned([do |-> "rename", path |-> Op1.to, from |-> Op1.path],
                     <<[path |-> Op1.path, action |-> "delete"],
                       [path |-> Op1.to, action |-> "write"]>>)
    <3>1. Op1.path \in File /\ Op1.to \in File
      BY <1>4, <1>op, OpType DEF ValidateMove, Validating
    <3>2. [do |-> "rename", path |-> Op1.to, from |-> Op1.path] \in Step
      BY <3>1 DEF Step
    <3>3. <<[path |-> Op1.path, action |-> "delete"],
            [path |-> Op1.to, action |-> "write"]>> \in Seq(Touch)
      BY <3>1 DEF Touch
    <3>. QED
      BY <2>2, <3>2, <3>3, PlannedType
  <2>. QED
    BY <1>4, <2>1, <2>2 DEF ValidateMove
<1>5. CASE ReadUpdate
  <2>1. CASE Refuse
    BY <2>1 DEF Refuse, TypeOK
  <2>2. CASE ~Refuse
    <3>1. Op1.path \in File /\ disk[Op1.path] # Absent
      BY <1>5, <2>2, <1>op, OpType DEF ReadUpdate, Validating, Exists
    <3>2. disk[Op1.path] \in Text
      BY <3>1 DEF TypeOK, Contents
    <3>. QED
      BY <1>5, <2>2, <3>2 DEF ReadUpdate, TypeOK
  <2>. QED
    BY <2>1, <2>2
<1>6. CASE ResolveHunk
  <2>1. CASE Refuse
    BY <2>1 DEF Refuse, TypeOK
  <2>2. CASE ~Refuse
    <3>1. Op1.hunks \in Seq(Hunk) /\ hunk - 1 \in DOMAIN Op1.hunks
      BY <1>6, <1>op, OpType DEF ResolveHunk, Validating
    <3>2. Op1.hunks[hunk - 1] \in Hunk
      BY <3>1, ElementOfSeq, LenProperties
    <3>3. (buffer \ {Op1.hunks[hunk - 1][1]}) \cup {Op1.hunks[hunk - 1][2]} \in Text
      BY <3>2 DEF Hunk, Text, TypeOK
    <3>4. hunk + 1 \in Nat \ {0}
      BY DEF TypeOK
    <3>. QED
      BY <1>6, <2>2, <3>3, <3>4 DEF ResolveHunk, TypeOK
  <2>. QED
    BY <2>1, <2>2
<1>7. CASE PlanUpdate
  <2>1. Op1.path \in File
    BY <1>7, <1>op, OpType DEF PlanUpdate, Validating
  <2>2. [do |-> "write", path |-> Op1.path, text |-> buffer] \in Step
    BY <2>1 DEF Step, TypeOK
  <2>3. <<[path |-> Op1.path, action |-> "edit"]>> \in Seq(Touch)
    BY <2>1 DEF Touch
  <2>. QED
    BY <1>7, <2>2, <2>3, PlannedType DEF PlanUpdate
<1>8. CASE StartApply
  BY <1>8 DEF StartApply, TypeOK
<1>9. CASE ApplyDelete
  <2>1. CASE Fail
    BY <2>1 DEF Fail, TypeOK
  <2>2. CASE ~Fail
    <3>. DEFINE path == plan[next].path
    <3>1. path \in File /\ disk[path] \in Text
      BY <1>9, <2>2, <1>step, StepType DEF ApplyDelete, Applying, Exists, TypeOK, Contents
    <3>2. [disk EXCEPT ![path] = Absent] \in [File -> Contents]
      BY DEF TypeOK, Contents
    <3>3. [undo |-> "restore", path |-> path, text |-> disk[path]] \in Undo
      BY <3>1 DEF Undo
    <3>. QED
      BY <1>9, <2>2, <3>2, <3>3, EffectType DEF ApplyDelete
  <2>. QED
    BY <2>1, <2>2
<1>10. CASE ApplyRename
  <2>1. CASE Fail
    BY <2>1 DEF Fail, TypeOK
  <2>2. CASE ~Fail
    <3>. DEFINE from == plan[next].from
                path == plan[next].path
    <3>1. path \in File /\ from \in File
      BY <1>10, <1>step, StepType DEF ApplyRename, Applying
    <3>2. Renamed(disk, from, path) \in [File -> Contents]
      BY <3>1 DEF TypeOK, Contents, Renamed
    <3>3. [undo |-> "rename", path |-> path, from |-> from] \in Undo
      BY <3>1 DEF Undo
    <3>. QED
      BY <1>10, <2>2, <3>2, <3>3, EffectType DEF ApplyRename
  <2>. QED
    BY <2>1, <2>2
<1>11. ASSUME Applying("write") PROVE UndoOfWrite(plan[next].path) \in Undo
  <2>1. plan[next].path \in File
    BY <1>11, <1>step, StepType DEF Applying
  <2>. QED
    BY <2>1 DEF UndoOfWrite, Undo, Exists, TypeOK, Contents
<1>12. CASE ApplyWrite
  <2>1. plan[next].text \in Text
    BY <1>12, <1>step, StepType DEF ApplyWrite, Applying
  <2>2. [disk EXCEPT ![plan[next].path] = plan[next].text] \in [File -> Contents]
    BY <2>1 DEF TypeOK, Contents
  <2>. QED
    BY <1>12, <1>11, <2>2, EffectType DEF ApplyWrite
<1>13. CASE WriteFails
  <2>1. [disk EXCEPT ![plan[next].path] = {}] \in [File -> Contents]
    BY DEF TypeOK, Contents, Text
  <2>. QED
    BY <1>13, <1>11, <2>1, EffectType DEF WriteFails
<1>14. CASE StepFails
  BY <1>14 DEF StepFails, Fail, TypeOK
<1>15. CASE Succeed
  <2>1. [path \in File |-> LastAction(path)] \in [File -> {"none", "write", "edit", "delete"}]
    BY LastActionType
  <2>. QED
    BY <1>15, <2>1 DEF Succeed, TypeOK
<1>16. ASSUME undo # <<>> PROVE undo[Len(undo)] \in Undo
  <2>1. Len(undo) \in 1..Len(undo) /\ undo \in Seq(Undo)
    BY <1>16, EmptySeq DEF TypeOK
  <2>. QED
    BY <2>1, ElementOfSeq
<1>17. CASE UndoLast
  <2>1. disk' \in [File -> Contents]
    BY <1>16, <1>17, UndoneType DEF UndoLast, TypeOK
  <2>2. /\ undo' \in Seq(Undo)
        /\ trail' \in Seq([File -> Contents])
        /\ Len(trail') = Len(undo') + 1
    BY <1>17, PopType DEF UndoLast
  <2>. QED
    BY <1>17, <2>1, <2>2 DEF UndoLast, PopUndo, TypeOK
<1>18. CASE UndoFails
  <2>1. disk' \in [File -> Contents]
    BY <1>18 DEF UndoFails, TypeOK, Contents, Text
  <2>2. /\ undo' \in Seq(Undo)
        /\ trail' \in Seq([File -> Contents])
        /\ Len(trail') = Len(undo') + 1
    BY <1>18, PopType DEF UndoFails
  <2>. QED
    BY <1>18, <2>1, <2>2 DEF UndoFails, PopUndo, TypeOK
<1>19. CASE RolledBack
  BY <1>19 DEF RolledBack, TypeOK
<1>20. CASE UNCHANGED vars
  BY <1>20 DEF vars, TypeOK
<1>. QED
  BY <1>1, <1>2, <1>3, <1>4, <1>5, <1>6, <1>7, <1>8, <1>9, <1>10, <1>12,
     <1>13, <1>14, <1>15, <1>17, <1>18, <1>19, <1>20
     DEF Next, Validate, Apply

LEMMA TypeInit == Init => TypeOK
<1>. SUFFICES ASSUME Init PROVE TypeOK
  OBVIOUS
<1>1. disk \in [File -> Contents] /\ patch \in Seq(Op) /\ denied \in SUBSET File
  BY PatchAssumption DEF Init
<1>2. <<disk>> \in Seq([File -> Contents]) /\ Len(<<disk>>) = 1
  BY <1>1
<1>3. {} \in Text /\ <<>> \in Seq(Step) /\ <<>> \in Seq(Touch) /\ <<>> \in Seq(Undo)
  BY DEF Text
<1>4. Len(trail) = Len(undo) + 1
  BY <1>2, EmptySeq DEF Init
<1>5. ledger \in [File -> {"none", "write", "edit", "delete"}]
  BY DEF Init
<1>6. trail \in Seq([File -> Contents])
  BY <1>2 DEF Init
<1>7. plan \in Seq(Step) /\ touched \in Seq(Touch) /\ undo \in Seq(Undo)
  BY <1>3 DEF Init
<1>8. next \in Nat \ {0} /\ hunk \in Nat \ {0}
  BY DEF Init
<1>11. undoFault \in BOOLEAN
  BY Zenon DEF Init
<1>10. buffer \in Text
  BY <1>3 DEF Init
<1>9. pc \in {"parse", "validate", "apply", "undo", "ok", "refused", "rolledback"}
  BY DEF Init
<1>. QED
  BY <1>1, <1>4, <1>5, <1>6, <1>7, <1>8, <1>9, <1>10, <1>11 DEF TypeOK

\* Type correctness of the whole call: in particular an undo record always
\* carries readable bytes to restore, and the trail is one longer than the
\* undo list (patch.py, apply_patch).
THEOREM TypeCorrect == Spec => []TypeOK
BY TypeInit, TypeNext, PTL DEF Spec
-----------------------------------------------------------------------------
\* The trail starts with the disk the call found, and ends one past the undo list.
LEMMA TrailEnds ==
  ASSUME TypeOK
  PROVE  /\ Len(undo) \in Nat /\ Len(trail) = Len(undo) + 1
         /\ DOMAIN undo = 1..Len(undo) /\ DOMAIN trail = 1..(Len(undo) + 1)
         /\ \A k \in DOMAIN undo : undo[k] \in Undo
         /\ \A k \in DOMAIN trail : trail[k] \in [File -> Contents]
BY ElementOfSeq, LenProperties DEF TypeOK

\* A step that moves control only.
LEMMA QuietInv ==
  ASSUME IInv, TypeOK',
         UNCHANGED <<disk, patch, plan, undo, trail, undoFault>>,
         pc' \in {"parse", "validate"} => Len(plan) = next' - 1,
         pc' = "apply" => Len(undo) = next' - 1,
         pc' \in {"parse", "validate", "refused", "rolledback"} => undo = <<>>,
         pc' \in {"undo", "rolledback"} \/ pc \notin {"undo", "rolledback"}
  PROVE  IInv'
<1>1. PlanFollowsPatch'
  BY DEF IInv, PlanFollowsPatch, Before
<1>2. UndoFollowsPlan'
  BY DEF IInv, UndoFollowsPlan, IsRename
<1>3. History'
  BY DEF IInv, History, StepOf, IsRename
<1>4. Appeared'
  BY DEF IInv, Appeared, Before
<1>5. Present'
  <2>1. \A p : AlreadyGone(p)' <=> AlreadyGone(p)
    BY DEF AlreadyGone, IsRename
  <2>2. DistinctTargets' <=> DistinctTargets
    BY DEF DistinctTargets
  <2>3. ASSUME pc' \in {"undo", "rolledback"}, ~undoFault', DistinctTargets',
               NEW p \in File
        PROVE  disk'[p] = trail'[Len(trail')][p] \/ AlreadyGone(p)'
    <3>1. CASE pc \in {"undo", "rolledback"}
      BY <2>1, <2>2, <2>3, <3>1 DEF IInv, Present
    <3>2. CASE pc \notin {"undo", "rolledback"}
      BY <3>2 DEF IInv, Present
    <3>. QED
      BY <3>1, <3>2
  <2>. QED
    BY <2>3 DEF IInv, Present
<1>. QED
  BY <1>1, <1>2, <1>3, <1>4, <1>5 DEF IInv

\* A step that adds an operation to the plan.
LEMMA PlannedInv ==
  ASSUME IInv, TypeOK', pc = "validate", next \in DOMAIN patch,
         NEW s \in Step, NEW entries, Planned(s, entries),
         s.do = "rename" =>
           /\ patch[next].op = "move"
           /\ patch[next].to = s.path
           /\ disk[s.path] = Absent
           /\ s.from # s.path
  PROVE  IInv'
<1>. USE DEF IInv
<1>1. Len(plan) = next - 1 /\ plan \in Seq(Step) /\ next \in Nat \ {0} /\ undo = <<>>
  BY DEF PlanFollowsPatch, Present, TypeOK
<1>2. /\ Len(plan') = next
      /\ plan'[next] = s
      /\ \A k \in DOMAIN plan' : k = next \/ (k \in DOMAIN plan /\ plan'[k] = plan[k])
  BY <1>1, AppendProperties, LenProperties DEF Planned
<1>3. disk = Before
  <2>1. Len(trail) = 1
    BY <1>1, TrailEnds, EmptySeq
  <2>. QED
    BY <2>1 DEF Present, Before
<1>4. PlanFollowsPatch'
  <2>1. \A k \in DOMAIN plan' :
          plan'[k].do = "rename" =>
            /\ k \in DOMAIN patch
            /\ patch[k].op = "move"
            /\ patch[k].to = plan'[k].path
            /\ Before[plan'[k].path] = Absent
            /\ plan'[k].from # plan'[k].path
    BY <1>2, <1>3 DEF PlanFollowsPatch
  <2>. QED
    BY <1>1, <1>2, <2>1 DEF PlanFollowsPatch, Planned, Before
<1>5. UndoFollowsPlan'
  BY <1>1 DEF UndoFollowsPlan, Planned
<1>6. History' /\ Appeared'
  BY <1>1 DEF History, Appeared, StepOf, IsRename, Before, Planned
<1>7. Present'
  BY <1>1 DEF Present, Planned
<1>. QED
  BY <1>4, <1>5, <1>6, <1>7

\* A planned step that took effect, whether or not it then failed.
LEMMA EffectInv ==
  ASSUME IInv, TypeOK', pc = "apply", next \in DOMAIN plan,
         NEW d \in [File -> Contents], NEW u \in Undo, NEW to \in {"apply", "undo"},
         Effect(d, u, to),
         StepOf(u, disk, d),
         IsRename(u) =>
           /\ plan[next].do = "rename"
           /\ plan[next].path = u.path
           /\ plan[next].from = u.from
  PROVE  IInv'
<1>. DEFINE n == Len(undo)
<1>. USE DEF IInv
<1>1. n = next - 1 /\ n \in Nat /\ next \in Nat /\ disk = trail[n + 1]
  BY TrailEnds DEF UndoFollowsPlan, Present, TypeOK
<1>2. /\ DOMAIN undo = 1..n /\ DOMAIN undo' = 1..(n + 1) /\ Len(undo') = n + 1
      /\ undo'[n + 1] = u
      /\ \A k \in 1..n : undo'[k] = undo[k]
  <2>1. undo \in Seq(Undo) /\ undo' = Append(undo, u)
    BY DEF TypeOK, Effect
  <2>. QED
    BY <2>1, AppendProperties, LenProperties
<1>3. /\ DOMAIN trail = 1..(n + 1) /\ DOMAIN trail' = 1..(n + 2) /\ Len(trail') = n + 2
      /\ trail'[n + 2] = d
      /\ \A k \in 1..(n + 1) : trail'[k] = trail[k]
  <2>1. trail \in Seq([File -> Contents]) /\ trail' = Append(trail, d) /\ Len(trail) = n + 1
    BY DEF TypeOK, Effect
  <2>. QED
    BY <2>1, <1>1, AppendProperties, LenProperties
<1>4. Before' = Before
  BY <1>1, <1>3 DEF Before
<1>5. PlanFollowsPatch'
  BY <1>4 DEF PlanFollowsPatch, Effect
<1>6. UndoFollowsPlan'
  <2>1. ASSUME NEW k \in 1..(n + 1), IsRename(undo'[k])
        PROVE  /\ k \in DOMAIN plan
               /\ plan[k].do = "rename"
               /\ plan[k].path = undo'[k].path
               /\ plan[k].from = undo'[k].from
    <3>1. CASE k = n + 1
      BY <1>1, <1>2, <2>1, <3>1 DEF IsRename
    <3>2. CASE k \in 1..n
      BY <1>2, <2>1, <3>2 DEF UndoFollowsPlan, IsRename
    <3>. QED
      BY <1>1, <3>1, <3>2
  <2>2. plan' = plan /\ Len(undo') = next' - 1
    BY <1>1, <1>2 DEF Effect
  <2>. QED
    BY <1>2, <2>1, <2>2 DEF UndoFollowsPlan, IsRename
<1>7. History'
  <2>1. ASSUME NEW k \in 1..(n + 1)
        PROVE  StepOf(undo'[k], trail'[k], trail'[k + 1])
    <3>1. CASE k = n + 1
      <4>1. undo'[k] = u /\ trail'[k] = disk /\ trail'[k + 1] = d
        BY <1>1, <1>2, <1>3, <3>1
      <4>. QED
        BY <4>1
    <3>2. CASE k \in 1..n
      <4>1. undo'[k] = undo[k] /\ trail'[k] = trail[k] /\ trail'[k + 1] = trail[k + 1]
        BY <1>1, <1>2, <1>3, <3>2
      <4>. QED
        BY <4>1, <1>2, <3>2 DEF History
    <3>. QED
      BY <1>1, <3>1, <3>2
  <2>. QED
    BY <1>2, <2>1 DEF History, StepOf, IsRename
<1>8. Appeared'
  <2>1. ASSUME NEW j \in 1..(n + 2), NEW p \in File,
               Before[p] = Absent, trail'[j][p] # Absent
        PROVE  \E i \in 1..(n + 1) :
                 /\ i < j
                 /\ undo'[i].path = p
                 /\ undo'[i].undo \in {"remove", "rename"}
    <3>1. CASE j \in 1..(n + 1)
      BY <1>1, <1>2, <1>3, <2>1, <3>1 DEF Appeared
    <3>2. CASE j = n + 2 /\ disk[p] # Absent
      <4>1. trail[n + 1][p] # Absent /\ n + 1 \in DOMAIN trail
        BY <1>1, <1>3, <3>2
      <4>2. PICK i \in 1..n : /\ i < n + 1
                              /\ undo[i].path = p
                              /\ undo[i].undo \in {"remove", "rename"}
        BY <4>1, <1>2, <2>1 DEF Appeared
      <4>. QED
        BY <4>2, <1>1, <1>2, <3>2
    <3>3. CASE j = n + 2 /\ disk[p] = Absent
      <4>1. d[p] # Absent
        BY <1>3, <2>1, <3>3
      <4>2. u.path = p
        <5>1. CASE IsRename(u)
          <6>1. disk \in [File -> Contents] /\ d = Renamed(disk, u.from, u.path)
            BY <5>1 DEF StepOf, TypeOK
          <6>. QED
            BY <4>1, <3>3, <6>1 DEF Renamed
        <5>2. CASE ~IsRename(u)
          BY <4>1, <3>3, <5>2 DEF StepOf
        <5>. QED
          BY <5>1, <5>2
      <4>3. u.undo \in {"remove", "rename"}
        <5>1. CASE u.undo = "restore"
          <6>1. u.text \in Text
            BY <5>1 DEF Undo
          <6>2. disk[p] = u.text
            BY <4>2, <5>1 DEF StepOf, IsRename
          <6>3. Absent \notin Text
            BY PatchAssumption DEF Absent, Text
          <6>. QED
            BY <6>1, <6>2, <6>3, <3>3
        <5>2. CASE u.undo # "restore"
          BY <5>2 DEF Undo
        <5>. QED
          BY <5>1, <5>2
      <4>. QED
        BY <4>2, <4>3, <1>1, <1>2, <3>3
    <3>. QED
      BY <1>1, <3>1, <3>2, <3>3
  <2>. QED
    BY <1>2, <1>3, <1>4, <2>1 DEF Appeared
<1>9. Present'
  <2>1. disk' = trail'[Len(trail')] /\ pc' \in {"apply", "undo"}
    BY <1>3 DEF Effect
  <2>. QED
    BY <2>1 DEF Present
<1>. QED
  BY <1>5, <1>6, <1>7, <1>8, <1>9

\* What popping a record leaves of the invariant, whatever it did to the disk.
LEMMA PopInv ==
  ASSUME IInv, TypeOK', pc = "undo", undo # <<>>, PopUndo
  PROVE  /\ PlanFollowsPatch'
         /\ UndoFollowsPlan'
         /\ History'
         /\ Appeared'
         /\ Before' = Before
<1>. DEFINE n == Len(undo)
<1>. USE DEF IInv
<1>1. /\ n \in Nat \ {0}
      /\ DOMAIN undo = 1..n /\ DOMAIN undo' = 1..(n - 1)
      /\ DOMAIN trail = 1..(n + 1) /\ DOMAIN trail' = 1..n
      /\ \A k \in 1..(n - 1) : undo'[k] = undo[k]
      /\ \A k \in 1..n : trail'[k] = trail[k]
  BY PopType, TrailEnds, LenProperties
<1>2. Before' = Before
  BY <1>1 DEF Before
<1>3. PlanFollowsPatch'
  BY <1>2 DEF PlanFollowsPatch, PopUndo
<1>4. UndoFollowsPlan'
  BY <1>1 DEF UndoFollowsPlan, PopUndo, IsRename
<1>5. History'
  <2>1. ASSUME NEW k \in 1..(n - 1)
        PROVE  StepOf(undo'[k], trail'[k], trail'[k + 1])
    <3>1. undo'[k] = undo[k] /\ trail'[k] = trail[k] /\ trail'[k + 1] = trail[k + 1]
      BY <1>1
    <3>2. k \in DOMAIN undo
      BY <1>1
    <3>. QED
      BY <3>1, <3>2 DEF History
  <2>. QED
    BY <1>1, <2>1 DEF History, StepOf, IsRename
<1>6. Appeared'
  <2>1. ASSUME NEW j \in 1..n, NEW p \in File,
               Before[p] = Absent, trail'[j][p] # Absent
        PROVE  \E i \in 1..(n - 1) :
                 /\ i < j
                 /\ undo'[i].path = p
                 /\ undo'[i].undo \in {"remove", "rename"}
    <3>1. j \in DOMAIN trail /\ trail[j][p] # Absent
      BY <1>1, <2>1
    <3>2. PICK i \in DOMAIN undo : /\ i < j
                                   /\ undo[i].path = p
                                   /\ undo[i].undo \in {"remove", "rename"}
      BY <3>1, <2>1 DEF Appeared
    <3>3. i \in 1..(n - 1)
      BY <3>2, <1>1
    <3>. QED
      BY <3>2, <3>3, <1>1
  <2>. QED
    BY <1>1, <1>2, <2>1 DEF Appeared
<1>. QED
  BY <1>2, <1>3, <1>4, <1>5, <1>6

\* Taking the last record back for real.
LEMMA UndoInv ==
  ASSUME IInv, TypeOK', UndoLast
  PROVE  IInv'
<1>. DEFINE n == Len(undo)
            r == undo[n]
<1>. USE DEF IInv
<1>1. pc = "undo" /\ undo # <<>> /\ PopUndo /\ undoFault' = undoFault /\ disk' = Undone(r, disk)
  BY DEF UndoLast
<1>2. PlanFollowsPatch' /\ UndoFollowsPlan' /\ History' /\ Appeared'
  BY <1>1, PopInv
<1>3. /\ n \in Nat \ {0}
      /\ DOMAIN undo = 1..n /\ DOMAIN undo' = 1..(n - 1)
      /\ DOMAIN trail = 1..(n + 1) /\ Len(trail) = n + 1 /\ Len(trail') = n
      /\ \A k \in 1..(n - 1) : undo'[k] = undo[k]
      /\ trail'[n] = trail[n]
      /\ r \in Undo
      /\ trail[n] \in [File -> Contents] /\ trail[n + 1] \in [File -> Contents]
  BY <1>1, PopType, TrailEnds, LenProperties
<1>4. StepOf(r, trail[n], trail[n + 1])
  BY <1>3 DEF History
<1>5. DistinctTargets' <=> DistinctTargets
  BY <1>1 DEF DistinctTargets, PopUndo
<1>6. ASSUME ~undoFault, DistinctTargets, NEW p \in File
      PROVE  disk'[p] = trail[n][p] \/ AlreadyGone(p)'
  <2>1. \A q \in File : disk[q] = trail[n + 1][q] \/ AlreadyGone(q)
    BY <1>1, <1>3, <1>6 DEF Present
  <2>2. ASSUME AlreadyGone(p), disk'[p] = Absent,
               ~(r.undo = "remove" /\ r.path = p)
        PROVE  AlreadyGone(p)'
    <3>1. PICK k \in 1..n : undo[k].undo = "remove" /\ undo[k].path = p
      BY <1>3, <2>2 DEF AlreadyGone
    <3>2. k \in 1..(n - 1)
      BY <3>1, <1>3, <2>2
    <3>3. k \in DOMAIN undo' /\ undo'[k].undo = "remove" /\ undo'[k].path = p
      BY <3>1, <3>2, <1>3
    <3>4. ASSUME NEW j \in DOMAIN undo', undo'[j].undo = "rename"
          PROVE  undo'[j].path # p
      <4>1. j \in DOMAIN undo /\ undo'[j] = undo[j]
        BY <1>3
      <4>. QED
        BY <4>1, <3>4, <2>2 DEF AlreadyGone, IsRename
    <3>. QED
      BY <3>3, <3>4, <2>2 DEF AlreadyGone, IsRename
  <2>3. CASE ~IsRename(r) /\ p = r.path
    <3>1. r \in [undo : {"restore"}, path : File, text : Text] \/ r \in [undo : {"remove"}, path : File]
      BY <1>3, <2>3 DEF Undo, IsRename
    <3>2. trail[n][p] = IF r.undo = "restore" THEN r.text ELSE Absent
      BY <1>4, <2>3 DEF StepOf
    <3>. QED
      BY <1>1, <2>3, <3>1, <3>2 DEF Undone, TypeOK
  <2>4. CASE ~IsRename(r) /\ p # r.path
    <3>1. disk'[p] = disk[p]
      BY <1>1, <1>3, <2>4 DEF Undone, TypeOK, Undo, IsRename
    <3>2. trail[n + 1][p] = trail[n][p]
      BY <1>4, <2>4 DEF StepOf
    <3>3. CASE disk[p] = trail[n + 1][p]
      BY <3>1, <3>2, <3>3
    <3>4. CASE AlreadyGone(p)
      <4>1. disk'[p] = Absent
        BY <3>1, <3>4 DEF AlreadyGone
      <4>. QED
        BY <2>2, <2>4, <3>4, <4>1
    <3>. QED
      BY <2>1, <3>3, <3>4
  <2>5. CASE IsRename(r)
    <3>. DEFINE to == r.path
                from == r.from
    <3>1. to \in File /\ from \in File
      BY <1>3, <2>5 DEF Undo, IsRename
    <3>2. /\ n \in DOMAIN plan /\ n \in DOMAIN patch
          /\ plan[n].do = "rename" /\ plan[n].path = to /\ plan[n].from = from
          /\ patch[n].op = "move" /\ patch[n].to = to
          /\ Before[to] = Absent
          /\ from # to
      BY <1>3, <2>5 DEF UndoFollowsPlan, PlanFollowsPatch
    <3>3. trail[n][from] # Absent /\ trail[n + 1] = Renamed(trail[n], from, to)
      BY <1>4, <2>5 DEF StepOf
    <3>4. disk[to] = trail[n][from]
      <4>1. ~AlreadyGone(to)
        BY <1>3, <2>5 DEF AlreadyGone
      <4>2. trail[n + 1][to] = trail[n][from]
        BY <1>3, <3>1, <3>2, <3>3 DEF Renamed
      <4>. QED
        BY <2>1, <3>1, <4>1, <4>2
    <3>5. disk' = Renamed(disk, to, from)
      <4>1. disk[to] # Absent
        BY <3>3, <3>4
      <4>. QED
        BY <1>1, <2>5, <4>1 DEF Undone, IsRename
    <3>6. CASE p = from
      <4>1. disk'[from] = disk[to]
        BY <3>1, <3>2, <3>5 DEF Renamed, TypeOK
      <4>. QED
        BY <3>4, <3>6, <4>1
    <3>7. CASE p = to
      <4>1. disk'[to] = Absent
        BY <3>1, <3>2, <3>5 DEF Renamed, TypeOK
      <4>2. CASE trail[n][to] = Absent
        BY <3>7, <4>1, <4>2
      <4>3. CASE trail[n][to] # Absent
        <5>1. PICK i \in DOMAIN undo : /\ i < n
                                       /\ undo[i].path = to
                                       /\ undo[i].undo \in {"remove", "rename"}
          <6>1. n \in DOMAIN trail
            BY <1>3
          <6>. QED
            BY <6>1, <3>1, <3>2, <4>3 DEF Appeared
        <5>2. \A k \in DOMAIN undo : IsRename(undo[k]) /\ undo[k].path = to => k = n
          <6>1. ASSUME NEW k \in DOMAIN undo, IsRename(undo[k]), undo[k].path = to
                PROVE  k \in DOMAIN patch /\ patch[k].op = "move" /\ patch[k].to = to
            BY <6>1 DEF UndoFollowsPlan, PlanFollowsPatch
          <6>. QED
            BY <6>1, <3>2, <1>6 DEF DistinctTargets
        <5>3. undo[i].undo = "remove" /\ i \in 1..(n - 1)
          BY <5>1, <5>2, <1>3 DEF IsRename
        <5>4. \A k \in DOMAIN undo' : IsRename(undo'[k]) => undo'[k].path # to
          BY <5>2, <1>3
        <5>. QED
          BY <5>1, <5>3, <5>4, <1>3, <3>7, <4>1 DEF AlreadyGone, IsRename
      <4>. QED
        BY <4>2, <4>3
    <3>8. CASE p \notin {from, to}
      <4>1. disk'[p] = disk[p]
        BY <3>1, <3>5, <3>8 DEF Renamed, TypeOK
      <4>2. trail[n + 1][p] = trail[n][p]
        BY <1>3, <3>1, <3>3, <3>8 DEF Renamed
      <4>3. CASE disk[p] = trail[n + 1][p]
        BY <4>1, <4>2, <4>3
      <4>4. CASE AlreadyGone(p)
        <5>1. disk'[p] = Absent
          BY <4>1, <4>4 DEF AlreadyGone
        <5>. QED
          BY <2>2, <2>5, <4>4, <5>1 DEF IsRename
      <4>. QED
        BY <2>1, <4>3, <4>4
    <3>. QED
      BY <3>6, <3>7, <3>8
  <2>. QED
    BY <2>3, <2>4, <2>5
<1>7. Present'
  <2>1. pc' = "undo"
    BY <1>1 DEF PopUndo
  <2>. QED
    BY <1>1, <1>3, <1>5, <1>6, <2>1 DEF Present
<1>. QED
  BY <1>2, <1>7

\* A record that could not be taken back.
LEMMA UndoFailsInv ==
  ASSUME IInv, TypeOK', UndoFails
  PROVE  IInv'
<1>1. PlanFollowsPatch' /\ UndoFollowsPlan' /\ History' /\ Appeared'
  BY PopInv DEF UndoFails
<1>2. Present'
  BY DEF UndoFails, PopUndo, Present
<1>. QED
  BY <1>1, <1>2 DEF IInv

-----------------------------------------------------------------------------
LEMMA InvInit == Init => IInv
<1>. SUFFICES ASSUME Init PROVE IInv
  OBVIOUS
<1>1. TypeOK
  BY TypeInit
<1>2. Len(trail) = 1 /\ trail[1] = disk /\ undo = <<>> /\ plan = <<>> /\ Len(plan) = 0
  BY EmptySeq DEF Init
<1>3. DOMAIN undo = {} /\ DOMAIN plan = {} /\ DOMAIN trail = {1}
  BY <1>1, <1>2, LenProperties, EmptySeq DEF TypeOK
<1>4. PlanFollowsPatch /\ UndoFollowsPlan /\ History
  BY <1>2, <1>3 DEF PlanFollowsPatch, UndoFollowsPlan, History, Init
<1>5. Appeared
  BY <1>2, <1>3 DEF Appeared, Before
<1>6. Present
  BY <1>2 DEF Present, Init
<1>. QED
  BY <1>1, <1>4, <1>5, <1>6 DEF IInv

\* Every action keeps the invariant.
LEMMA InvNext == IInv /\ [Next]_vars => IInv'
<1>. SUFFICES ASSUME IInv, [Next]_vars PROVE IInv'
  OBVIOUS
<1>type. TypeOK'
  BY TypeNext DEF IInv
<1>op. next \in DOMAIN patch => Op1 \in Op
  BY ElementOfSeq, LenProperties DEF TypeOK, Op1, IInv
<1>step. next \in DOMAIN plan => plan[next] \in Step
  BY ElementOfSeq, LenProperties DEF TypeOK, IInv
<1>refuse. ASSUME Refuse, pc \in {"parse", "validate"} PROVE IInv'
  <2>1. undo = <<>>
    BY <1>refuse DEF IInv, Present
  <2>. QED
    BY <1>refuse, <1>type, <2>1, QuietInv DEF Refuse
<1>fail. ASSUME Fail, pc = "apply" PROVE IInv'
  BY <1>fail, <1>type, QuietInv DEF Fail
<1>1. CASE Parse
  <2>1. CASE patch = <<>>
    BY <1>1, <2>1, <1>refuse DEF Parse
  <2>2. CASE patch # <<>>
    <3>1. Len(plan) = next - 1 /\ undo = <<>>
      BY <1>1 DEF Parse, IInv, PlanFollowsPatch, Present
    <3>. QED
      BY <1>1, <2>2, <3>1, <1>type, QuietInv DEF Parse
  <2>. QED
    BY <2>1, <2>2
<1>2. CASE ValidateAdd
  <2>1. [do |-> "write", path |-> Op1.path, text |-> Op1.text] \in Step
    BY <1>2, <1>op, OpType DEF Step, ValidateAdd, Validating
  <2>. QED
    BY <1>2, <2>1, <1>refuse, <1>type, PlannedInv DEF ValidateAdd, Validating
<1>3. CASE ValidateDelete
  <2>1. [do |-> "delete", path |-> Op1.path] \in Step
    BY <1>3, <1>op, OpType DEF Step, ValidateDelete, Validating
  <2>. QED
    BY <1>3, <2>1, <1>refuse, <1>type, PlannedInv DEF ValidateDelete, Validating
<1>4. CASE ValidateMove
  <2>1. CASE Refuse
    BY <1>4, <2>1, <1>refuse DEF ValidateMove, Validating
  <2>2. CASE ~Refuse
    <3>. DEFINE s == [do |-> "rename", path |-> Op1.to, from |-> Op1.path]
    <3>1. Exists(Op1.path) /\ ~Exists(Op1.to) /\ Op1.op = "move" /\ pc = "validate" /\ next \in DOMAIN patch
      BY <1>4, <2>2 DEF ValidateMove, Validating
    <3>2. s \in Step
      BY <3>1, <1>op, OpType DEF Step
    <3>3. disk[s.path] = Absent /\ s.from # s.path
      BY <3>1 DEF Exists
    <3>4. Planned(s, <<[path |-> Op1.path, action |-> "delete"],
                       [path |-> Op1.to, action |-> "write"]>>)
      BY <1>4, <2>2 DEF ValidateMove
    <3>5. patch[next].op = "move" /\ patch[next].to = s.path
      BY <3>1 DEF Op1
    <3>. HIDE DEF s
    <3>. QED
      BY <3>1, <3>2, <3>3, <3>4, <3>5, <1>type, PlannedInv
  <2>. QED
    BY <2>1, <2>2
<1>5. CASE ReadUpdate \/ ResolveHunk
  <2>1. CASE Refuse
    BY <1>5, <2>1, <1>refuse DEF ReadUpdate, ResolveHunk, Validating
  <2>2. CASE ~Refuse
    <3>1. Len(plan) = next - 1 /\ undo = <<>> /\ pc = "validate"
      BY <1>5 DEF ReadUpdate, ResolveHunk, Validating, IInv, PlanFollowsPatch, Present
    <3>2. UNCHANGED <<disk, patch, pc, next, plan, undo, trail, undoFault>>
      BY <1>5, <2>2 DEF ReadUpdate, ResolveHunk
    <3>. QED
      BY <3>1, <3>2, <1>type, QuietInv
  <2>. QED
    BY <2>1, <2>2
<1>6. CASE PlanUpdate
  <2>1. [do |-> "write", path |-> Op1.path, text |-> buffer] \in Step
    BY <1>6, <1>op, OpType DEF Step, PlanUpdate, Validating, IInv, TypeOK
  <2>. QED
    BY <1>6, <2>1, <1>type, PlannedInv DEF PlanUpdate, Validating
<1>7. CASE StartApply
  <2>1. undo = <<>> /\ Len(undo) = 0
    BY <1>7, EmptySeq DEF StartApply, IInv, Present
  <2>. QED
    BY <1>7, <2>1, <1>type, QuietInv DEF StartApply
<1>8. CASE ApplyDelete
  <2>1. CASE Fail
    BY <1>8, <2>1, <1>fail DEF ApplyDelete, Applying
  <2>2. CASE ~Fail
    <3>. DEFINE path == plan[next].path
                u == [undo |-> "restore", path |-> path, text |-> disk[path]]
                d == [disk EXCEPT ![path] = Absent]
    <3>1. path \in File /\ disk[path] \in Text
      BY <1>8, <2>2, <1>step, StepType DEF ApplyDelete, Applying, Exists, IInv, TypeOK, Contents
    <3>2. d \in [File -> Contents] /\ u \in Undo
      BY <3>1 DEF IInv, TypeOK, Contents, Undo
    <3>3. StepOf(u, disk, d) /\ ~IsRename(u)
      BY <3>1 DEF StepOf, IsRename, IInv, TypeOK
    <3>4. Effect(d, u, "apply") /\ pc = "apply" /\ next \in DOMAIN plan
      BY <1>8, <2>2 DEF ApplyDelete, Applying
    <3>. HIDE DEF u, d
    <3>. QED
      BY <3>2, <3>3, <3>4, <1>type, EffectInv
  <2>. QED
    BY <2>1, <2>2
<1>9. CASE ApplyRename
  <2>1. CASE Fail
    BY <1>9, <2>1, <1>fail DEF ApplyRename, Applying
  <2>2. CASE ~Fail
    <3>. DEFINE from == plan[next].from
                path == plan[next].path
                u == [undo |-> "rename", path |-> path, from |-> from]
                d == Renamed(disk, from, path)
    <3>1. path \in File /\ from \in File /\ disk[from] # Absent /\ plan[next].do = "rename"
      BY <1>9, <2>2, <1>step, StepType DEF ApplyRename, Applying, Exists
    <3>2. d \in [File -> Contents] /\ u \in Undo
      BY <3>1 DEF IInv, TypeOK, Contents, Undo, Renamed
    <3>3. StepOf(u, disk, d) /\ u.path = path /\ u.from = from
      BY <3>1 DEF StepOf, IsRename
    <3>4. Effect(d, u, "apply") /\ pc = "apply" /\ next \in DOMAIN plan
      BY <1>9, <2>2 DEF ApplyRename, Applying
    <3>. HIDE DEF u, d
    <3>. QED
      BY <3>1, <3>2, <3>3, <3>4, <1>type, EffectInv
  <2>. QED
    BY <2>1, <2>2
<1>10. ASSUME Applying("write"), NEW to \in {"apply", "undo"}, NEW text \in Text,
              Effect([disk EXCEPT ![plan[next].path] = text], UndoOfWrite(plan[next].path), to)
       PROVE  IInv'
  <2>. DEFINE path == plan[next].path
              u == UndoOfWrite(path)
              d == [disk EXCEPT ![path] = text]
  <2>1. path \in File
    BY <1>10, <1>step, StepType DEF Applying
  <2>2. d \in [File -> Contents] /\ u \in Undo
    BY <2>1, <1>10 DEF IInv, TypeOK, Contents, Undo, UndoOfWrite, Exists
  <2>3. StepOf(u, disk, d) /\ ~IsRename(u)
    BY <2>1 DEF StepOf, IsRename, UndoOfWrite, Exists, IInv, TypeOK
  <2>4. pc = "apply" /\ next \in DOMAIN plan /\ Effect(d, u, to)
    BY <1>10 DEF Applying
  <2>. HIDE DEF u, d
  <2>. QED
    BY <2>2, <2>3, <2>4, <1>type, EffectInv
<1>11. CASE ApplyWrite
  <2>1. plan[next].text \in Text
    BY <1>11, <1>step, StepType DEF ApplyWrite, Applying
  <2>. QED
    BY <1>10, <1>11, <2>1 DEF ApplyWrite
<1>12. CASE WriteFails
  <2>1. {} \in Text
    BY DEF Text
  <2>. QED
    BY <1>10, <1>12, <2>1 DEF WriteFails
<1>13. CASE StepFails
  BY <1>13, <1>fail DEF StepFails
<1>14. CASE Succeed
  BY <1>14, <1>type, QuietInv DEF Succeed
<1>15. CASE UndoLast
  BY <1>15, <1>type, UndoInv
<1>16. CASE UndoFails
  BY <1>16, <1>type, UndoFailsInv
<1>17. CASE RolledBack
  BY <1>17, <1>type, QuietInv DEF RolledBack
<1>18. CASE UNCHANGED vars
  BY <1>18, <1>type, QuietInv DEF vars, IInv, PlanFollowsPatch, UndoFollowsPlan, Present
<1>. QED
  BY <1>1, <1>2, <1>3, <1>4, <1>5, <1>6, <1>7, <1>8, <1>9, <1>11, <1>12,
     <1>13, <1>14, <1>15, <1>16, <1>17, <1>18
     DEF Next, Validate, Apply

LEMMA InvRollback == IInv => RollbackExact
<1>. SUFFICES ASSUME IInv, pc \in {"refused", "rolledback"}, ~undoFault, DistinctTargets
              PROVE  disk = Before
  BY DEF RollbackExact
<1>1. undo = <<>> /\ Len(trail) = 1 /\ DOMAIN undo = {}
  BY TrailEnds, EmptySeq DEF IInv, Present
<1>2. CASE pc = "refused"
  BY <1>1, <1>2 DEF IInv, Present, Before
<1>3. CASE pc = "rolledback"
  <2>1. \A p \in File : disk[p] = trail[1][p]
    BY <1>1, <1>3 DEF IInv, Present, AlreadyGone
  <2>2. disk \in [File -> Contents] /\ trail[1] \in [File -> Contents]
    BY <1>1, TrailEnds DEF IInv, TypeOK
  <2>. QED
    BY <2>1, <2>2 DEF Before
<1>. QED
  BY <1>2, <1>3

\* Whatever the envelope, the disk and the fault: a call that reports failure
\* leaves every file as it found it, unless an undo failed itself or two Moves
\* share a destination (patch.py, the undo list of apply_patch).
THEOREM RollbackCorrect == Spec => []RollbackExact
BY InvInit, InvNext, InvRollback, PTL DEF Spec
-----------------------------------------------------------------------------
(* The permission engine is asked at validation only; what it refused is    *)
(* nowhere in the plan, and so nowhere in the undo list.                   *)

Allowed(entry) ==
  /\ entry.path \notin denied
  /\ "from" \in DOMAIN entry => entry.from \notin denied

OnlyAllowed ==
  /\ \A k \in DOMAIN plan : Allowed(plan[k])
  /\ \A k \in DOMAIN undo : Allowed(undo[k])

\* An Update past its reading has passed its gate.
Gated ==
  /\ pc = "parse" => hunk = 1
  /\ pc = "validate" /\ next \in DOMAIN patch /\ hunk # 1 => Op1.path \notin denied

LEMMA GatedNext == TypeOK /\ Gated /\ [Next]_vars => Gated'
<1>. SUFFICES ASSUME TypeOK, Gated, [Next]_vars PROVE Gated'
  OBVIOUS
<1>. USE DEF Gated, Op1
<1>1. CASE Parse
  BY <1>1 DEF Parse, Refuse
<1>2. CASE ValidateAdd \/ ValidateDelete \/ ValidateMove \/ PlanUpdate
  BY <1>2 DEF ValidateAdd, ValidateDelete, ValidateMove, PlanUpdate, Planned, Refuse
<1>3. CASE ReadUpdate \/ ResolveHunk
  <2>1. CASE Refuse
    BY <1>3, <2>1 DEF ReadUpdate, ResolveHunk, Validating, Refuse
  <2>2. CASE ReadUpdate /\ ~Refuse
    <3>1. Op1.path \notin denied /\ UNCHANGED <<patch, denied, pc, next>> /\ pc = "validate"
      BY <2>2 DEF ReadUpdate, Validating
    <3>. QED
      BY <3>1
  <2>3. CASE ResolveHunk /\ ~Refuse
    <3>1. UNCHANGED <<patch, denied, pc, next>> /\ pc = "validate" /\ next \in DOMAIN patch
      BY <2>3 DEF ResolveHunk, Validating
    <3>2. hunk # 1
      <4>1. 0 \notin DOMAIN Op1.hunks
        <5>1. Op1 \in Op
          BY <3>1, ElementOfSeq, LenProperties DEF TypeOK
        <5>2. Op1.op = "update"
          BY <2>3 DEF ResolveHunk, Validating
        <5>. QED
          BY <5>1, <5>2, OpType, LenProperties
      <4>. QED
        BY <2>3, <4>1 DEF ResolveHunk
    <3>. QED
      BY <3>1, <3>2
  <2>. QED
    BY <1>3, <2>1, <2>2, <2>3
<1>4. CASE StartApply \/ Succeed \/ RolledBack \/ StepFails
  BY <1>4 DEF StartApply, Succeed, RolledBack, StepFails, Fail
<1>5. CASE ApplyDelete \/ ApplyRename \/ ApplyWrite \/ WriteFails
  <2>1. pc' \in {"apply", "undo"}
    BY <1>5 DEF ApplyDelete, ApplyRename, ApplyWrite, WriteFails, Effect, Fail
  <2>. QED
    BY <2>1
<1>6. CASE UndoLast \/ UndoFails
  <2>1. pc' = "undo"
    BY <1>6 DEF UndoLast, UndoFails, PopUndo
  <2>. QED
    BY <2>1
<1>7. CASE UNCHANGED vars
  BY <1>7 DEF vars
<1>. QED
  BY <1>1, <1>2, <1>3, <1>4, <1>5, <1>6, <1>7 DEF Next, Validate, Apply

\* What a planned step or an undo record may name.
LEMMA PushAllowed ==
  ASSUME NEW S, NEW s \in Seq(S), NEW e \in S,
         \A k \in DOMAIN s : Allowed(s[k]), Allowed(e)
  PROVE  \A k \in DOMAIN Append(s, e) : Allowed(Append(s, e)[k])
<1>1. DOMAIN Append(s, e) = 1..(Len(s) + 1) /\ DOMAIN s = 1..Len(s) /\ Len(s) \in Nat
  BY AppendProperties, LenProperties
<1>2. ASSUME NEW k \in 1..(Len(s) + 1) PROVE Allowed(Append(s, e)[k])
  <2>1. CASE k = Len(s) + 1
    BY <2>1, AppendProperties
  <2>2. CASE k \in 1..Len(s)
    <3>1. Append(s, e)[k] = s[k]
      BY <2>2, AppendProperties
    <3>. QED
      BY <3>1, <2>2, <1>1
  <2>. QED
    BY <1>1, <2>1, <2>2
<1>. QED
  BY <1>1, <1>2

LEMMA AllowedNext == TypeOK /\ Gated /\ OnlyAllowed /\ [Next]_vars => OnlyAllowed'
<1>. SUFFICES ASSUME TypeOK, Gated, OnlyAllowed, [Next]_vars PROVE OnlyAllowed'
  OBVIOUS
<1>op. next \in DOMAIN patch => Op1 \in Op
  BY ElementOfSeq, LenProperties DEF TypeOK, Op1
<1>step. next \in DOMAIN plan => plan[next] \in Step /\ Allowed(plan[next])
  BY ElementOfSeq, LenProperties DEF TypeOK, OnlyAllowed
<1>quiet. ASSUME UNCHANGED <<denied, plan, undo>> PROVE OnlyAllowed'
  BY <1>quiet DEF OnlyAllowed, Allowed
<1>plan. ASSUME NEW s \in Step, NEW entries, Planned(s, entries), Allowed(s) PROVE OnlyAllowed'
  <2>1. plan \in Seq(Step) /\ plan' = Append(plan, s) /\ undo' = undo /\ denied' = denied
    BY <1>plan DEF TypeOK, Planned
  <2>2. \A k \in DOMAIN Append(plan, s) : Allowed(Append(plan, s)[k])
    BY <2>1, <1>plan, PushAllowed DEF OnlyAllowed
  <2>. QED
    BY <2>1, <2>2 DEF OnlyAllowed, Allowed
<1>effect. ASSUME NEW d, NEW u \in Undo, NEW to, Effect(d, u, to), Allowed(u) PROVE OnlyAllowed'
  <2>1. undo \in Seq(Undo) /\ undo' = Append(undo, u) /\ plan' = plan /\ denied' = denied
    BY <1>effect DEF TypeOK, Effect
  <2>2. \A k \in DOMAIN Append(undo, u) : Allowed(Append(undo, u)[k])
    BY <2>1, <1>effect, PushAllowed DEF OnlyAllowed
  <2>. QED
    BY <2>1, <2>2 DEF OnlyAllowed, Allowed
<1>pop. ASSUME undo # <<>>, PopUndo PROVE OnlyAllowed'
  <2>1. \A k \in DOMAIN undo' : k \in DOMAIN undo /\ undo'[k] = undo[k]
    BY <1>pop, PopType, TrailEnds, LenProperties
  <2>. QED
    BY <1>pop, <2>1 DEF OnlyAllowed, Allowed, PopUndo
<1>1. CASE Parse \/ ReadUpdate \/ ResolveHunk \/ StartApply \/ StepFails \/ Succeed \/ RolledBack
  BY <1>1, <1>quiet DEF Parse, ReadUpdate, ResolveHunk, StartApply, StepFails, Succeed,
     RolledBack, Refuse, Fail
<1>2. CASE ValidateAdd
  <2>1. /\ [do |-> "write", path |-> Op1.path, text |-> Op1.text] \in Step
        /\ Op1.path \notin denied => Allowed([do |-> "write", path |-> Op1.path, text |-> Op1.text])
    BY <1>2, <1>op, OpType DEF Step, ValidateAdd, Validating, Allowed
  <2>. QED
    BY <1>2, <2>1, <1>plan, <1>quiet DEF ValidateAdd, Refuse
<1>3. CASE ValidateDelete
  <2>1. /\ [do |-> "delete", path |-> Op1.path] \in Step
        /\ Op1.path \notin denied => Allowed([do |-> "delete", path |-> Op1.path])
    BY <1>3, <1>op, OpType DEF Step, ValidateDelete, Validating, Allowed
  <2>. QED
    BY <1>3, <2>1, <1>plan, <1>quiet DEF ValidateDelete, Refuse
<1>4. CASE ValidateMove
  <2>1. [do |-> "rename", path |-> Op1.to, from |-> Op1.path] \in Step
    BY <1>4, <1>op, OpType DEF Step, ValidateMove, Validating
  <2>2. {Op1.path, Op1.to} \cap denied = {}
          => Allowed([do |-> "rename", path |-> Op1.to, from |-> Op1.path])
    BY DEF Allowed
  <2>. QED
    BY <1>4, <2>1, <2>2, <1>plan, <1>quiet DEF ValidateMove, Refuse
<1>5. CASE PlanUpdate
  <2>1. [do |-> "write", path |-> Op1.path, text |-> buffer] \in Step
    BY <1>5, <1>op, OpType DEF Step, PlanUpdate, Validating, TypeOK
  <2>2. Op1.path \notin denied
    <3>1. Len(Op1.hunks) \in Nat
      BY <1>5, <1>op, OpType, LenProperties DEF PlanUpdate, Validating
    <3>. QED
      BY <1>5, <3>1 DEF PlanUpdate, Validating, Gated
  <2>3. Allowed([do |-> "write", path |-> Op1.path, text |-> buffer])
    BY <2>2 DEF Allowed
  <2>. QED
    BY <1>5, <2>1, <2>3, <1>plan DEF PlanUpdate
<1>6. CASE ApplyDelete
  <2>1. CASE Fail
    BY <2>1, <1>quiet DEF Fail
  <2>2. CASE ~Fail
    <3>. DEFINE path == plan[next].path
                u == [undo |-> "restore", path |-> path, text |-> disk[path]]
    <3>1. path \in File /\ disk[path] \in Text /\ path \notin denied
      BY <1>6, <2>2, <1>step, StepType DEF ApplyDelete, Applying, Exists, TypeOK, Contents, Allowed
    <3>2. u \in Undo /\ Allowed(u)
      BY <3>1 DEF Undo, Allowed
    <3>3. Effect([disk EXCEPT ![path] = Absent], u, "apply")
      BY <1>6, <2>2 DEF ApplyDelete
    <3>. QED
      BY <3>2, <3>3, <1>effect
  <2>. QED
    BY <2>1, <2>2
<1>7. CASE ApplyRename
  <2>1. CASE Fail
    BY <2>1, <1>quiet DEF Fail
  <2>2. CASE ~Fail
    <3>. DEFINE from == plan[next].from
                path == plan[next].path
                u == [undo |-> "rename", path |-> path, from |-> from]
    <3>1. plan[next] \in [do : {"rename"}, path : File, from : File]
      BY <1>7, <1>step DEF ApplyRename, Applying, Step
    <3>2. path \in File /\ from \in File /\ path \notin denied /\ from \notin denied
      BY <3>1, <1>7, <1>step DEF ApplyRename, Applying, Allowed
    <3>3. u \in Undo /\ Allowed(u)
      BY <3>2 DEF Undo, Allowed
    <3>4. Effect(Renamed(disk, from, path), u, "apply")
      BY <1>7, <2>2 DEF ApplyRename
    <3>. QED
      BY <3>3, <3>4, <1>effect
  <2>. QED
    BY <2>1, <2>2
<1>8. CASE ApplyWrite \/ WriteFails
  <2>. DEFINE path == plan[next].path
  <2>1. path \in File /\ path \notin denied
    BY <1>8, <1>step, StepType DEF ApplyWrite, WriteFails, Applying, Allowed
  <2>2. UndoOfWrite(path) \in Undo /\ Allowed(UndoOfWrite(path))
    BY <2>1 DEF UndoOfWrite, Undo, Exists, TypeOK, Contents, Allowed
  <2>. QED
    BY <1>8, <2>2, <1>effect DEF ApplyWrite, WriteFails
<1>9. CASE UndoLast \/ UndoFails
  BY <1>9, <1>pop DEF UndoLast, UndoFails
<1>10. CASE UNCHANGED vars
  BY <1>10, <1>quiet DEF vars
<1>. QED
  BY <1>1, <1>2, <1>3, <1>4, <1>5, <1>6, <1>7, <1>8, <1>9, <1>10
     DEF Next, Validate, Apply

\* A step leaves every refused path alone.
LEMMA DeniedStep ==
  ASSUME TypeOK, OnlyAllowed, [Next]_vars, NEW p \in denied
  PROVE  disk'[p] = disk[p]
<1>1. disk \in [File -> Contents] /\ p \in File
  BY DEF TypeOK
<1>step. next \in DOMAIN plan => plan[next] \in Step /\ Allowed(plan[next])
  BY ElementOfSeq, LenProperties DEF TypeOK, OnlyAllowed
<1>2. CASE ApplyDelete \/ ApplyWrite \/ WriteFails
  BY <1>1, <1>2, <1>step DEF ApplyDelete, ApplyWrite, WriteFails, Applying, Fail, Effect, Allowed
<1>3. CASE ApplyRename
  <2>1. plan[next] \in [do : {"rename"}, path : File, from : File] /\ Allowed(plan[next])
    BY <1>3, <1>step DEF ApplyRename, Applying, Step
  <2>2. plan[next].path # p /\ plan[next].from # p
    BY <2>1 DEF Allowed
  <2>. QED
    BY <1>1, <1>3, <2>2 DEF ApplyRename, Fail, Effect, Renamed
<1>4. CASE UndoLast \/ UndoFails
  <2>1. undo[Len(undo)] \in Undo /\ Allowed(undo[Len(undo)])
    <3>1. Len(undo) \in DOMAIN undo
      BY <1>4, EmptySeq, LenProperties DEF TypeOK, UndoLast, UndoFails
    <3>. QED
      BY <3>1, TrailEnds DEF OnlyAllowed
  <2>2. undo[Len(undo)].path # p
    BY <2>1 DEF Allowed
  <2>3. undo[Len(undo)].undo = "rename" => undo[Len(undo)].from # p
    BY <2>1 DEF Allowed, Undo
  <2>4. CASE UndoFails
    BY <1>1, <2>2, <2>4 DEF UndoFails
  <2>5. CASE UndoLast
    BY <1>1, <2>1, <2>2, <2>3, <2>5 DEF UndoLast, Undone, Renamed, Undo
  <2>. QED
    BY <1>4, <2>4, <2>5
<1>. QED
  BY <1>2, <1>3, <1>4
  DEF Next, Validate, Apply, Parse, ValidateAdd, ValidateDelete, ValidateMove,
      ReadUpdate, ResolveHunk, PlanUpdate, StartApply, StepFails, Succeed,
      RolledBack, Refuse, Planned, Fail, vars

LEMMA AllowedInit == Init => OnlyAllowed /\ Gated
<1>. SUFFICES ASSUME Init PROVE OnlyAllowed /\ Gated
  OBVIOUS
<1>1. plan = <<>> /\ undo = <<>>
  BY DEF Init
<1>2. DOMAIN plan = {} /\ DOMAIN undo = {}
  BY <1>1
<1>3. OnlyAllowed
  BY <1>2 DEF OnlyAllowed
<1>4. Gated
  BY DEF Init, Gated
<1>. QED
  BY <1>3, <1>4

\* No moment of the call writes a path the permission engine refused, not even
\* its rollback (patch.py, _gate and _gate_move run before any effect).
THEOREM DeniedNeverWritten == Spec => DeniedUntouched
<1>1. TypeOK /\ OnlyAllowed /\ [Next]_vars => [\A path \in denied : disk'[path] = disk[path]]_vars
  BY DeniedStep
<1>. QED
  BY <1>1, TypeInit, TypeNext, AllowedInit, AllowedNext, GatedNext, PTL DEF Spec, DeniedUntouched
-----------------------------------------------------------------------------
(***************************************************************************)
(* The ledger.  What ties it to the disk is the plan: every entry is of a  *)
(* planned step, in the order of the steps, and of the steps done so far   *)
(* the last one that touches a path decides what the disk holds there.     *)
(***************************************************************************)

\* The paths a planned step changes, and whether a path is gone after it.
Touches(s) == IF s.do = "rename" THEN {s.path, s.from} ELSE {s.path}
Erases(s, p) == s.do = "delete" \/ (s.do = "rename" /\ p = s.from)

\* Entry j of the ledger is of step owner[j].
Owners(owner) ==
  /\ owner \in [DOMAIN touched -> DOMAIN plan]
  /\ \A j \in DOMAIN touched :
       /\ touched[j].path \in Touches(plan[owner[j]])
       /\ touched[j].action = "delete" <=> Erases(plan[owner[j]], touched[j].path)
  /\ \A i, j \in DOMAIN touched : i <= j => owner[i] <= owner[j]
  /\ \A k \in DOMAIN plan : \A p \in Touches(plan[k]) :
       \E j \in DOMAIN touched : owner[j] = k /\ touched[j].path = p

Recorded == \E owner \in [DOMAIN touched -> DOMAIN plan] : Owners(owner)

\* Step k is done, and touches p.
Did(k, p) == k \in DOMAIN plan /\ k < next /\ p \in Touches(plan[k])

Applied ==
  pc \in {"apply", "ok"} =>
    \A p \in File :
      /\ disk[p] # Before[p] => \E k \in DOMAIN plan : Did(k, p)
      /\ \A k \in DOMAIN plan :
           Did(k, p) /\ (\A i \in DOMAIN plan : Did(i, p) => i <= k)
             => (disk[p] = Absent <=> Erases(plan[k], p))

LedgerInv ==
  /\ Recorded
  /\ Applied
  /\ pc # "ok" => ledger = [p \in File |-> "none"]
  /\ LedgerAccountsForDisk

-----------------------------------------------------------------------------
\* Nothing is written before the plan is complete.
LEMMA UntouchedBefore ==
  ASSUME IInv, pc \in {"parse", "validate", "refused"}
  PROVE  disk = Before
<1>1. Len(trail) = 1
  BY TrailEnds, EmptySeq DEF IInv, Present
<1> QED
  BY <1>1 DEF IInv, Present, Before

\* The entries of a step join the ledger with it.
LEMMA RecordedPlanned ==
  ASSUME TypeOK, Recorded, NEW s \in Step, NEW entries \in Seq(Touch), Planned(s, entries),
         \A j \in DOMAIN entries :
           /\ entries[j].path \in Touches(s)
           /\ entries[j].action = "delete" <=> Erases(s, entries[j].path),
         \A p \in Touches(s) : \E j \in DOMAIN entries : entries[j].path = p
  PROVE  Recorded'
<1>1. PICK owner \in [DOMAIN touched -> DOMAIN plan] : Owners(owner)
  BY DEF Recorded
<1>2. PICK n \in Nat, m \in Nat, l \in Nat :
        /\ n = Len(touched) /\ m = Len(entries) /\ l = Len(plan)
        /\ DOMAIN touched = 1..n /\ DOMAIN entries = 1..m /\ DOMAIN plan = 1..l
  BY LenProperties DEF TypeOK
<1>old. \A k \in 1..l : \A p \in Touches(plan[k]) :
          \E j \in 1..n : owner[j] = k /\ touched[j].path = p
  <2>1. \A k \in DOMAIN plan : \A p \in Touches(plan[k]) :
          \E j \in DOMAIN touched : owner[j] = k /\ touched[j].path = p
    BY <1>1, Zenon DEF Owners
  <2> SUFFICES ASSUME NEW k \in 1..l, NEW p \in Touches(plan[k])
               PROVE  \E j \in 1..n : owner[j] = k /\ touched[j].path = p
    OBVIOUS
  <2>2. k \in DOMAIN plan
    BY <1>2
  <2>3. PICK j \in DOMAIN touched : owner[j] = k /\ touched[j].path = p
    BY <2>1, <2>2, Zenon
  <2>4. j \in 1..n
    BY <1>2
  <2> QED
    BY <2>3, <2>4, Zenon
<1>3. /\ DOMAIN touched' = 1..(n + m)
      /\ \A j \in 1..n : touched'[j] = touched[j]
      /\ \A j \in 1..m : touched'[n + j] = entries[j]
  <2>1. touched' = touched \o entries /\ touched \in Seq(Touch)
    BY DEF Planned, TypeOK
  <2> QED
    BY <1>2, <2>1, ConcatProperties, LenProperties
<1>4. /\ DOMAIN plan' = 1..(l + 1) /\ plan'[l + 1] = s
      /\ \A k \in 1..l : plan'[k] = plan[k]
  <2>1. plan' = Append(plan, s) /\ plan \in Seq(Step)
    BY DEF Planned, TypeOK
  <2> QED
    BY <1>2, <2>1, AppendProperties, LenProperties
<1> DEFINE after == [j \in 1..(n + m) |-> IF j <= n THEN owner[j] ELSE l + 1]
<1>5. /\ \A j \in 1..n : after[j] = owner[j] /\ owner[j] \in 1..l
      /\ \A j \in 1..m : after[n + j] = l + 1
      /\ after \in [1..(n + m) -> 1..(l + 1)]
  <2>1. \A j \in 1..n : owner[j] \in 1..l
    BY <1>2
  <2>2. \A j \in 1..m : n + j \in 1..(n + m) /\ ~(n + j <= n)
    OBVIOUS
  <2>3. \A j \in 1..n : j \in 1..(n + m) /\ j <= n
    OBVIOUS
  <2> QED
    BY <2>1, <2>2, <2>3
<1>6. \A j \in 1..(n + m) : j \in 1..n \/ \E i \in 1..m : j = n + i
  <2> SUFFICES ASSUME NEW j \in 1..(n + m), j \notin 1..n PROVE j - n \in 1..m /\ j = n + (j - n)
    OBVIOUS
  <2> QED
    OBVIOUS
<1> HIDE DEF after
<1>7. ASSUME NEW j \in 1..(n + m)
      PROVE  /\ touched'[j].path \in Touches(plan'[after[j]])
             /\ touched'[j].action = "delete" <=> Erases(plan'[after[j]], touched'[j].path)
  <2>1. CASE j \in 1..n
    <3>1. touched'[j] = touched[j] /\ plan'[after[j]] = plan[owner[j]]
      BY <1>3, <1>4, <1>5, <2>1
    <3> QED
      BY <1>1, <1>2, <2>1, <3>1 DEF Owners
  <2>2. ASSUME NEW i \in 1..m, j = n + i
        PROVE  /\ touched'[j].path \in Touches(plan'[after[j]])
               /\ touched'[j].action = "delete" <=> Erases(plan'[after[j]], touched'[j].path)
    <3>1. touched'[j] = entries[i] /\ plan'[after[j]] = s
      BY <1>3, <1>4, <1>5, <2>2
    <3> QED
      BY <1>2, <3>1
  <2> QED
    BY <1>6, <2>1, <2>2
<1>8. ASSUME NEW i \in 1..(n + m), NEW j \in 1..(n + m), i <= j PROVE after[i] <= after[j]
  <2>1. CASE j \in 1..n
    <3>1. i \in 1..n
      BY <1>8, <2>1
    <3> QED
      BY <1>1, <1>2, <1>5, <1>8, <2>1, <3>1 DEF Owners
  <2>2. CASE \E k \in 1..m : j = n + k
    <3>1. after[j] = l + 1 /\ after[i] \in 1..(l + 1)
      BY <1>5, <2>2
    <3> QED
      BY <3>1
  <2> QED
    BY <1>6, <2>1, <2>2
<1>9. ASSUME NEW k \in 1..(l + 1), NEW p \in Touches(plan'[k])
      PROVE  \E j \in 1..(n + m) : after[j] = k /\ touched'[j].path = p
  <2>1. CASE k = l + 1
    <3>1. PICK j \in 1..m : entries[j].path = p
      BY <1>2, <1>4, <2>1
    <3>2. n + j \in 1..(n + m) /\ after[n + j] = k /\ touched'[n + j].path = p
      BY <1>3, <1>5, <2>1, <3>1
    <3> QED
      BY <3>2
  <2>2. CASE k # l + 1
    <3>1. k \in 1..l /\ p \in Touches(plan[k])
      BY <1>4, <2>2
    <3>2. PICK j \in 1..n : owner[j] = k /\ touched[j].path = p
      BY <1>old, <3>1
    <3>3. j \in 1..(n + m) /\ after[j] = k /\ touched'[j].path = p
      BY <1>3, <1>5, <3>2
    <3> QED
      BY <3>3
  <2> QED
    BY <2>1, <2>2
<1>10. Owners(after)'
  <2>1. \A k \in DOMAIN plan' : \A p \in Touches(plan'[k]) :
          \E j \in DOMAIN touched' : after[j] = k /\ touched'[j].path = p
    <3> SUFFICES ASSUME NEW k \in DOMAIN plan', NEW p \in Touches(plan'[k])
                 PROVE  \E j \in DOMAIN touched' : after[j] = k /\ touched'[j].path = p
      OBVIOUS
    <3>1. k \in 1..(l + 1)
      BY <1>4
    <3>2. PICK j \in 1..(n + m) : after[j] = k /\ touched'[j].path = p
      BY <1>9, <3>1, Zenon
    <3>3. j \in DOMAIN touched'
      BY <1>3
    <3> QED
      BY <3>2, <3>3, Zenon
  <2>2. after \in [DOMAIN touched' -> DOMAIN plan']
    BY <1>3, <1>4, <1>5
  <2>3. \A i, j \in DOMAIN touched' : i <= j => after[i] <= after[j]
    BY <1>3, <1>8
  <2>4. \A j \in DOMAIN touched' :
           /\ touched'[j].path \in Touches(plan'[after[j]])
           /\ touched'[j].action = "delete" <=> Erases(plan'[after[j]], touched'[j].path)
    BY <1>3, <1>7
  <2> QED
    BY <2>1, <2>2, <2>3, <2>4, Zenon DEF Owners
<1> QED
  BY <1>3, <1>4, <1>5, <1>10 DEF Recorded

LEMMA RecordedNext == IInv /\ Recorded /\ [Next]_vars => Recorded'
<1> SUFFICES ASSUME IInv, Recorded, [Next]_vars PROVE Recorded'
  OBVIOUS
<1>type. TypeOK
  BY DEF IInv
<1>op. next \in DOMAIN patch => Op1 \in Op
  BY <1>type, ElementOfSeq, LenProperties DEF TypeOK, Op1
<1>quiet. ASSUME UNCHANGED <<plan, touched>> PROVE Recorded'
  BY <1>quiet DEF Recorded, Owners
<1>one. ASSUME NEW s \in Step, NEW p \in File, NEW a \in {"write", "edit", "delete"},
               s.do # "rename", s.path = p, (a = "delete" <=> s.do = "delete"),
               Planned(s, <<[path |-> p, action |-> a]>>)
        PROVE  Recorded'
  <2> DEFINE entry == [path |-> p, action |-> a]
  <2>1. entry \in Touch /\ entry.path = p /\ entry.action = a
    BY DEF Touch
  <2>2. /\ <<entry>> \in Seq(Touch) /\ DOMAIN <<entry>> = {1} /\ <<entry>>[1] = entry
    <3> HIDE DEF entry
    <3> QED
      BY <2>1
  <2>3. Touches(s) = {p} /\ (Erases(s, p) <=> s.do = "delete")
    BY <1>one DEF Touches, Erases
  <2>4. Planned(s, <<entry>>)
    BY <1>one
  <2> HIDE DEF entry
  <2>5. /\ \A j \in DOMAIN <<entry>> :
             /\ <<entry>>[j].path \in Touches(s)
             /\ <<entry>>[j].action = "delete" <=> Erases(s, <<entry>>[j].path)
        /\ \A q \in Touches(s) : \E j \in DOMAIN <<entry>> : <<entry>>[j].path = q
    BY <1>one, <2>1, <2>2, <2>3
  <2> QED
    BY <1>type, <2>2, <2>4, <2>5, RecordedPlanned
<1>1. CASE ValidateAdd
  <2>1. CASE Refuse
    BY <2>1, <1>quiet DEF Refuse
  <2>2. CASE ~Refuse
    <3> DEFINE s == [do |-> "write", path |-> Op1.path, text |-> Op1.text]
    <3>1. Op1.path \in File /\ Op1.text \in Text
      BY <1>1, <1>op, OpType DEF ValidateAdd, Validating
    <3>2. s \in Step /\ s.do = "write" /\ s.path = Op1.path
      BY <3>1 DEF Step
    <3>3. Planned(s, <<[path |-> Op1.path, action |-> "write"]>>)
      BY <1>1, <2>2 DEF ValidateAdd
    <3> HIDE DEF s
    <3>4. PICK a \in {"write", "edit", "delete"} : a = "write"
      OBVIOUS
    <3> QED
      BY <1>one, <3>1, <3>2, <3>3, <3>4
  <2> QED
    BY <2>1, <2>2
<1>2. CASE ValidateDelete
  <2>1. CASE Refuse
    BY <2>1, <1>quiet DEF Refuse
  <2>2. CASE ~Refuse
    <3> DEFINE s == [do |-> "delete", path |-> Op1.path]
    <3>1. Op1.path \in File
      BY <1>2, <1>op, OpType DEF ValidateDelete, Validating
    <3>2. s \in Step /\ s.do = "delete" /\ s.path = Op1.path
      BY <3>1 DEF Step
    <3>3. Planned(s, <<[path |-> Op1.path, action |-> "delete"]>>)
      BY <1>2, <2>2 DEF ValidateDelete
    <3> HIDE DEF s
    <3>4. PICK a \in {"write", "edit", "delete"} : a = "delete"
      OBVIOUS
    <3> QED
      BY <1>one, <3>1, <3>2, <3>3, <3>4
  <2> QED
    BY <2>1, <2>2
<1>3. CASE PlanUpdate
  <2> DEFINE s == [do |-> "write", path |-> Op1.path, text |-> buffer]
  <2>1. Op1.path \in File /\ buffer \in Text
    BY <1>3, <1>op, <1>type, OpType DEF PlanUpdate, Validating, TypeOK
  <2>2. s \in Step /\ s.do = "write" /\ s.path = Op1.path
    BY <2>1 DEF Step
  <2>3. Planned(s, <<[path |-> Op1.path, action |-> "edit"]>>)
    BY <1>3 DEF PlanUpdate
  <2> HIDE DEF s
  <2>4. PICK a \in {"write", "edit", "delete"} : a = "edit"
    OBVIOUS
  <2> QED
    BY <1>one, <2>1, <2>2, <2>3, <2>4
<1>4. CASE ValidateMove
  <2>1. CASE Refuse
    BY <2>1, <1>quiet DEF Refuse
  <2>2. CASE ~Refuse
    <3> DEFINE s == [do |-> "rename", path |-> Op1.to, from |-> Op1.path]
               out == [path |-> Op1.path, action |-> "delete"]
               in == [path |-> Op1.to, action |-> "write"]
    <3>1. Op1.path \in File /\ Op1.to \in File /\ Op1.path # Op1.to
      BY <1>4, <2>2, <1>op, OpType DEF ValidateMove, Validating, Exists
    <3>2. s \in Step /\ s.do = "rename" /\ s.path = Op1.to /\ s.from = Op1.path
      BY <3>1 DEF Step
    <3>3. /\ out \in Touch /\ out.path = Op1.path /\ out.action = "delete"
          /\ in \in Touch /\ in.path = Op1.to /\ in.action = "write"
      BY <3>1 DEF Touch
    <3>4. Planned(s, <<out, in>>)
      BY <1>4, <2>2 DEF ValidateMove
    <3> HIDE DEF s, out, in
    <3>5. /\ <<out, in>> \in Seq(Touch) /\ DOMAIN <<out, in>> = {1, 2}
          /\ <<out, in>>[1] = out /\ <<out, in>>[2] = in
      BY <3>3
    <3>6. /\ Touches(s) = {Op1.path, Op1.to}
          /\ Erases(s, Op1.path) /\ ~Erases(s, Op1.to)
      BY <3>1, <3>2 DEF Touches, Erases
    <3>7. /\ \A j \in DOMAIN <<out, in>> :
               /\ <<out, in>>[j].path \in Touches(s)
               /\ <<out, in>>[j].action = "delete" <=> Erases(s, <<out, in>>[j].path)
          /\ \A q \in Touches(s) : \E j \in DOMAIN <<out, in>> : <<out, in>>[j].path = q
      BY <3>3, <3>5, <3>6
    <3> QED
      BY <1>type, <3>2, <3>4, <3>5, <3>7, RecordedPlanned
  <2> QED
    BY <2>1, <2>2
<1>5. CASE Parse \/ ReadUpdate \/ ResolveHunk \/ StartApply \/ StepFails \/ Succeed \/ RolledBack
  BY <1>5, <1>quiet DEF Parse, ReadUpdate, ResolveHunk, StartApply, StepFails, Succeed,
     RolledBack, Refuse, Fail
<1>6. CASE ApplyDelete \/ ApplyRename \/ ApplyWrite \/ WriteFails \/ UndoLast \/ UndoFails
  BY <1>6, <1>quiet DEF ApplyDelete, ApplyRename, ApplyWrite, WriteFails, UndoLast, UndoFails,
     Effect, Fail, PopUndo
<1>7. CASE UNCHANGED vars
  BY <1>7, <1>quiet DEF vars
<1> QED
  BY <1>1, <1>2, <1>3, <1>4, <1>5, <1>6, <1>7 DEF Next, Validate, Apply

\* A planned step that took effect.
LEMMA AppliedEffect ==
  ASSUME TypeOK, Applied, pc = "apply", next \in DOMAIN plan, next' = next + 1,
         plan' = plan, Before' = Before,
         \A p \in File \ Touches(plan[next]) : disk'[p] = disk[p],
         \A p \in Touches(plan[next]) : disk'[p] = Absent <=> Erases(plan[next], p)
  PROVE  Applied'
<1>1. PICK l \in Nat : DOMAIN plan = 1..l
  BY LenProperties DEF TypeOK
<1>2. PICK m \in Nat : m = next /\ m \in 1..l
  BY <1>1
<1>3. \A k \in DOMAIN plan, p \in File :
        Did(k, p)' <=> (Did(k, p) \/ (k = m /\ p \in Touches(plan[m])))
  <2>1. \A k \in 1..l : k < m + 1 <=> (k < m \/ k = m)
    BY <1>2
  <2>2. \A k \in DOMAIN plan, p \in File :
          Did(k, p)' <=> (k < m + 1 /\ p \in Touches(plan[k]))
    BY <1>2 DEF Did
  <2> QED
    BY <1>1, <1>2, <2>1, <2>2 DEF Did
<1>4. ASSUME NEW p \in File
      PROVE  /\ disk'[p] # Before[p] => \E k \in DOMAIN plan : Did(k, p)'
             /\ \A k \in DOMAIN plan :
                  Did(k, p)' /\ (\A i \in DOMAIN plan : Did(i, p)' => i <= k)
                    => (disk'[p] = Absent <=> Erases(plan[k], p))
  <2>1. CASE p \in Touches(plan[m])
    <3>1. m \in DOMAIN plan /\ Did(m, p)'
      BY <1>1, <1>2, <1>3, <2>1
    <3>2. \A k \in DOMAIN plan : Did(k, p)' => k <= m
      BY <1>1, <1>2, <1>3 DEF Did
    <3>3. \A k \in DOMAIN plan :
            Did(k, p)' /\ (\A i \in DOMAIN plan : Did(i, p)' => i <= k) => k = m
      BY <1>1, <1>2, <3>1, <3>2
    <3>4. disk'[p] = Absent <=> Erases(plan[m], p)
      BY <1>2, <2>1
    <3> QED
      BY <3>1, <3>3, <3>4
  <2>2. CASE p \notin Touches(plan[m])
    <3>1. \A k \in DOMAIN plan : Did(k, p)' <=> Did(k, p)
      BY <1>3, <2>2
    <3>2. disk'[p] = disk[p]
      BY <1>2, <2>2
    <3> QED
      BY <3>1, <3>2 DEF Applied
  <2> QED
    BY <2>1, <2>2
<1> QED
  BY <1>4 DEF Applied

LEMMA AppliedNext == IInv /\ Applied /\ [Next]_vars => Applied'
<1> SUFFICES ASSUME IInv, Applied, [Next]_vars PROVE Applied'
  OBVIOUS
<1>type. TypeOK
  BY DEF IInv
<1>step. next \in DOMAIN plan =>
           plan[next] \in Step /\ (plan[next].do = "rename" => plan[next].from # plan[next].path)
  BY <1>type, ElementOfSeq, LenProperties DEF TypeOK, IInv, PlanFollowsPatch
<1>none. ASSUME pc' \notin {"apply", "ok"} PROVE Applied'
  BY <1>none DEF Applied
<1>quiet. ASSUME UNCHANGED <<disk, next, plan, trail>>, pc' \in {"apply", "ok"} => pc \in {"apply", "ok"}
          PROVE  Applied'
  BY <1>quiet DEF Applied, Did, Before
<1>before. ASSUME NEW d, NEW u, NEW to, Effect(d, u, to) PROVE Before' = Before
  <2>1. trail' = Append(trail, d) /\ trail \in Seq([File -> Contents]) /\ Len(trail) \in Nat \ {0}
    BY <1>before, <1>type, TrailEnds DEF Effect, TypeOK
  <2> QED
    BY <2>1, AppendProperties DEF Before
<1>1. CASE StartApply
  <2>1. disk = Before /\ UNCHANGED <<disk, trail>> /\ next' = 1
    BY <1>1, UntouchedBefore DEF StartApply
  <2>2. \A k \in DOMAIN plan', p \in File : ~Did(k, p)'
    <3>1. DOMAIN plan' = 1..Len(plan)
      BY <1>1, <1>type, LenProperties DEF StartApply, TypeOK
    <3> QED
      BY <2>1, <3>1 DEF Did
  <2>3. \A p \in File : disk'[p] = Before'[p]
    BY <2>1 DEF Before
  <2> QED
    BY <2>2, <2>3 DEF Applied
<1>2. CASE ApplyDelete
  <2>1. CASE Fail
    BY <2>1, <1>none DEF Fail
  <2>2. CASE ~Fail
    <3> DEFINE path == plan[next].path
               u == [undo |-> "restore", path |-> path, text |-> disk[path]]
               d == [disk EXCEPT ![path] = Absent]
    <3>1. path \in File /\ plan[next].do = "delete" /\ next \in DOMAIN plan /\ pc = "apply"
      BY <1>2, <1>step, StepType DEF ApplyDelete, Applying
    <3>2. Effect(d, u, "apply")
      BY <1>2, <2>2 DEF ApplyDelete
    <3>3. \A p \in File : d[p] = IF p = path THEN Absent ELSE disk[p]
      BY <1>type DEF TypeOK
    <3> HIDE DEF u, d
    <3>4. disk' = d /\ next' = next + 1 /\ plan' = plan /\ Before' = Before
      BY <3>2, <1>before DEF Effect
    <3>5. Touches(plan[next]) = {path} /\ Erases(plan[next], path)
      BY <3>1 DEF Touches, Erases
    <3> QED
      BY <1>type, <3>1, <3>3, <3>4, <3>5, AppliedEffect
  <2> QED
    BY <2>1, <2>2
<1>3. CASE ApplyRename
  <2>1. CASE Fail
    BY <2>1, <1>none DEF Fail
  <2>2. CASE ~Fail
    <3> DEFINE from == plan[next].from
               path == plan[next].path
               u == [undo |-> "rename", path |-> path, from |-> from]
               d == Renamed(disk, from, path)
    <3>1. /\ path \in File /\ from \in File /\ from # path /\ disk[from] # Absent
          /\ plan[next].do = "rename" /\ next \in DOMAIN plan /\ pc = "apply"
      BY <1>3, <2>2, <1>step, StepType DEF ApplyRename, Applying, Exists
    <3>2. Effect(d, u, "apply")
      BY <1>3, <2>2 DEF ApplyRename
    <3>3. \A p \in File : d[p] = IF p = from THEN Absent ELSE IF p = path THEN disk[from] ELSE disk[p]
      BY <3>1, <1>type DEF TypeOK, Renamed
    <3> HIDE DEF u, d
    <3>4. disk' = d /\ next' = next + 1 /\ plan' = plan /\ Before' = Before
      BY <3>2, <1>before DEF Effect
    <3>5. /\ Touches(plan[next]) = {path, from}
          /\ Erases(plan[next], from) /\ ~Erases(plan[next], path)
      BY <3>1 DEF Touches, Erases
    <3> QED
      BY <1>type, <3>1, <3>3, <3>4, <3>5, AppliedEffect
  <2> QED
    BY <2>1, <2>2
<1>4. CASE ApplyWrite
  <2> DEFINE path == plan[next].path
             text == plan[next].text
             d == [disk EXCEPT ![path] = text]
  <2>1. path \in File /\ text \in Text /\ plan[next].do = "write" /\ next \in DOMAIN plan /\ pc = "apply"
    BY <1>4, <1>step, StepType DEF ApplyWrite, Applying
  <2>2. Effect(d, UndoOfWrite(path), "apply")
    BY <1>4 DEF ApplyWrite
  <2>3. text # Absent
    BY <2>1, PatchAssumption DEF Text, Absent
  <2>4. \A p \in File : d[p] = IF p = path THEN text ELSE disk[p]
    BY <1>type DEF TypeOK
  <2> HIDE DEF d
  <2>5. disk' = d /\ next' = next + 1 /\ plan' = plan /\ Before' = Before
    BY <2>2, <1>before DEF Effect
  <2>6. Touches(plan[next]) = {path} /\ ~Erases(plan[next], path)
    BY <2>1 DEF Touches, Erases
  <2> QED
    BY <1>type, <2>1, <2>3, <2>4, <2>5, <2>6, AppliedEffect
<1>5. CASE WriteFails \/ StepFails \/ UndoLast \/ UndoFails \/ RolledBack
  BY <1>5, <1>none DEF WriteFails, Effect, StepFails, Fail, UndoLast, UndoFails, PopUndo, RolledBack
<1>6. CASE Parse \/ ValidateAdd \/ ValidateDelete \/ ValidateMove \/ ReadUpdate \/ ResolveHunk \/ PlanUpdate
  BY <1>6, <1>none DEF Parse, ValidateAdd, ValidateDelete, ValidateMove, ReadUpdate, ResolveHunk,
     PlanUpdate, Planned, Refuse, Validating
<1>7. CASE Succeed
  BY <1>7, <1>quiet DEF Succeed
<1>8. CASE UNCHANGED vars
  BY <1>8, <1>quiet DEF vars
<1> QED
  BY <1>1, <1>2, <1>3, <1>4, <1>5, <1>6, <1>7, <1>8 DEF Next, Validate, Apply

\* The entry of a path is the last of its entries.
LEMMA LastEntry ==
  ASSUME TypeOK, NEW p \in File
  PROVE  \/ /\ \A j \in DOMAIN touched : touched[j].path # p
            /\ LastAction(p) = ledger[p]
         \/ \E k \in DOMAIN touched :
              /\ touched[k].path = p
              /\ \A j \in DOMAIN touched : touched[j].path = p => j <= k
              /\ LastAction(p) = touched[k].action
<1> DEFINE mine == {k \in DOMAIN touched : touched[k].path = p}
<1>1. CASE mine = {}
  BY <1>1 DEF LastAction
<1>2. CASE mine # {}
  <2>1. Len(touched) \in Nat /\ mine \in SUBSET (1..Len(touched))
    BY LenProperties DEF TypeOK
  <2>2. \E k \in mine : \A j \in mine : j <= k
    <3> HIDE DEF mine
    <3> QED
      BY <1>2, <2>1, LastIndex
  <2>3. PICK k \in mine : /\ \A j \in mine : j <= k
                          /\ k = CHOOSE i \in mine : \A j \in mine : j <= i
    <3> HIDE DEF mine
    <3> QED
      BY <2>2
  <2>4. LastAction(p) = touched[k].action
    BY <1>2, <2>3 DEF LastAction
  <2> QED
    BY <2>3, <2>4
<1> QED
  BY <1>1, <1>2

\* When the call succeeds, the ledger it records is right.
LEMMA SucceedAccounts ==
  ASSUME IInv, Recorded, Applied, ledger = [p \in File |-> "none"], Succeed
  PROVE  LedgerAccountsForDisk'
<1>1. PICK owner \in [DOMAIN touched -> DOMAIN plan] : Owners(owner)
  BY DEF Recorded
<1>2. /\ TypeOK /\ pc = "apply" /\ next = Len(plan) + 1
      /\ \A p \in File : ledger'[p] = LastAction(p)
      /\ disk' = disk /\ Before' = Before
  BY DEF IInv, Succeed, Before
<1>3. PICK l \in Nat, n \in Nat : DOMAIN plan = 1..l /\ next = l + 1 /\ DOMAIN touched = 1..n
  BY <1>2, LenProperties DEF TypeOK
<1>4. \A k \in DOMAIN plan, p \in File : Did(k, p) <=> p \in Touches(plan[k])
  <2> SUFFICES ASSUME NEW k \in DOMAIN plan PROVE k < next
    BY DEF Did
  <2> QED
    BY <1>3
<1>5. /\ \A j \in DOMAIN touched :
           /\ touched[j].path \in Touches(plan[owner[j]])
           /\ touched[j].action = "delete" <=> Erases(plan[owner[j]], touched[j].path)
      /\ \A i, j \in DOMAIN touched : i <= j => owner[i] <= owner[j]
      /\ \A k \in DOMAIN plan : \A p \in Touches(plan[k]) :
           \E j \in DOMAIN touched : owner[j] = k /\ touched[j].path = p
  BY <1>1, Zenon DEF Owners
<1>6. ASSUME NEW p \in File
      PROVE  /\ disk[p] # Before[p] => LastAction(p) # "none"
             /\ LastAction(p) # "none" => (LastAction(p) = "delete" <=> disk[p] = Absent)
  <2>1. CASE \A j \in DOMAIN touched : touched[j].path # p
    <3>1. \A k \in DOMAIN plan : p \notin Touches(plan[k])
      BY <1>5, <2>1
    <3>2. disk[p] = Before[p]
      BY <1>2, <1>4, <3>1 DEF Applied
    <3>3. LastAction(p) = "none"
      BY <1>2, <2>1, LastEntry
    <3> QED
      BY <3>2, <3>3
  <2>2. ASSUME NEW j \in DOMAIN touched, touched[j].path = p,
               \A i \in DOMAIN touched : touched[i].path = p => i <= j,
               LastAction(p) = touched[j].action
        PROVE  /\ LastAction(p) # "none"
               /\ LastAction(p) = "delete" <=> disk[p] = Absent
    <3>1. touched[j] \in Touch
      BY <1>2, ElementOfSeq, LenProperties DEF TypeOK
    <3>2. touched[j].action # "none"
      BY <3>1 DEF Touch
    <3>3. owner[j] \in DOMAIN plan /\ p \in Touches(plan[owner[j]])
      BY <1>5, <2>2
    <3>4. ASSUME NEW k \in DOMAIN plan, p \in Touches(plan[k]) PROVE k <= owner[j]
      <4>1. PICK i \in DOMAIN touched : owner[i] = k /\ touched[i].path = p
        BY <1>5, <3>4
      <4>2. i <= j
        BY <2>2, <4>1
      <4> QED
        BY <1>5, <4>1, <4>2
    <3>5. disk[p] = Absent <=> Erases(plan[owner[j]], p)
      BY <1>2, <1>4, <3>3, <3>4 DEF Applied
    <3>6. touched[j].action = "delete" <=> Erases(plan[owner[j]], p)
      BY <1>5, <2>2
    <3> QED
      BY <2>2, <3>2, <3>5, <3>6
  <2> QED
    BY <1>2, <2>1, <2>2, LastEntry
<1> QED
  BY <1>2, <1>6 DEF LedgerAccountsForDisk

LEMMA LedgerNext == IInv /\ LedgerInv /\ [Next]_vars => LedgerInv'
<1> SUFFICES ASSUME IInv, LedgerInv, [Next]_vars PROVE LedgerInv'
  OBVIOUS
<1>1. Recorded' /\ Applied'
  BY RecordedNext, AppliedNext DEF LedgerInv
<1>2. CASE Succeed
  <2>1. pc = "apply" /\ pc' = "ok"
    BY <1>2 DEF Succeed
  <2>2. LedgerAccountsForDisk'
    BY <1>2, <2>1, SucceedAccounts DEF LedgerInv
  <2> QED
    BY <1>1, <2>1, <2>2 DEF LedgerInv
<1>3. CASE UNCHANGED vars
  BY <1>1, <1>3 DEF vars, LedgerInv, LedgerAccountsForDisk, Before
<1>4. CASE Parse \/ Validate \/ Apply \/ UndoLast \/ UndoFails \/ RolledBack
  <2>1. pc' # "ok" /\ pc # "ok" /\ ledger' = ledger
    BY <1>4 DEF Parse, Validate, ValidateAdd, ValidateDelete, ValidateMove, ReadUpdate, ResolveHunk,
       PlanUpdate, StartApply, Planned, Refuse, Validating, Apply, ApplyDelete, ApplyRename, ApplyWrite,
       WriteFails, StepFails, Applying, Effect, Fail, UndoLast, UndoFails, PopUndo, RolledBack
  <2> QED
    BY <1>1, <2>1 DEF LedgerInv, LedgerAccountsForDisk
<1> QED
  BY <1>2, <1>3, <1>4 DEF Next

\* After a call that succeeded, every path that changed has an entry of the
\* ledger, and an entry says "delete" exactly when the file is gone: what the
\* completion gate of the turn goes by (patch.py, _record_mutation; agent.py,
\* _unverified_items), for envelopes that name a path any number of times.
THEOREM LedgerAccounts == Spec => []LedgerAccountsForDisk
<1>1. Init => LedgerInv
  <2> SUFFICES ASSUME Init PROVE LedgerInv
    OBVIOUS
  <2>1. DOMAIN touched = {} /\ DOMAIN plan = {} /\ pc = "parse"
    BY DEF Init
  <2>2. PICK owner : owner \in [DOMAIN touched -> DOMAIN plan]
    <3>1. [j \in {} |-> j] \in [{} -> {}]
      OBVIOUS
    <3> QED
      BY <2>1, <3>1
  <2>3. Owners(owner)
    BY <2>1, <2>2 DEF Owners
  <2>4. Recorded
    BY <2>2, <2>3 DEF Recorded
  <2> QED
    BY <2>1, <2>4 DEF Init, LedgerInv, Applied, LedgerAccountsForDisk
<1>2. LedgerInv => LedgerAccountsForDisk
  BY DEF LedgerInv
<1> QED
  BY <1>1, <1>2, LedgerNext, InvInit, InvNext, PTL DEF Spec

-----------------------------------------------------------------------------
(***************************************************************************)
(* What a success has carried out.  The plan says what the envelope says,  *)
(* an Update by the text its hunks make of the file the call found; where  *)
(* no path is named twice, no planned step disturbs another.               *)
(***************************************************************************)

Intends(o, s, found) ==
  CASE o.op = "add"    -> s = [do |-> "write", path |-> o.path, text |-> o.text]
    [] o.op = "delete" -> s = [do |-> "delete", path |-> o.path]
    [] o.op = "move"   -> s = [do |-> "rename", path |-> o.to, from |-> o.path]
    [] o.op = "update" -> s = [do |-> "write", path |-> o.path,
                               text |-> HunksApplied(found[o.path], o.hunks)]

Forward == pc \in {"parse", "validate", "apply", "ok"}

Carried ==
  Forward =>
    /\ DOMAIN plan \subseteq DOMAIN patch
    /\ \A k \in DOMAIN plan : Intends(patch[k], plan[k], Before)
    /\ pc \in {"apply", "ok"} => DOMAIN plan = DOMAIN patch
    /\ pc = "ok" => next = Len(plan) + 1

\* The text of an Update, resolved so far.
Resolving ==
  /\ pc = "parse" => hunk = 1
  /\ pc = "validate" /\ next \in DOMAIN patch /\ Op1.op = "update" /\ hunk # 1 =>
       /\ hunk - 2 \in 0..Len(Op1.hunks)
       /\ buffer = Resolved(Before[Op1.path], Op1.hunks)[hunk - 2]

Lands ==
  pc \in {"apply", "ok"} /\ DisjointPaths =>
    /\ \A k \in DOMAIN patch : k < next => Landed(patch[k])
    /\ \A p \in File :
         (\A k \in DOMAIN patch : k < next => p \notin Paths(patch[k])) => disk[p] = Before[p]

LandInv == Carried /\ Resolving /\ Lands

\* A planned step, by the operation it is of.
LEMMA IntendsShape ==
  ASSUME NEW o \in Op, NEW s, NEW d, Intends(o, s, d)
  PROVE  /\ o.op \in {"add", "delete", "move", "update"}
         /\ o.op = "add" => s.do = "write" /\ s.path = o.path /\ s.text = o.text
         /\ o.op = "delete" => s.do = "delete" /\ s.path = o.path
         /\ o.op = "move" => s.do = "rename" /\ s.path = o.to /\ s.from = o.path
         /\ o.op = "update" =>
              s.do = "write" /\ s.path = o.path /\ s.text = HunksApplied(d[o.path], o.hunks)
<1>1. CASE o.op = "add"
  BY <1>1 DEF Intends
<1>2. CASE o.op = "delete"
  BY <1>2 DEF Intends
<1>3. CASE o.op = "move"
  BY <1>3 DEF Intends
<1>4. CASE o.op = "update"
  BY <1>4 DEF Intends
<1> QED
  BY <1>1, <1>2, <1>3, <1>4, OpType

\* Induction over the naturals, for one set of them.
LEMMA NatInd ==
  ASSUME NEW A, 0 \in A, \A k \in Nat : k \in A => k + 1 \in A
  PROVE  Nat \subseteq A
<1> SUFFICES ASSUME Nat \ A # {} PROVE FALSE
  OBVIOUS
<1> DEFINE R == OpToRel(<, Nat)
<1>1. IsWellFoundedOn(R, Nat)
  BY NatLessThanWellFounded
<1>2. PICK m \in Nat \ A : \A y \in Nat \ A : ~(<<y, m>> \in R)
  <2> HIDE DEF R
  <2>1. Nat \ A \in SUBSET Nat
    OBVIOUS
  <2> QED
    BY <1>1, <2>1, WFMin
<1>3. \A y \in Nat \ A : ~(y < m)
  BY <1>2 DEF OpToRel
<1> HIDE DEF R
<1>4. m \in Nat /\ m \notin A /\ m # 0 /\ m - 1 \in Nat
  OBVIOUS
<1>5. m - 1 \in A
  BY <1>3, <1>4
<1>6. (m - 1) + 1 \in A
  BY <1>4, <1>5
<1> QED
  BY <1>4, <1>6

\* The text after no hunk, and after one more.
LEMMA ResolvedSteps ==
  ASSUME NEW text, NEW hunks, Len(hunks) \in Nat
  PROVE  /\ Resolved(text, hunks)[0] = text
         /\ \A n \in 1..Len(hunks) :
              Resolved(text, hunks)[n] =
                (Resolved(text, hunks)[n - 1] \ {hunks[n][1]}) \cup {hunks[n][2]}
<1> DEFINE Body(f, n) == IF n = 0 THEN text ELSE (f[n - 1] \ {hunks[n][1]}) \cup {hunks[n][2]}
           A == {k \in Nat : \E f : f = [n \in 0..k |-> Body(f, n)]}
<1>1. 0 \in A
  <2> DEFINE f == [n \in 0..0 |-> text]
  <2>1. f = [n \in 0..0 |-> Body(f, n)]
    OBVIOUS
  <2> HIDE DEF f, Body
  <2> QED
    BY <2>1
<1>2. ASSUME NEW k \in Nat, k \in A PROVE k + 1 \in A
  <2>1. PICK f : f = [n \in 0..k |-> Body(f, n)]
    BY <1>2
  <2> DEFINE g == [n \in 0..(k + 1) |-> IF n = k + 1 THEN Body(f, n) ELSE f[n]]
  <2>2. ASSUME NEW n \in 0..(k + 1) PROVE g[n] = Body(g, n)
    <3>1. n = 0 \/ (n - 1 \in 0..k /\ g[n - 1] = f[n - 1])
      OBVIOUS
    <3>2. Body(g, n) = Body(f, n)
      BY <3>1
    <3>3. CASE n = k + 1
      BY <3>2, <3>3
    <3>4. CASE n # k + 1
      <4>1. n \in 0..k /\ g[n] = f[n]
        BY <3>4
      <4>2. f[n] = Body(f, n)
        <5> HIDE DEF Body
        <5> QED
          BY <2>1, <4>1
      <4> QED
        BY <3>2, <4>1, <4>2
    <3> QED
      BY <3>3, <3>4
  <2>3. g = [n \in 0..(k + 1) |-> Body(g, n)]
    <3> HIDE DEF Body
    <3>1. g = [n \in 0..(k + 1) |-> g[n]]
      OBVIOUS
    <3> HIDE DEF g
    <3> QED
      BY <2>2, <3>1
  <2> HIDE DEF g, Body
  <2> QED
    BY <2>3
<1>3. Nat \subseteq A
  <2> HIDE DEF A
  <2> QED
    BY <1>1, <1>2, NatInd
<1>4. \E f : f = [n \in 0..Len(hunks) |-> Body(f, n)]
  BY <1>3
<1>5. PICK f : f = [n \in 0..Len(hunks) |-> Body(f, n)] /\ Resolved(text, hunks) = f
  <2> DEFINE after == CHOOSE after : after = [n \in 0..Len(hunks) |-> Body(after, n)]
  <2>1. after = [n \in 0..Len(hunks) |-> Body(after, n)]
    BY <1>4
  <2>2. Resolved(text, hunks) = after
    BY DEF Resolved
  <2> QED
    BY <2>1, <2>2
<1>6. \A n \in 0..Len(hunks) : f[n] = Body(f, n)
  <2> HIDE DEF Body
  <2> QED
    BY <1>5
<1> QED
  BY <1>5, <1>6

\* The call found one disk, and goes on from it.
LEMMA BeforeSame ==
  ASSUME IInv, [Next]_vars
  PROVE  Before' = Before
<1>1. ASSUME trail' = trail PROVE Before' = Before
  BY <1>1 DEF Before
<1>2. ASSUME NEW d, NEW u, NEW to, Effect(d, u, to) PROVE Before' = Before
  <2>1. trail' = Append(trail, d) /\ trail \in Seq([File -> Contents]) /\ Len(trail) \in Nat \ {0}
    BY <1>2, TrailEnds DEF Effect, IInv, TypeOK
  <2> QED
    BY <2>1, AppendProperties DEF Before
<1>3. CASE UndoLast \/ UndoFails
  <2>1. TypeOK'
    BY TypeNext DEF IInv
  <2> QED
    BY <1>3, <2>1, PopInv DEF UndoLast, UndoFails
<1>4. CASE ApplyDelete \/ ApplyRename \/ ApplyWrite \/ WriteFails
  BY <1>1, <1>2, <1>4 DEF ApplyDelete, ApplyRename, ApplyWrite, WriteFails, Fail
<1>5. CASE Parse \/ ValidateAdd \/ ValidateDelete \/ ValidateMove \/ ReadUpdate \/ ResolveHunk \/ PlanUpdate
  BY <1>1, <1>5 DEF Parse, ValidateAdd, ValidateDelete, ValidateMove, ReadUpdate, ResolveHunk,
     PlanUpdate, Planned, Refuse
<1>6. CASE StartApply \/ StepFails \/ Succeed \/ RolledBack \/ UNCHANGED vars
  BY <1>1, <1>6 DEF StartApply, StepFails, Fail, Succeed, RolledBack, vars
<1> QED
  BY <1>3, <1>4, <1>5, <1>6 DEF Next, Validate, Apply

LEMMA PatchSame == ASSUME [Next]_vars PROVE patch' = patch
BY DEF Next, Parse, Validate, ValidateAdd, ValidateDelete, ValidateMove, ReadUpdate, ResolveHunk,
   PlanUpdate, StartApply, Planned, Refuse, Apply, ApplyDelete, ApplyRename, ApplyWrite,
   WriteFails, StepFails, Effect, Fail, Succeed, UndoLast, UndoFails, PopUndo, RolledBack, vars

LEMMA CarriedPlanned ==
  ASSUME IInv, Carried, Before' = Before, patch' = patch, pc = "validate", next \in DOMAIN patch,
         NEW s \in Step, NEW entries, Planned(s, entries), Intends(Op1, s, Before)
  PROVE  Carried'
<1>1. PICK l \in Nat : DOMAIN plan = 1..l /\ next = l + 1
  BY LenProperties DEF IInv, TypeOK, PlanFollowsPatch
<1>2. /\ DOMAIN plan' = 1..(l + 1) /\ plan'[l + 1] = s
      /\ \A k \in 1..l : plan'[k] = plan[k]
  <2>1. plan' = Append(plan, s) /\ plan \in Seq(Step) /\ l = Len(plan)
    BY <1>1, LenProperties DEF Planned, IInv, TypeOK
  <2> QED
    BY <2>1, AppendProperties, LenProperties
<1>3. pc' = "validate"
  BY DEF Planned
<1>4. l + 1 \in DOMAIN patch /\ Intends(patch[l + 1], s, Before)
  BY <1>1 DEF Op1
<1>5. \A k \in 1..l : k \in DOMAIN patch /\ Intends(patch[k], plan[k], Before)
  BY <1>1 DEF Carried, Forward
<1>6. \A k \in 1..(l + 1) : k \in DOMAIN patch /\ Intends(patch[k], plan'[k], Before)
  BY <1>2, <1>4, <1>5
<1> QED
  BY <1>2, <1>3, <1>6 DEF Carried

LEMMA CarriedNext == IInv /\ Carried /\ Resolving /\ [Next]_vars => Carried'
<1> SUFFICES ASSUME IInv, Carried, Resolving, [Next]_vars PROVE Carried'
  OBVIOUS
<1>type. TypeOK
  BY DEF IInv
<1>op. next \in DOMAIN patch => Op1 \in Op
  BY <1>type, ElementOfSeq, LenProperties DEF TypeOK, Op1
<1>same. Before' = Before /\ patch' = patch
  BY BeforeSame, PatchSame
<1>none. ASSUME ~Forward' PROVE Carried'
  BY <1>none DEF Carried
<1>quiet. ASSUME plan' = plan, Forward' => Forward,
                 pc' \in {"apply", "ok"} => DOMAIN plan = DOMAIN patch,
                 pc' = "ok" => next' = Len(plan) + 1
          PROVE  Carried'
  BY <1>quiet, <1>same DEF Carried
<1>refuse. ASSUME Refuse PROVE Carried'
  BY <1>none, <1>refuse DEF Refuse, Forward
<1>fail. ASSUME Fail PROVE Carried'
  BY <1>none, <1>fail DEF Fail, Forward
<1>1. CASE ValidateAdd
  <2>1. CASE Refuse
    BY <2>1, <1>refuse
  <2>2. CASE ~Refuse
    <3> DEFINE s == [do |-> "write", path |-> Op1.path, text |-> Op1.text]
    <3>1. Op1.path \in File /\ Op1.text \in Text /\ Op1.op = "add" /\ pc = "validate" /\ next \in DOMAIN patch
      BY <1>1, <1>op, OpType DEF ValidateAdd, Validating
    <3>2. s \in Step
      BY <3>1 DEF Step
    <3>3. Planned(s, <<[path |-> Op1.path, action |-> "write"]>>)
      BY <1>1, <2>2 DEF ValidateAdd
    <3>4. Intends(Op1, s, Before)
      BY <3>1 DEF Intends
    <3> HIDE DEF s
    <3> QED
      BY <1>same, <3>1, <3>2, <3>3, <3>4, CarriedPlanned
  <2> QED
    BY <2>1, <2>2
<1>2. CASE ValidateDelete
  <2>1. CASE Refuse
    BY <2>1, <1>refuse
  <2>2. CASE ~Refuse
    <3> DEFINE s == [do |-> "delete", path |-> Op1.path]
    <3>1. Op1.path \in File /\ Op1.op = "delete" /\ pc = "validate" /\ next \in DOMAIN patch
      BY <1>2, <1>op, OpType DEF ValidateDelete, Validating
    <3>2. s \in Step
      BY <3>1 DEF Step
    <3>3. Planned(s, <<[path |-> Op1.path, action |-> "delete"]>>)
      BY <1>2, <2>2 DEF ValidateDelete
    <3>4. Intends(Op1, s, Before)
      BY <3>1 DEF Intends
    <3> HIDE DEF s
    <3> QED
      BY <1>same, <3>1, <3>2, <3>3, <3>4, CarriedPlanned
  <2> QED
    BY <2>1, <2>2
<1>3. CASE ValidateMove
  <2>1. CASE Refuse
    BY <2>1, <1>refuse
  <2>2. CASE ~Refuse
    <3> DEFINE s == [do |-> "rename", path |-> Op1.to, from |-> Op1.path]
    <3>1. Op1.path \in File /\ Op1.to \in File /\ Op1.op = "move" /\ pc = "validate" /\ next \in DOMAIN patch
      BY <1>3, <1>op, OpType DEF ValidateMove, Validating
    <3>2. s \in Step
      BY <3>1 DEF Step
    <3>3. PICK entries : Planned(s, entries)
      BY <1>3, <2>2 DEF ValidateMove
    <3>4. Intends(Op1, s, Before)
      BY <3>1 DEF Intends
    <3> HIDE DEF s
    <3> QED
      BY <1>same, <3>1, <3>2, <3>3, <3>4, CarriedPlanned
  <2> QED
    BY <2>1, <2>2
<1>4. CASE PlanUpdate
  <2> DEFINE s == [do |-> "write", path |-> Op1.path, text |-> buffer]
  <2>1. /\ Op1.path \in File /\ buffer \in Text /\ Op1.op = "update" /\ pc = "validate"
        /\ next \in DOMAIN patch /\ Len(Op1.hunks) \in Nat /\ hunk = Len(Op1.hunks) + 2
    BY <1>4, <1>op, <1>type, OpType, LenProperties DEF PlanUpdate, Validating, TypeOK
  <2>2. s \in Step
    BY <2>1 DEF Step
  <2>3. PICK entries : Planned(s, entries)
    BY <1>4 DEF PlanUpdate
  <2>4. hunk # 1 /\ hunk - 2 = Len(Op1.hunks)
    BY <2>1
  <2>5. buffer = HunksApplied(Before[Op1.path], Op1.hunks)
    BY <2>1, <2>4 DEF Resolving, HunksApplied
  <2>6. Intends(Op1, s, Before)
    BY <2>1, <2>5 DEF Intends
  <2> HIDE DEF s
  <2> QED
    BY <1>same, <2>1, <2>2, <2>3, <2>6, CarriedPlanned
<1>5. CASE ReadUpdate \/ ResolveHunk \/ Parse
  <2>1. CASE Refuse
    BY <2>1, <1>refuse
  <2>2. CASE ~Refuse
    BY <1>5, <2>2, <1>quiet DEF ReadUpdate, ResolveHunk, Parse, Validating, Forward
  <2> QED
    BY <2>1, <2>2
<1>6. CASE StartApply
  <2>1. plan' = plan /\ pc = "validate" /\ pc' = "apply" /\ next = Len(patch) + 1
    BY <1>6 DEF StartApply
  <2>2. DOMAIN plan = DOMAIN patch
    <3>1. Len(plan) = next - 1 /\ Len(patch) \in Nat
      BY <1>type, <2>1, LenProperties DEF IInv, PlanFollowsPatch, TypeOK
    <3> QED
      BY <1>type, <2>1, <3>1, LenProperties DEF TypeOK
  <2> QED
    BY <2>1, <2>2, <1>quiet DEF Forward
<1>7. CASE ApplyDelete \/ ApplyRename \/ ApplyWrite
  <2>1. CASE Fail
    BY <2>1, <1>fail
  <2>2. CASE ~Fail
    <3>1. plan' = plan /\ pc = "apply" /\ pc' = "apply"
      BY <1>7, <2>2 DEF ApplyDelete, ApplyRename, ApplyWrite, Applying, Effect
    <3> QED
      BY <3>1, <1>quiet DEF Carried, Forward
  <2> QED
    BY <2>1, <2>2
<1>8. CASE WriteFails \/ StepFails \/ UndoLast \/ UndoFails \/ RolledBack
  BY <1>8, <1>none DEF WriteFails, Effect, StepFails, Fail, UndoLast, UndoFails, PopUndo, RolledBack, Forward
<1>9. CASE Succeed
  BY <1>9, <1>quiet DEF Succeed, Carried, Forward
<1>10. CASE UNCHANGED vars
  BY <1>10, <1>quiet DEF vars, Carried, Forward
<1> QED
  BY <1>1, <1>2, <1>3, <1>4, <1>5, <1>6, <1>7, <1>8, <1>9, <1>10 DEF Next, Validate, Apply

LEMMA ResolvingNext == IInv /\ Resolving /\ [Next]_vars => Resolving'
<1> SUFFICES ASSUME IInv, Resolving, [Next]_vars PROVE Resolving'
  OBVIOUS
<1>type. TypeOK
  BY DEF IInv
<1>op. next \in DOMAIN patch => Op1 \in Op
  BY <1>type, ElementOfSeq, LenProperties DEF TypeOK, Op1
<1>same. Before' = Before /\ patch' = patch
  BY BeforeSame, PatchSame
<1>none. ASSUME pc' \notin {"parse", "validate"} PROVE Resolving'
  BY <1>none DEF Resolving
<1>first. ASSUME hunk' = 1 PROVE Resolving'
  BY <1>first DEF Resolving
<1>refuse. ASSUME Refuse PROVE Resolving'
  BY <1>none, <1>refuse DEF Refuse
<1>1. CASE Parse
  BY <1>1, <1>first, <1>none DEF Parse, Refuse, Resolving
<1>2. CASE ValidateAdd \/ ValidateDelete \/ ValidateMove \/ PlanUpdate
  BY <1>2, <1>first, <1>refuse DEF ValidateAdd, ValidateDelete, ValidateMove, PlanUpdate, Planned
<1>3. CASE ReadUpdate
  <2>1. CASE Refuse
    BY <2>1, <1>refuse
  <2>2. CASE ~Refuse
    <3>1. /\ pc' = "validate" /\ next' = next /\ hunk' = 2 /\ buffer' = disk[Op1.path]
          /\ Op1.op = "update" /\ next \in DOMAIN patch /\ pc = "validate"
      BY <1>3, <2>2 DEF ReadUpdate, Validating
    <3>2. Len(Op1.hunks) \in Nat /\ Op1' = Op1
      BY <3>1, <1>same, <1>op, OpType, LenProperties DEF Op1
    <3>3. buffer' = Resolved(Before[Op1.path], Op1.hunks)[0]
      BY <3>1, <3>2, UntouchedBefore, ResolvedSteps
    <3>4. Resolved(Before[Op1.path], Op1.hunks)' = Resolved(Before[Op1.path], Op1.hunks)
      BY <1>same, <3>2
    <3> QED
      BY <3>1, <3>2, <3>3, <3>4 DEF Resolving
  <2> QED
    BY <2>1, <2>2
<1>4. CASE ResolveHunk
  <2>1. CASE Refuse
    BY <2>1, <1>refuse
  <2>2. CASE ~Refuse
    <3>1. /\ pc' = "validate" /\ next' = next /\ hunk' = hunk + 1 /\ hunk - 1 \in DOMAIN Op1.hunks
          /\ buffer' = (buffer \ {Op1.hunks[hunk - 1][1]}) \cup {Op1.hunks[hunk - 1][2]}
          /\ Op1.op = "update" /\ next \in DOMAIN patch /\ pc = "validate"
      BY <1>4, <2>2 DEF ResolveHunk, Validating
    <3>2. Len(Op1.hunks) \in Nat /\ DOMAIN Op1.hunks = 1..Len(Op1.hunks) /\ Op1' = Op1
      BY <3>1, <1>same, <1>op, OpType, LenProperties DEF Op1
    <3>3. PICK n \in Nat : n = hunk - 1 /\ n \in 1..Len(Op1.hunks) /\ hunk - 2 = n - 1 /\ hunk # 1 /\ hunk' - 2 = n
      BY <1>type, <3>1, <3>2 DEF TypeOK
    <3>4. buffer = Resolved(Before[Op1.path], Op1.hunks)[n - 1]
      BY <3>1, <3>3 DEF Resolving
    <3>5. buffer' = Resolved(Before[Op1.path], Op1.hunks)[n]
      BY <3>1, <3>2, <3>3, <3>4, ResolvedSteps
    <3>6. Resolved(Before[Op1.path], Op1.hunks)' = Resolved(Before[Op1.path], Op1.hunks)
      BY <1>same, <3>2
    <3> QED
      BY <3>1, <3>2, <3>3, <3>5, <3>6 DEF Resolving
  <2> QED
    BY <2>1, <2>2
<1>5. CASE StartApply \/ StepFails \/ Succeed \/ RolledBack
  BY <1>5, <1>none DEF StartApply, StepFails, Fail, Succeed, RolledBack
<1>6. CASE ApplyDelete \/ ApplyRename \/ ApplyWrite \/ WriteFails \/ UndoLast \/ UndoFails
  BY <1>6, <1>none DEF ApplyDelete, ApplyRename, ApplyWrite, WriteFails, UndoLast, UndoFails,
     Effect, Fail, PopUndo, Applying
<1>7. CASE UNCHANGED vars
  BY <1>7, <1>same DEF vars, Resolving, Op1
<1> QED
  BY <1>1, <1>2, <1>3, <1>4, <1>5, <1>6, <1>7 DEF Next, Validate, Apply

\* What an operation promised stays so while its paths are left alone.
LEMMA LandedSame ==
  ASSUME NEW o \in Op, Before' = Before, \A p \in Paths(o) : disk'[p] = disk[p]
  PROVE  Landed(o)' <=> Landed(o)
<1>1. o.path \in Paths(o) /\ (o.op = "move" => o.to \in Paths(o))
  BY DEF Paths
<1>2. disk'[o.path] = disk[o.path] /\ (o.op = "move" => disk'[o.to] = disk[o.to])
  BY <1>1
<1> QED
  BY <1>2, OpType DEF Landed

\* Step m takes effect: it lands, and disturbs no other operation.
LEMMA LandsEffect ==
  ASSUME TypeOK, Lands, pc = "apply", NEW m \in DOMAIN patch, next = m, next' = m + 1,
         Before' = Before, patch' = patch,
         \A p \in File \ Paths(patch[m]) : disk'[p] = disk[p],
         DisjointPaths => \A o \in Op : o = patch[m] => Landed(o)'
  PROVE  Lands'
<1>1. PICK l \in Nat : DOMAIN patch = 1..l
  BY LenProperties DEF TypeOK
<1>2. DisjointPaths' <=> DisjointPaths
  BY DEF DisjointPaths
<1> SUFFICES ASSUME DisjointPaths
             PROVE  /\ \A k \in DOMAIN patch : k < m + 1 => Landed(patch[k])'
                    /\ \A p \in File :
                         (\A k \in DOMAIN patch : k < m + 1 => p \notin Paths(patch[k]))
                           => disk'[p] = Before[p]
  BY <1>2 DEF Lands
<1>3. \A k \in DOMAIN patch : k < m + 1 <=> (k < m \/ k = m)
  BY <1>1
<1>4. \A k \in DOMAIN patch : patch[k] \in Op
  BY ElementOfSeq, LenProperties DEF TypeOK
<1>5. ASSUME NEW k \in DOMAIN patch, k < m + 1 PROVE Landed(patch[k])'
  <2>1. PICK o \in Op : o = patch[k]
    BY <1>4
  <2>2. CASE k = m
    <3>1. Landed(o)'
      BY <2>1, <2>2
    <3> QED
      BY <2>1, <3>1 DEF Landed
  <2>3. CASE k < m
    <3>1. Landed(o)
      BY <2>1, <2>3 DEF Lands, Landed
    <3>2. Paths(o) \subseteq File
      BY OpType DEF Paths
    <3>3. \A p \in Paths(o) : p \notin Paths(patch[m])
      <4>1. k # m
        BY <1>1, <2>3
      <4> QED
        BY <2>1, <4>1 DEF DisjointPaths
    <3>4. \A p \in Paths(o) : disk'[p] = disk[p]
      BY <3>2, <3>3
    <3>5. Landed(o)'
      BY <3>1, <3>4, LandedSame
    <3> QED
      BY <2>1, <3>5 DEF Landed
  <2> QED
    BY <1>3, <1>5, <2>2, <2>3
<1>6. ASSUME NEW p \in File, \A k \in DOMAIN patch : k < m + 1 => p \notin Paths(patch[k])
      PROVE  disk'[p] = Before[p]
  <2>1. p \notin Paths(patch[m])
    BY <1>3, <1>6
  <2>2. \A k \in DOMAIN patch : k < next => p \notin Paths(patch[k])
    BY <1>3, <1>6
  <2> QED
    BY <2>1, <2>2 DEF Lands
<1> QED
  BY <1>5, <1>6

LEMMA LandsNext == IInv /\ LandInv /\ [Next]_vars => Lands'
<1> SUFFICES ASSUME IInv, LandInv, [Next]_vars PROVE Lands'
  OBVIOUS
<1>type. TypeOK /\ Lands
  BY DEF IInv, LandInv
<1>same. Before' = Before /\ patch' = patch
  BY BeforeSame, PatchSame
<1>none. ASSUME pc' \notin {"apply", "ok"} PROVE Lands'
  BY <1>none DEF Lands
<1>quiet. ASSUME UNCHANGED <<disk, next>>, pc' \in {"apply", "ok"} => pc \in {"apply", "ok"}
          PROVE  Lands'
  BY <1>quiet, <1>same DEF LandInv, Lands, Landed, DisjointPaths
\* The operation that the next step carries out.
<1>step. ASSUME pc = "apply", next \in DOMAIN plan
         PROVE  \E m \in DOMAIN patch, o \in Op, s \in Step :
                  /\ m = next /\ o = patch[m] /\ s = plan[next] /\ Intends(o, s, Before)
                  /\ DisjointPaths => \A p \in Paths(o) : disk[p] = Before[p]
  <2>1. next \in DOMAIN patch /\ Intends(patch[next], plan[next], Before)
    BY <1>step DEF LandInv, Carried, Forward
  <2>2. PICK m \in DOMAIN patch, o \in Op, s \in Step : m = next /\ o = patch[m] /\ s = plan[next]
    BY <1>step, <1>type, <2>1, ElementOfSeq, LenProperties DEF TypeOK
  <2>3. ASSUME DisjointPaths, NEW p \in Paths(o) PROVE disk[p] = Before[p]
    <3>1. p \in File
      BY <2>3, OpType DEF Paths
    <3>2. \A k \in DOMAIN patch : k < next => p \notin Paths(patch[k])
      <4> SUFFICES ASSUME NEW k \in DOMAIN patch, k < m PROVE p \notin Paths(patch[k])
        BY <2>2
      <4>1. k # m
        BY <1>type, LenProperties DEF TypeOK
      <4> QED
        BY <2>2, <2>3, <4>1 DEF DisjointPaths
    <3> QED
      BY <1>step, <1>type, <2>3, <3>1, <3>2 DEF Lands
  <2> QED
    BY <2>1, <2>2, <2>3
<1>1. CASE StartApply
  <2>1. disk' = Before /\ next' = 1
    BY <1>1, UntouchedBefore DEF StartApply
  <2>2. \A k \in DOMAIN patch : ~(k < 1)
    BY <1>type, LenProperties DEF TypeOK
  <2> QED
    BY <1>same, <2>1, <2>2 DEF Lands
<1>2. CASE ApplyDelete
  <2>1. CASE Fail
    BY <2>1, <1>none DEF Fail
  <2>2. CASE ~Fail
    <3>1. pc = "apply" /\ next \in DOMAIN plan /\ plan[next].do = "delete"
      BY <1>2 DEF ApplyDelete, Applying
    <3>2. PICK m \in DOMAIN patch, o \in Op, s \in Step :
            m = next /\ o = patch[m] /\ s = plan[next] /\ Intends(o, s, Before)
      BY <1>step, <3>1
    <3>3. o.op = "delete" /\ s.path = o.path /\ o.path \in File
      BY <3>1, <3>2, OpType, IntendsShape
    <3>4. disk' = [disk EXCEPT ![o.path] = Absent] /\ next' = m + 1
      BY <1>2, <2>2, <3>2, <3>3 DEF ApplyDelete, Effect
    <3>5. \A p \in File : disk'[p] = IF p = o.path THEN Absent ELSE disk[p]
      BY <1>type, <3>4 DEF TypeOK
    <3>6. Landed(o)' /\ Paths(o) = {o.path}
      BY <3>3, <3>5 DEF Landed, Paths
    <3>7. \A q \in Op : q = patch[m] => Landed(q)'
      BY <3>2, <3>6
    <3> QED
      BY <1>type, <1>same, <3>1, <3>2, <3>4, <3>5, <3>6, <3>7, LandsEffect
  <2> QED
    BY <2>1, <2>2
<1>3. CASE ApplyWrite
  <2>1. pc = "apply" /\ next \in DOMAIN plan /\ plan[next].do = "write"
    BY <1>3 DEF ApplyWrite, Applying
  <2>2. PICK m \in DOMAIN patch, o \in Op, s \in Step :
          m = next /\ o = patch[m] /\ s = plan[next] /\ Intends(o, s, Before)
    BY <1>step, <2>1
  <2>3. /\ o.op \in {"add", "update"} /\ s.path = o.path /\ o.path \in File
        /\ o.op = "add" => s.text = o.text
        /\ o.op = "update" => s.text = HunksApplied(Before[o.path], o.hunks)
    BY <2>1, <2>2, OpType, IntendsShape
  <2>4. disk' = [disk EXCEPT ![o.path] = s.text] /\ next' = m + 1
    BY <1>3, <2>2, <2>3 DEF ApplyWrite, Effect
  <2>5. \A p \in File : disk'[p] = IF p = o.path THEN s.text ELSE disk[p]
    BY <1>type, <2>4 DEF TypeOK
  <2>6. Landed(o)' /\ Paths(o) = {o.path}
    BY <1>same, <2>3, <2>5 DEF Landed, Paths
  <2>7. \A q \in Op : q = patch[m] => Landed(q)'
    BY <2>2, <2>6
  <2> QED
    BY <1>type, <1>same, <2>1, <2>2, <2>4, <2>5, <2>6, <2>7, LandsEffect
<1>4. CASE ApplyRename
  <2>1. CASE Fail
    BY <2>1, <1>none DEF Fail
  <2>2. CASE ~Fail
    <3>1. pc = "apply" /\ next \in DOMAIN plan /\ plan[next].do = "rename"
      BY <1>4 DEF ApplyRename, Applying
    <3>2. PICK m \in DOMAIN patch, o \in Op, s \in Step :
            /\ m = next /\ o = patch[m] /\ s = plan[next] /\ Intends(o, s, Before)
            /\ DisjointPaths => \A p \in Paths(o) : disk[p] = Before[p]
      BY <1>step, <3>1
    <3>3. o.op = "move" /\ s.path = o.to /\ s.from = o.path /\ o.path \in File /\ o.to \in File
      BY <3>1, <3>2, OpType, IntendsShape
    <3>4. o.path # o.to
      BY <3>1, <3>2, <3>3 DEF IInv, PlanFollowsPatch
    <3>5. disk' = Renamed(disk, o.path, o.to) /\ next' = m + 1
      BY <1>4, <2>2, <3>2, <3>3 DEF ApplyRename, Effect
    <3>6. \A p \in File : disk'[p] = IF p = o.path THEN Absent ELSE IF p = o.to THEN disk[o.path] ELSE disk[p]
      BY <1>type, <3>3, <3>4, <3>5 DEF TypeOK, Renamed
    <3>7. Paths(o) = {o.path, o.to}
      BY <3>3 DEF Paths
    <3>8. DisjointPaths => Landed(o)'
      BY <1>same, <3>2, <3>3, <3>4, <3>6, <3>7 DEF Landed
    <3>9. DisjointPaths => \A q \in Op : q = patch[m] => Landed(q)'
      BY <3>2, <3>8
    <3> QED
      BY <1>type, <1>same, <3>1, <3>2, <3>5, <3>6, <3>7, <3>9, LandsEffect
  <2> QED
    BY <2>1, <2>2
<1>5. CASE WriteFails \/ StepFails \/ UndoLast \/ UndoFails \/ RolledBack
  BY <1>5, <1>none DEF WriteFails, Effect, StepFails, Fail, UndoLast, UndoFails, PopUndo, RolledBack
<1>6. CASE Parse \/ ValidateAdd \/ ValidateDelete \/ ValidateMove \/ ReadUpdate \/ ResolveHunk \/ PlanUpdate
  BY <1>6, <1>none DEF Parse, ValidateAdd, ValidateDelete, ValidateMove, ReadUpdate, ResolveHunk,
     PlanUpdate, Planned, Refuse, Validating
<1>7. CASE Succeed
  BY <1>7, <1>quiet DEF Succeed
<1>8. CASE UNCHANGED vars
  BY <1>8, <1>quiet DEF vars
<1> QED
  BY <1>1, <1>2, <1>3, <1>4, <1>5, <1>6, <1>7, <1>8 DEF Next, Validate, Apply

\* A call that reports success has carried out every operation of its
\* envelope, and changed no other path, when no path is named twice: each
\* Update by its hunks in their order (patch.py, _resolve and apply_patch).
THEOREM SuccessCarriesOut == Spec => []AllOpsLand
<1>1. Init => LandInv
  <2> SUFFICES ASSUME Init PROVE LandInv
    OBVIOUS
  <2>1. DOMAIN plan = {} /\ pc = "parse" /\ hunk = 1
    BY DEF Init
  <2> QED
    BY <2>1 DEF LandInv, Carried, Resolving, Lands
<1>2. IInv /\ LandInv /\ [Next]_vars => LandInv'
  BY CarriedNext, ResolvingNext, LandsNext DEF LandInv
<1>3. IInv /\ LandInv => AllOpsLand
  <2> SUFFICES ASSUME IInv, LandInv, pc = "ok", DisjointPaths
               PROVE  /\ \A k \in DOMAIN patch : Landed(patch[k])
                      /\ \A path \in File \ UNION {Paths(patch[k]) : k \in DOMAIN patch} :
                           disk[path] = Before[path]
    BY DEF AllOpsLand
  <2>1. \A k \in DOMAIN patch : k < next
    <3>1. DOMAIN plan = DOMAIN patch /\ next = Len(plan) + 1 /\ DOMAIN plan = 1..Len(plan) /\ Len(plan) \in Nat
      BY LenProperties DEF LandInv, Carried, Forward, IInv, TypeOK
    <3> QED
      BY <3>1
  <2> QED
    BY <2>1 DEF LandInv, Lands
<1> QED
  BY <1>1, <1>2, <1>3, InvInit, InvNext, PTL DEF Spec
=============================================================================
