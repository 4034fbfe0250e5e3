------------------------------ MODULE MCStores ------------------------------
(* Two sessions over one workspace: the backlog by one session after the   *)
(* other, and side by side with every fault; the other stores likewise.    *)
EXTENDS Stores, TLC

All == {"crash", "read", "write", "two"}
MCScenarios ==
  {[uses |-> {"todos"}, faults |-> {}, calls |-> 6, starts |-> 3],
   [uses |-> {"todos"}, faults |-> All, calls |-> 3, starts |-> 3],
   [uses |-> {"notes", "specs"}, faults |-> All, calls |-> 4, starts |-> 3],
   [uses |-> {"notes", "table"}, faults |-> All, calls |-> 3, starts |-> 3]}

Symmetry == Permutations(Session) \cup Permutations(Content)
=============================================================================
