---------------------------- MODULE MCApplyPatch ----------------------------
(* Small instances of ApplyPatch: three paths, texts of one or two tokens. *)
EXTENDS ApplyPatch

CONSTANTS a, b, c, x, y, z

MCFile  == {a, b, c}
MCToken == {x, y, z}

Adds    == [op : {"add"}, path : MCFile, text : {{y}}]
Deletes == [op : {"delete"}, path : MCFile]
Moves   == {m \in [op : {"move"}, path : MCFile, to : MCFile] : m.path # m.to}
Updates == [op : {"update"}, path : MCFile,
            hunks : {<< <<x, y>> >>, << <<x, y>>, <<y, z>> >>}]

UpTo(n, S) == UNION {[1..k -> S] : k \in 0..n}

\* Every envelope of at most three operations.
MCPatches == UpTo(3, Adds \cup Deletes \cup Moves \cup Updates)
MCDisks   == [MCFile -> {Absent, {x}}]
MCDenials == {{}, {c}}

\* Moves that share a destination, followed by a deletion that may fail.
MCMoves     == UpTo(3, {m \in Moves : m.to = c} \cup Deletes)
=============================================================================
