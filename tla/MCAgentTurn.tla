---------------------------- MODULE MCAgentTurn ----------------------------
(* Small instances of AgentTurn.                                           *)
EXTENDS AgentTurn

MCFile == {"f"}
MCItem == {1}

Once == [gate \in Bounded |-> 1]
=============================================================================
