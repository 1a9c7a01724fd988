----------------------------- MODULE MCAgentTurn -----------------------------
(* Small instances of AgentTurn for TLC.                                      *)
EXTENDS AgentTurn, TLC

CONSTANTS t1, t2

Symmetric == Permutations(Turns)
=============================================================================
