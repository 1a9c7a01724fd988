------------------------------ MODULE MCScoreboard ------------------------------
(* Small instances of Scoreboard for TLC.                                       *)
EXTENDS Scoreboard, TLC

CONSTANTS u1, u2, t1, t2, s1, s2

\* Months of two days.
MCMonthStart(m) == 2 * m

\* All of it, and halves of which one was rounded down.
MCSplits == {[u \in Members |-> IF u = u1 THEN 4 ELSE 0],
             [u \in Members |-> IF u = u1 THEN 2 ELSE 1]}

MCEdges == <<1, 2>>

MCPeriods == {<<3, 4>>, <<5, 5>>}

Symmetric == Permutations(Tabs) \cup Permutations(Sales)
===============================================================================
