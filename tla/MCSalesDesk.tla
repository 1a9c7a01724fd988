----------------------------- MODULE MCSalesDesk -----------------------------
(* Small instances of SalesDesk for TLC.                                      *)
EXTENDS SalesDesk, TLC

CONSTANTS s1, s2, c1, c2, u1, u2

MCCandidates == {<<s1, c1>>, <<s1, c2>>, <<s2, c1>>}

Symmetric == Permutations(Users)
=============================================================================
