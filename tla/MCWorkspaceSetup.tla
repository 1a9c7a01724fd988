--------------------------- MODULE MCWorkspaceSetup ---------------------------
(* Small instances of WorkspaceSetup for TLC.                                 *)
EXTENDS WorkspaceSetup, TLC

CONSTANTS f, p1, t1, t2

MCRoles(p) == CASE p = "solo" -> {"seller"}
                [] p = "setter_closer" -> {"setter", "closer"}
                [] p = "custom" -> {}

MCStages(p) == IF p = "custom" THEN {} ELSE {"booked"}

Symmetric == Permutations(Tabs)
===============================================================================
