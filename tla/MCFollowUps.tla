----------------------------- MODULE MCFollowUps -----------------------------
(* Small instances of FollowUps for TLC.                                      *)
EXTENDS FollowUps

CONSTANTS o1, o2, o3, f1, a1, a2, u1, u2, cron, manual
=============================================================================
