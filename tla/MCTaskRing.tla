----------------------------- MODULE MCTaskRing -----------------------------
(* Instances of TaskRing for TLC.                                          *)
EXTENDS TaskRing
=============================================================================
