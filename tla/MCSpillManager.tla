--------------------------- MODULE MCSpillManager ---------------------------
(* Instances of SpillManager for TLC.                                      *)
EXTENDS SpillManager, TLC

DataSymmetry == Permutations(Block) \cup Permutations(Value)
=============================================================================
