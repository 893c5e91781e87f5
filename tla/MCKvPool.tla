------------------------------ MODULE MCKvPool ------------------------------
(* Instances of KvPool for TLC: workloads over small prompts.              *)
EXTENDS KvPool, TLC

CONSTANTS r1, r2, r3

\* Three prompts with nothing in common: three blocks (the last one short),
\* one full block, one full block and a short one.
PromptsDisjoint == r1 :> <<1, 2, 3, 9, 9>> @@ r2 :> <<4, 5>> @@ r3 :> <<6, 7, 8>>

\* A shared first block: two continuations, and the block alone.
PromptsShared == r1 :> <<1, 2, 3>> @@ r2 :> <<1, 2, 4>> @@ r3 :> <<1, 2>>

\* The same two-block prompt sent three times.
PromptsRepeated == r1 :> <<1, 2, 3, 4>> @@ r2 :> <<1, 2, 3, 4>> @@ r3 :> <<1, 2, 3, 4>>

BlockSymmetry == Permutations(Block)
=============================================================================
