----------------------------- MODULE SpillStore -----------------------------
(***************************************************************************)
(* What a spill manager promises KvBlockPool: a block that was demoted is  *)
(* kept, as it was given, until it is demoted again or evicted.  Tiers,    *)
(* files and failing I/O are not visible.                                  *)
(***************************************************************************)
CONSTANTS Block, Value, None

VARIABLES
  given,     \* block -> what the pool demoted last, None after an eviction
  kept       \* block -> what a promotion would load

Init ==
  /\ given = [b \in Block |-> None]
  /\ kept = [b \in Block |-> None]

Put(b, v) ==
  /\ given' = [given EXCEPT ![b] = v]
  /\ kept' = [kept EXCEPT ![b] = v]

Forget(b) ==
  /\ given' = [given EXCEPT ![b] = None]
  /\ kept' = [kept EXCEPT ![b] = None]

Next == \E b \in Block : Forget(b) \/ \E v \in Value : Put(b, v)

Spec == Init /\ [][Next]_<<given, kept>>
=============================================================================
