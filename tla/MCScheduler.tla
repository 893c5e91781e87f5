----------------------------- MODULE MCScheduler -----------------------------
(* Instances of Scheduler for TLC: request ids 1..3 and small prompts.     *)
EXTENDS Scheduler, TLC

\* Two short prompts and one that needs several chunks.
PromptsMixed == 1 :> 3 @@ 2 :> 2 @@ 3 :> 1

PromptsEqual == [r \in Req |-> 2]

PromptsLong == [r \in Req |-> 4]

PromptsLonger == [r \in Req |-> 5]

PriorityEqual == [r \in Req |-> 0]

\* The request with the long prompt has the lowest priority.
PriorityMixed == 1 :> -1 @@ 2 :> 0 @@ 3 :> 0
=============================================================================
