------------------------------ MODULE Scheduler ------------------------------
(***************************************************************************)
(* The continuous-batching scheduler of grim-scheduler: its four queues,   *)
(* the admission controller and schedule(), called by the engine once per  *)
(* tick.                                                                   *)
(*                                                                         *)
(* schedule() holds &mut self: `pass` keeps its local variables, and no    *)
(* other operation runs until the pass has ended.  Its loop over the       *)
(* admitted requests takes one step per iteration.                         *)
(*                                                                         *)
(* Abstractions.  A queue entry is the request id and its consumed_tokens; *)
(* what never changes (prompt_tokens, priority) is a constant of the id.   *)
(* throughput_estimate keeps its initial value of one token per            *)
(* millisecond, because nothing in the program calls observe_prefill, so   *)
(* the ITL check never defers.  No readiness dispatcher is installed       *)
(* (set_readiness_dispatch has no caller either).                          *)
(***************************************************************************)
EXTENDS Integers, Sequences, FiniteSets, Functions

CONSTANTS
  Req,                 \* request ids
  Prompt,              \* Req -> prompt_tokens
  Priority,            \* Req -> priority
  MaxBatchedTokens,    \* max_batched_tokens
  MaxNumSeqs,          \* max_num_seqs
  MaxWaiting,          \* waiting length above which pressure is active (10)
  ChunkedPrefillSize,  \* chunked_prefill_size
  TargetTtft,          \* target_ttft_ms, 0 = no target
  Strict,              \* DeterminismMode::Strict
  KvPressure,          \* readings of the KV occupancy test that may happen
  CanPause             \* TRUE: the operator may pause and resume

ASSUME ReqAssumption     == Req \subseteq Nat /\ IsFiniteSet(Req)
ASSUME RequestAssumption == /\ Prompt \in [Req -> Nat \ {0}]
                            /\ Priority \in [Req -> Int]
ASSUME LimitAssumption   == {MaxBatchedTokens, MaxNumSeqs, MaxWaiting,
                             ChunkedPrefillSize} \subseteq Nat \ {0}
ASSUME TargetAssumption  == TargetTtft \in Nat
ASSUME SwitchAssumption  == /\ {Strict, CanPause} \subseteq BOOLEAN
                            /\ KvPressure \in SUBSET BOOLEAN \ {{}}

VARIABLES
  waiting, running, swapped, paused,  \* the queues
  arrived,      \* requests in the order enqueue was called
  finished,     \* requests finish was called for
  caught,       \* requests that finish found waiting
  reached,      \* request -> the offset its last scheduled chunk ended at
  pass,         \* locals of the schedule() call in progress
  out           \* SchedulerOutput

queues == <<waiting, running, swapped, paused>>
history == <<arrived, finished, caught, reached>>
vars   == <<queues, history, pass, out>>

Entry == [id : Req, consumed : Nat]

Ids(q) == {q[i].id : i \in DOMAIN q}

Live == Range(arrived) \ finished

Remaining(e) == Prompt[e.id] - e.consumed

\* sort_by_key, which is stable.  The keys are functions of the request id.
StableSort(q, key) ==
  LET upTo(i) == {k \in DOMAIN q : \/ key[q[k].id] < key[q[i].id]
                                   \/ key[q[k].id] = key[q[i].id] /\ k <= i}
  IN  [n \in DOMAIN q |-> q[CHOOSE i \in DOMAIN q : Cardinality(upTo(i)) = n]]

ById == [r \in Req |-> r]

ByPriority == Priority

HighestFirst == [r \in Req |-> -Priority[r]]

Tokens(q, Count(_)) == SumFunction([i \in DOMAIN q |-> Count(q[i])])

Full(e) == Prompt[e.id]

\* compute_token_backlog counts whole prompts, consumed tokens included.
Backlog(q) == Tokens(q, Full)

\* The entries of q at the positions in keep, in their order.
Kept(q, keep) ==
  LET Nth(k) == CHOOSE i \in keep : Cardinality({j \in keep : j <= i}) = k
  IN  [k \in 1..Cardinality(keep) |-> q[Nth(k)]]

\* retain(|r| r.id != id)
Without(q, r) == Kept(q, {i \in DOMAIN q : q[i].id # r})

\* Mutant of PutRunning: every chunk appends a fresh copy.
PutRunningCopy(e) == Append(running, e)

\* One running entry per request: replace it in place, or append.
PutRunning(e) ==
  IF e.id \in Ids(running)
  THEN LET at == CHOOSE i \in DOMAIN running :
                    /\ running[i].id = e.id
                    /\ \A j \in DOMAIN running : running[j].id = e.id => i <= j
       IN  [running EXCEPT ![at] = e]
  ELSE Append(running, e)

Reversed(q) == [i \in DOMAIN q |-> q[Len(q) + 1 - i]]

Done == [phase |-> "idle", admitted |-> <<>>, pressure |-> FALSE, crowded |-> FALSE,
         backlog |-> 0, base |-> 0, total |-> 0]

Nothing == [prefill |-> <<>>, decode |-> <<>>]

Init ==
  /\ waiting = <<>> /\ running = <<>> /\ swapped = <<>> /\ paused = <<>>
  /\ arrived = <<>> /\ finished = {} /\ caught = {} /\ reached = [r \in Req |-> 0]
  /\ pass = Done
  /\ out = Nothing

-----------------------------------------------------------------------------
(* schedule().                                                             *)

\* AdmissionController::admit, in tokens (= milliseconds).
Admits(e, backlog) ==
  \/ backlog <= Full(e) /\ Full(e) > TargetTtft
  \/ TargetTtft = 0
  \/ Full(e) + backlog <= TargetTtft

\* Mutant of BeginPass: the waiting queue is not sorted by priority.
BeginPassUnsorted(kv) ==
  /\ pass.phase = "idle"
  /\ out' = Nothing
  /\ pass' = [Done EXCEPT !.phase = "admit", !.pressure = kv, !.backlog = Backlog(waiting)]
  /\ UNCHANGED <<queues, history>>

\* Sort, measure the pressure (kv: the KV occupancy reading), and once no
\* pressure is active put the swapped requests in front of the waiting ones,
\* dropping those that are still tracked.
BeginPass(kv) ==
  LET w       == IF Strict THEN StableSort(waiting, ById) ELSE StableSort(waiting, HighestFirst)
      r       == IF Strict THEN StableSort(running, ById) ELSE running
      backlog == Backlog(w)
      crowded == Tokens(r, Remaining) > MaxBatchedTokens
      press   == backlog > MaxBatchedTokens \/ Len(w) > MaxWaiting \/ crowded \/ kv
      back    == Kept(swapped, {i \in DOMAIN swapped : swapped[i].id \notin Ids(w) \cup Ids(r)})
  IN  /\ pass.phase = "idle"
      /\ waiting' = IF press THEN w ELSE back \o w
      /\ swapped' = IF press THEN swapped ELSE <<>>
      /\ running' = r
      /\ out' = Nothing
      /\ pass' = [Done EXCEPT !.phase = "admit", !.pressure = press,
                              !.crowded = crowded, !.backlog = backlog]
      /\ UNCHANGED <<paused, history>>

\* Admission: take requests from the front up to the first deferred one,
\* which goes to the back.
AdmitWaiting ==
  LET n == Cardinality({i \in DOMAIN waiting :
                          \A j \in 1..i : Admits(waiting[j], pass.backlog)})
  IN  /\ pass.phase = "admit"
      /\ pass' = [pass EXCEPT !.phase = "preempt", !.admitted = SubSeq(waiting, 1, n)]
      /\ waiting' = IF n = Len(waiting) THEN <<>>
                    ELSE Append(SubSeq(waiting, n + 2, Len(waiting)), waiting[n + 1])
      /\ UNCHANGED <<running, swapped, paused, history, out>>

\* Mutant of Preempt: the victim leaves the batch and is not kept.
PreemptDropped ==
  /\ pass.phase = "preempt"
  /\ running' = IF pass.crowded /\ running # <<>> THEN Tail(running) ELSE running
  /\ pass' = [pass EXCEPT !.phase = "fill", !.base = Len(running')]
  /\ UNCHANGED <<waiting, swapped, paused, history, out>>

\* Swap out the lowest-priority running request under token pressure.
Preempt ==
  LET victims == pass.pressure /\ pass.crowded /\ running # <<>>
      sorted  == StableSort(running, ByPriority)
      left    == IF victims THEN Tail(sorted) ELSE running
  IN  /\ pass.phase = "preempt"
      /\ running' = left
      /\ swapped' = IF victims THEN Append(swapped, Head(sorted)) ELSE swapped
      /\ pass' = [pass EXCEPT !.phase = "fill", !.base = Len(left)]
      /\ UNCHANGED <<waiting, paused, history, out>>

Filling == pass.phase = "fill" /\ pass.admitted # <<>>

Next1 == Head(pass.admitted)

Chunk == IF pass.pressure /\ ChunkedPrefillSize < Remaining(Next1)
         THEN ChunkedPrefillSize ELSE Remaining(Next1)

Advanced == [Next1 EXCEPT !.consumed = @ + Chunk]

\* Mutant of Remainder: it keeps the offset before the chunk.
RemainderStale == IF Remaining(Advanced) > 0 THEN <<Next1>> ELSE <<>>

\* Mutant of Remainder: forgotten.
RemainderLost == <<>>

\* What goes back to `waiting` of a request whose chunk was not the last.
Remainder == IF Remaining(Advanced) > 0 THEN <<Advanced>> ELSE <<>>

SeqsFull == pass.base + Len(out.prefill) >= MaxNumSeqs

\* No sequence slot left: back to the waiting queue.
FillNoSlot ==
  /\ Filling
  /\ SeqsFull
  /\ waiting' = Append(waiting, Next1)
  /\ pass' = [pass EXCEPT !.admitted = Tail(@)]
  /\ UNCHANGED <<running, swapped, paused, history, out>>

\* Fully prefilled before it was swapped out: straight back to running.
FillReenter ==
  /\ Filling
  /\ ~SeqsFull
  /\ Remaining(Next1) = 0
  /\ running' = PutRunning(Next1)
  /\ pass' = [pass EXCEPT !.admitted = Tail(@)]
  /\ UNCHANGED <<waiting, swapped, paused, history, out>>

\* The token budget is spent: the loop ends, and what is left in the local
\* `admitted` queue is dropped with it.
FillOverBudget ==
  /\ Filling
  /\ ~SeqsFull
  /\ Remaining(Next1) > 0
  /\ pass.total + Chunk > MaxBatchedTokens
  /\ waiting' = Append(waiting, Next1)
  /\ pass' = [pass EXCEPT !.admitted = <<>>]
  /\ UNCHANGED <<running, swapped, paused, history, out>>

\* Schedule a chunk.  Under pressure it is the only one of the pass: the
\* other admitted requests go back last first, then the remainder.
FillChunk ==
  /\ Filling
  /\ ~SeqsFull
  /\ Remaining(Next1) > 0
  /\ pass.total + Chunk <= MaxBatchedTokens
  /\ running' = PutRunning(Advanced)
  /\ waiting' = waiting \o (IF pass.pressure THEN Reversed(Tail(pass.admitted)) ELSE <<>>)
                        \o Remainder
  /\ out' = [out EXCEPT !.prefill = Append(@, Next1.id)]
  /\ pass' = [pass EXCEPT !.total = @ + Chunk,
                          !.admitted = IF pass.pressure THEN <<>> ELSE Tail(@)]
  /\ reached' = [reached EXCEPT ![Next1.id] = Advanced.consumed]
  /\ UNCHANGED <<swapped, paused, arrived, finished, caught>>

\* Mutant of EndPass: partly prefilled requests decode too.
EndPassEager ==
  LET ready == Kept(running, {i \in DOMAIN running : running[i].id \notin Range(out.prefill)})
  IN  /\ pass.phase = "fill"
      /\ pass.admitted = <<>>
      /\ out' = [out EXCEPT !.decode = [i \in DOMAIN ready |-> ready[i].id]]
      /\ pass' = Done
      /\ UNCHANGED <<queues, history>>

\* decode_ids: running requests that are fully prefilled and not prefilling.
EndPass ==
  LET ready == Kept(running, {i \in DOMAIN running : /\ running[i].id \notin Range(out.prefill)
                                                     /\ Remaining(running[i]) <= 0})
  IN  /\ pass.phase = "fill"
      /\ pass.admitted = <<>>
      /\ out' = [out EXCEPT !.decode = [i \in DOMAIN ready |-> ready[i].id]]
      /\ pass' = Done
      /\ UNCHANGED <<queues, history>>

Schedule == \/ \E kv \in KvPressure : BeginPass(kv)
            \/ AdmitWaiting
            \/ Preempt
            \/ FillNoSlot \/ FillReenter \/ FillOverBudget \/ FillChunk
            \/ EndPass

-----------------------------------------------------------------------------
(* The other operations, between two passes.                               *)

Enqueue(r) ==
  /\ pass.phase = "idle"
  /\ r \notin Range(arrived)
  /\ waiting' = Append(waiting, [id |-> r, consumed |-> 0])
  /\ arrived' = Append(arrived, r)
  /\ UNCHANGED <<running, swapped, paused, finished, caught, reached, pass, out>>

\* Mutant of Finish: the swapped entry survives.
FinishKeepsSwapped(r) ==
  /\ pass.phase = "idle"
  /\ r \in Range(arrived)
  /\ running' = Without(running, r)
  /\ paused' = Without(paused, r)
  /\ finished' = finished \cup {r}
  /\ caught' = caught \cup ({r} \cap Ids(waiting))
  /\ UNCHANGED <<waiting, swapped, arrived, reached, pass, out>>

\* finish, which leaves `waiting` alone.  The handlers call it through
\* finish_request once a sampled token ends the request (the end token, a stop
\* sequence, max_tokens), on an error, on a cancel and when the stream is
\* dropped.  None of them looks at the queues: the token may come from a partial
\* prefill, or be the 0 that stands for no outcome yet, and two of the calls may
\* be for the same request.
Finish(r) ==
  /\ pass.phase = "idle"
  /\ r \in Range(arrived)
  /\ running' = Without(running, r)
  /\ swapped' = Without(swapped, r)
  /\ paused' = Without(paused, r)
  /\ finished' = finished \cup {r}
  /\ caught' = caught \cup ({r} \cap Ids(waiting))
  /\ UNCHANGED <<waiting, arrived, reached, pass, out>>

\* The finish that fairness is about: of a request that decoded in the last pass.
Complete(r) == r \in Range(out.decode) /\ Finish(r)

\* Position of r in queue q, for a queue that has it.
PosOf(r, q) == CHOOSE i \in DOMAIN q :
                 q[i].id = r /\ \A j \in DOMAIN q : q[j].id = r => i <= j

Removed(q, i) == SubSeq(q, 1, i - 1) \o SubSeq(q, i + 1, Len(q))

\* Mutant of Pause: the request is queued again as well.
PauseRequeues(r) ==
  /\ CanPause
  /\ pass.phase = "idle"
  /\ r \in Ids(running)
  /\ running' = Removed(running, PosOf(r, running))
  /\ paused' = Append(paused, running[PosOf(r, running)])
  /\ waiting' = Append(waiting, running[PosOf(r, running)])
  /\ UNCHANGED <<swapped, history, pass, out>>

Pause(r) ==
  /\ CanPause
  /\ pass.phase = "idle"
  /\ r \in Ids(running)
  /\ running' = Removed(running, PosOf(r, running))
  /\ paused' = Append(paused, running[PosOf(r, running)])
  /\ UNCHANGED <<waiting, swapped, history, pass, out>>

Resume(r) ==
  /\ CanPause
  /\ pass.phase = "idle"
  /\ r \in Ids(paused)
  /\ paused' = Removed(paused, PosOf(r, paused))
  /\ running' = Append(running, paused[PosOf(r, paused)])
  /\ UNCHANGED <<waiting, swapped, history, pass, out>>

Next == \/ Schedule
        \/ \E r \in Req : Enqueue(r) \/ Finish(r) \/ Pause(r) \/ Resume(r)

Spec == Init /\ [][Next]_vars

\* The engine keeps ticking while it has requests, and a request that
\* decodes over and over reaches max_tokens.  Nothing obliges a request to
\* finish before it decodes.
FairSpec == Spec /\ WF_vars(Schedule) /\ \A r \in Req : SF_vars(Complete(r))

-----------------------------------------------------------------------------
(* Properties.                                                             *)

\* Type of the state; no entry has consumed more than its prompt.
TypeOK ==
  /\ \A q \in {waiting, running, swapped, paused, pass.admitted} :
        \A i \in DOMAIN q : q[i] \in Entry /\ q[i].consumed <= Prompt[q[i].id]
  /\ Range(arrived) \subseteq Req /\ finished \subseteq Range(arrived) /\ caught \subseteq finished
  /\ pass.phase \in {"idle", "admit", "preempt", "fill"}
  /\ Range(out.prefill) \cup Range(out.decode) \subseteq Req

\* Occurrences of r's id in queue q.
Entries(r, q) == Cardinality({i \in DOMAIN q : q[i].id = r})

\* "One running entry per request": chunked requests that re-enter through
\* waiting, preempted and swapped-in ones never leave a duplicate.
OneRunningEntry == \A r \in Req : Entries(r, running) <= 1

\* schedule() loses no request: between two passes a live one is in a queue.
NoneLost ==
  pass.phase = "idle" => Live \subseteq Ids(waiting) \cup Ids(running) \cup Ids(swapped) \cup Ids(paused)

\* "Max 8 concurrent sequences": the batch never outgrows max_num_seqs.
SeqLimit == Len(running) <= MaxNumSeqs

\* A request decodes only when none of its prompt is left to schedule.
DecodeAfterPrefill ==
  pass.phase = "idle" => \A r \in Range(out.decode) :
     \A i \in DOMAIN waiting : waiting[i].id = r => Remaining(waiting[i]) = 0

\* "Request must be scheduled at most once" per pass.
ScheduledOnce ==
  \A r \in Req : Cardinality({i \in DOMAIN out.prefill : out.prefill[i] = r}) <= 1

\* "Chunked prefill resumes at the true offset": a chunk starts where the
\* request's previous one ended.
TrueOffset == [][FillChunk => Next1.consumed = reached[Next1.id]]_vars

\* "Higher priority first, arrival order breaking ties": a request starts its
\* prefill only when no better placed one is still waiting to start.
Arrival(r) == CHOOSE i \in DOMAIN arrived : arrived[i] = r

Before(r, s) == \/ Priority[r] > Priority[s]
                \/ Priority[r] = Priority[s] /\ Arrival(r) < Arrival(s)

AdmissionOrder ==
  [][FillChunk /\ Next1.consumed = 0 =>
       \A e \in Range(waiting \o pass.admitted) : e.consumed = 0 => ~Before(e.id, Next1.id)]_vars

\* A paused request "will not be selected for the running batch until
\* resume is called".
PausedStaysOut ==
  [][EndPass => Ids(paused) \cap (Range(out.prefill) \cup Ids(running)) = {}]_vars

\* A finished request is prefilled or decoded again only if finish left an entry
\* of it in `waiting`: preemption, swap-in, pause and the remainders of chunks
\* bring no other one back.
FinishedStaysOut == [][EndPass => finished \cap Range(out.prefill \o out'.decode) \subseteq caught]_vars

\* What the handlers expect of finish: no finished request is scheduled again.
\* It does not hold, because a request may be finished while it waits.
FinishedForGood == [][EndPass => finished \cap Range(out.prefill \o out'.decode) = {}]_vars

\* Every request that arrives gets to decode, or is finished.
Served == \A r \in Req : r \in Live ~> r \in finished \cup Range(out.decode)

=============================================================================
