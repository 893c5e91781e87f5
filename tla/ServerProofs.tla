---------------------------- MODULE ServerProofs ----------------------------
(***************************************************************************)
(* Proofs about ServerRequests: for any finite set of requests, any mix of *)
(* handlers and all faults, the admission counter counts the live tickets, *)
(* the tickets are those of the running handlers, and the queue limit      *)
(* holds; a request that ended has left nothing behind; and, when prompts  *)
(* are not chunked, only disturbed requests get tokens of a wrong context. *)
(***************************************************************************)
EXTENDS ServerRequests, FiniteSetTheorems, TLAPS

Places == {"idle", "checked", "full", "admitted", "ready", "waiting", "ended", "dropped",
           "refused"}

\* The places at which a handler owns a ticket.
Owns(r, p) == p = "admitted" \/ (p \in {"ready", "waiting"} /\ kind[r] # "textStream")

\* The inductive invariant: AdmissionHolds needs to know, when a handler takes
\* or drops its ticket, whether it had one, which TicketOfHandler says.
Core ==
  /\ pc \in [Requests -> Places]
  /\ tickets \subseteq Requests
  /\ TicketOfHandler
  /\ AdmissionHolds

Moves(r, p) == pc' = [pc EXCEPT ![r] = p] /\ kind' = kind

-----------------------------------------------------------------------------

\* The sets that are counted are finite.
LEMMA FiniteCounted ==
  ASSUME Core
  PROVE  /\ IsFiniteSet(Counted) /\ IsFiniteSet(tickets)
         /\ Cardinality(Counted) \in Nat /\ Cardinality(tickets) \in Nat
         /\ Cardinality(tickets) <= Cardinality(Counted)
<1>1. Counted \in SUBSET Requests /\ tickets \in SUBSET Requests /\ tickets \in SUBSET Counted
  BY DEF Core, Counted
<1>2. IsFiniteSet(Counted) /\ IsFiniteSet(tickets)
  BY <1>1, FS_Subset, ServerAssumption
<1>3. Cardinality(tickets) <= Cardinality(Counted)
  BY <1>1, <1>2, FS_Subset
<1> QED
  BY <1>2, <1>3, FS_CardinalityType

\* A step that touches neither tickets nor places keeps the invariant.
LEMMA StillStep ==
  ASSUME Core, UNCHANGED <<pc, kind, counter, tickets>>
  PROVE  Core'
<1>1. TicketOfHandler'
  BY DEF Core, TicketOfHandler
<1>2. Counted' = Counted
  BY DEF Counted
<1> QED
  BY <1>1, <1>2 DEF Core, AdmissionHolds

\* A handler that moves on with the ticket it has keeps the invariant.
LEMMA MoveStep ==
  ASSUME Core, NEW r \in Requests, NEW p \in Places \ {"full"}, pc[r] # "full",
         Moves(r, p), UNCHANGED <<counter, tickets>>, r \in tickets <=> Owns(r, p)
  PROVE  Core'
<1>1. pc' \in [Requests -> Places]
  BY DEF Core, Moves
<1>2. TicketOfHandler'
  BY DEF Core, Moves, TicketOfHandler, Owns
<1>3. Counted' = Counted
  BY DEF Core, Moves, Counted
<1> QED
  BY <1>1, <1>2, <1>3 DEF Core, AdmissionHolds

\* A handler that drops its ticket, if it still has one, and ends or goes on
\* without one keeps the invariant.
LEMMA ReleaseStep ==
  ASSUME Core, NEW r \in Requests, NEW p \in Places \ {"full"}, pc[r] # "full",
         Moves(r, p), Release(r), ~ Owns(r, p)
  PROVE  Core'
<1>1. pc' \in [Requests -> Places] /\ tickets' \subseteq Requests
  BY DEF Core, Moves, Release
<1>2. TicketOfHandler'
  BY DEF Core, Moves, TicketOfHandler, Owns, Release
<1>3. Counted' = Counted \ {r} /\ (r \in Counted <=> r \in tickets)
  BY DEF Core, Moves, Counted, Release
<1>4. /\ Cardinality(Counted') = IF r \in tickets THEN Cardinality(Counted) - 1
                                                  ELSE Cardinality(Counted)
      /\ Cardinality(tickets') <= Cardinality(tickets)
      /\ Cardinality(tickets') \in Nat
  <2>1. Cardinality(Counted \ {r}) = IF r \in Counted THEN Cardinality(Counted) - 1
                                                      ELSE Cardinality(Counted)
    BY FiniteCounted, FS_RemoveElement
  <2>2. /\ IsFiniteSet(tickets \ {r})
        /\ Cardinality(tickets \ {r}) = IF r \in tickets THEN Cardinality(tickets) - 1
                                                         ELSE Cardinality(tickets)
    BY FiniteCounted, FS_RemoveElement
  <2>3. Cardinality(tickets \ {r}) \in Nat
    BY <2>2, FS_CardinalityType
  <2>4. tickets' = tickets \ {r}
    BY DEF Release
  <2> QED
    BY <1>3, <2>1, <2>2, <2>3, <2>4, FiniteCounted
<1>5. AdmissionHolds'
  BY <1>3, <1>4, FiniteCounted, ServerAssumption DEF Core, AdmissionHolds, Release
<1> QED
  BY <1>1, <1>2, <1>5 DEF Core

\* The optimistic fetch_add, whether it admits or not.
LEMMA CountStep ==
  ASSUME Core, NEW r \in Requests, Count(r)
  PROVE  Core'
<1>1. r \notin tickets /\ pc[r] = "checked" /\ r \notin Counted
  BY DEF Core, Count, TicketOfHandler, Counted
<1>2. counter = Cardinality(Counted) /\ counter \in Nat
  BY FiniteCounted DEF Core, AdmissionHolds
<1>3. Cardinality(Counted \cup {r}) = counter + 1
  BY <1>1, <1>2, FiniteCounted, FS_AddElement
<1>4. CASE HasRoom(counter)
  <2>1. pc' = [pc EXCEPT ![r] = "admitted"] /\ tickets' = tickets \cup {r} /\ counter' = counter + 1
        /\ kind' = kind
    BY <1>4 DEF Count
  <2>2. pc' \in [Requests -> Places] /\ tickets' \subseteq Requests
    BY <2>1 DEF Core, Places
  <2>3. TicketOfHandler'
    BY <2>1 DEF Core, TicketOfHandler
  <2>4. Counted' = Counted \cup {r}
    BY <1>1, <2>1 DEF Core, Counted
  <2>5. Cardinality(tickets') = Cardinality(tickets) + 1
    BY <1>1, <2>1, FiniteCounted, FS_AddElement
  <2>6. Cardinality(tickets') <= MaxQueue
    BY <1>2, <1>4, <2>5, FiniteCounted, ServerAssumption DEF HasRoom
  <2> QED
    BY <1>3, <2>1, <2>2, <2>3, <2>4, <2>6 DEF Core, AdmissionHolds
<1>5. CASE ~ HasRoom(counter)
  <2>1. pc' = [pc EXCEPT ![r] = "full"] /\ tickets' = tickets /\ counter' = counter + 1
        /\ kind' = kind
    BY <1>5 DEF Count
  <2>2. pc' \in [Requests -> Places] /\ tickets' \subseteq Requests
    BY <2>1 DEF Core, Places
  <2>3. TicketOfHandler'
    BY <1>1, <2>1 DEF Core, TicketOfHandler
  <2>4. Counted' = Counted \cup {r}
    BY <1>1, <2>1 DEF Core, Counted
  <2> QED
    BY <1>3, <2>1, <2>2, <2>3, <2>4 DEF Core, AdmissionHolds
<1> QED
  BY <1>4, <1>5

\* The increment is taken back.
LEMMA UncountStep ==
  ASSUME Core, NEW r \in Requests, Uncount(r)
  PROVE  Core'
<1>1. r \notin tickets /\ r \in Counted
  BY DEF Core, Uncount, TicketOfHandler, Counted
<1>2. pc' = [pc EXCEPT ![r] = "refused"] /\ tickets' = tickets /\ counter' = counter - 1
      /\ kind' = kind
  BY DEF Uncount
<1>3. pc' \in [Requests -> Places] /\ tickets' \subseteq Requests
  BY <1>2 DEF Core, Places
<1>4. TicketOfHandler'
  BY <1>1, <1>2 DEF Core, TicketOfHandler
<1>5. Counted' = Counted \ {r}
  BY <1>1, <1>2 DEF Core, Counted
<1>6. Cardinality(Counted') = Cardinality(Counted) - 1
  BY <1>1, <1>5, FiniteCounted, FS_RemoveElement
<1> QED
  BY <1>2, <1>3, <1>4, <1>6 DEF Core, AdmissionHolds

-----------------------------------------------------------------------------

\* End of a handler: by the guard or by itself, it drops its ticket.
LEMMA EndStep ==
  ASSUME Core, NEW r \in Requests, pc[r] # "full", End(r), kind' = kind
  PROVE  Core'
<1>1. Release(r) /\ Moves(r, "ended")
  BY DEF End, CleanUp, Finish, Moves
<1> QED
  BY <1>1, ReleaseStep DEF Owns, Places

\* Every step of the server keeps the invariant.
LEMMA CoreStep == Core /\ [Next]_vars => Core'
<1> SUFFICES ASSUME Core, [Next]_vars PROVE Core'
    OBVIOUS
<1> USE DEF Places
<1>1. ASSUME NEW r \in Requests, Arrive(r) PROVE Core'
  <2>1. r \notin tickets /\ pc[r] = "idle"
    BY <1>1 DEF Core, TicketOfHandler, Arrive
  <2>2. CASE phase = "up"
    BY <1>1, <2>1, <2>2, MoveStep DEF Arrive, Moves, Owns, server
  <2>3. CASE phase # "up"
    BY <1>1, <2>1, <2>3, MoveStep DEF Arrive, Moves, Owns, server
  <2> QED
    BY <2>2, <2>3
<1>2. ASSUME NEW r \in Requests, Count(r) \/ Uncount(r) PROVE Core'
  BY <1>2, CountStep, UncountStep
<1>3. ASSUME NEW r \in Requests, RejectInvalid(r) PROVE Core'
  BY <1>3, ReleaseStep DEF RejectInvalid, Moves, Owns
<1>4. ASSUME NEW r \in Requests, Begin(r) PROVE Core'
  <2>1. r \in tickets /\ pc[r] = "admitted" /\ Moves(r, "ready")
    BY <1>4 DEF Core, TicketOfHandler, Begin, Moves
  <2>2. CASE kind[r] = "textStream"
    BY <1>4, <2>1, <2>2, ReleaseStep DEF Begin, Owns
  <2>3. CASE kind[r] # "textStream"
    BY <1>4, <2>1, <2>3, MoveStep DEF Begin, Owns
  <2> QED
    BY <2>2, <2>3
<1>5. ASSUME NEW r \in Requests, Close(r) PROVE Core'
  BY <1>5, EndStep DEF Close
<1>6. ASSUME NEW r \in Requests, ToolDelta(r) PROVE Core'
  BY <1>6, StillStep DEF ToolDelta, handler
<1>7. ASSUME NEW r \in Requests, Submit(r) PROVE Core'
  <2>1. pc[r] = "ready" /\ (r \in tickets <=> Owns(r, "waiting"))
    BY <1>7 DEF Core, TicketOfHandler, Submit, Owns
  <2> QED
    BY <1>7, <2>1, MoveStep DEF Submit, Moves
<1>8. ASSUME NEW r \in Requests, NEW n, pc[r] = "waiting", GoOn(r, n) PROVE Core'
  <2>1. pc[r] = "waiting" /\ (r \in tickets <=> Owns(r, "ready"))
    BY <1>8 DEF Core, TicketOfHandler, Owns
  <2> QED
    BY <1>8, <2>1, MoveStep DEF GoOn, Moves, server
<1>9. ASSUME NEW r \in Requests, Token(r) \/ StreamLast(r) \/ StreamTools(r) PROVE Core'
  BY <1>8, <1>9 DEF Token, StreamLast, StreamTools, Receive
<1>10. ASSUME NEW r \in Requests, Stop(r) PROVE Core'
  BY <1>10, EndStep DEF Stop, Receive
<1>11. ASSUME NEW r \in Requests, Disconnect(r) PROVE Core'
  <2>1. pc[r] # "full" /\ Release(r) /\ Moves(r, "dropped")
    BY <1>11 DEF Disconnect, CleanUp, Moves
  <2> QED
    BY <2>1, ReleaseStep DEF Owns
<1>12. ASSUME NEW r \in Requests, Timeout(r) PROVE Core'
  <2>1. pc[r] # "full" /\ Release(r) /\ Moves(r, "dropped")
    BY <1>12 DEF Timeout, Finish, Moves
  <2> QED
    BY <2>1, ReleaseStep DEF Owns
<1>13. ASSUME NEW r \in Requests, Cancel(r) PROVE Core'
  BY <1>13, StillStep DEF Cancel, handler
<1>14. CASE Work \/ WorkFails
  BY <1>14, StillStep DEF Work, WorkFails
<1>15. CASE ShutFlag \/ CancelAll \/ Drain
  BY <1>15, StillStep DEF ShutFlag, CancelAll, Drain, handler, server
<1>16. CASE UNCHANGED vars
  BY <1>16, StillStep DEF vars, handler, server
<1> QED
  BY <1>1, <1>2, <1>3, <1>4, <1>5, <1>6, <1>7, <1>9, <1>10, <1>11, <1>12, <1>13, <1>14, <1>15,
     <1>16 DEF Next, Handle

\* The initial state has no ticket.
LEMMA CoreInit == Init => Core
<1> SUFFICES ASSUME Init PROVE Core
    OBVIOUS
<1>1. pc \in [Requests -> Places] /\ tickets = {} /\ counter = 0
  BY DEF Init, Places
<1>2. TicketOfHandler /\ Counted = {}
  BY DEF Init, TicketOfHandler, Counted
<1> QED
  BY <1>1, <1>2, FS_EmptySet, ServerAssumption DEF Core, AdmissionHolds

\* For every number of requests: the counter is the number of live tickets and
\* of refused handlers about to take their increment back, and at most
\* MaxQueue tickets are alive, although try_acquire_in adds before it compares.
THEOREM AdmissionHeld == Spec => []AdmissionHolds
<1>1. Core => AdmissionHolds
  BY DEF Core
<1> QED
  BY <1>1, CoreInit, CoreStep, PTL DEF Spec

\* For every number of requests: no exit path of a handler - end, error, stop,
\* cancel, disconnect, timeout - keeps a ticket or drops it twice.
THEOREM TicketsFollowHandlers == Spec => []TicketOfHandler
<1>1. Core => TicketOfHandler
  BY DEF Core
<1> QED
  BY <1>1, CoreInit, CoreStep, PTL DEF Spec

-----------------------------------------------------------------------------
(* The types of the rest of the state.                                     *)

\* A handler waits only for a step it still needs: its next token fits.
WaitsForMore == \A r \in Requests : pc[r] = "waiting" => step[r] < MaxTokens

Typed == Core /\ TypeOK /\ WaitsForMore

\* A tick keeps the engine's entries in their type.
LEMMA DrivenType ==
  ASSUME NEW e \in EngineStates
  PROVE  /\ e.left > 0 => Prefilled(e) \in EngineStates
         /\ Decoded(e) \in EngineStates
         /\ [e EXCEPT !.ctx = Fed(e.ctx, e.last)] \in EngineStates
<1>1. Chunks \in Nat /\ MaxTokens \in Nat
  BY ServerAssumption
<1>2. Fed(e.ctx, e.last) \in {Bad} \cup 0..MaxTokens
  BY <1>1 DEF EngineStates, Fed, Bad, None
<1>3. e.left > 0 => Prefilled(e) \in EngineStates
  <2> SUFFICES ASSUME e.left > 0 PROVE Prefilled(e) \in EngineStates
    OBVIOUS
  <2>1. e.left - 1 \in 0..Chunks
    BY <1>1 DEF EngineStates
  <2>2. (IF e.left = 1 THEN 0 ELSE Bad) \in {Bad, None} \cup 0..MaxTokens
    BY <1>1
  <2> QED
    BY <2>1, <2>2 DEF EngineStates, Prefilled
<1>4. Fed(e.ctx, e.last) \in {Bad, None} \cup 0..MaxTokens
  BY <1>2
<1>5. [e EXCEPT !.ctx = Fed(e.ctx, e.last)] \in EngineStates
  BY <1>2 DEF EngineStates
<1>6. Decoded(e) \in EngineStates
  BY <1>2, <1>4 DEF EngineStates, Decoded
<1> QED
  BY <1>3, <1>5, <1>6

\* So do the whole tick, the half of one, admission and the recorded token.
LEMMA EngineType ==
  ASSUME NEW es \in [Requests -> EngineStates]
  PROVE  /\ Driven(es) \in [Requests -> EngineStates]
         /\ \A P \in SUBSET Prefilling(es), D \in SUBSET Decoding(es) :
               HalfDriven(es, P, D) \in [Requests -> EngineStates]
         /\ \A r \in Requests, t \in 1..MaxTokens : Recorded(es, r, t) \in [Requests -> EngineStates]
<1>1. Driven(es) \in [Requests -> EngineStates]
  <2>1. ASSUME NEW q \in Requests PROVE Driven(es)[q] \in EngineStates
    <3>1. es[q] \in EngineStates /\ (es[q].left > 0 \/ ~ (es[q].left > 0))
      OBVIOUS
    <3> QED
      BY <3>1, DrivenType DEF Driven
  <2> QED
    BY <2>1 DEF Driven
<1>2. ASSUME NEW P \in SUBSET Prefilling(es), NEW D \in SUBSET Decoding(es)
      PROVE  HalfDriven(es, P, D) \in [Requests -> EngineStates]
  <2>1. ASSUME NEW q \in Requests PROVE HalfDriven(es, P, D)[q] \in EngineStates
    <3>1. es[q] \in EngineStates
      OBVIOUS
    <3>2. q \in P => es[q].left > 0
      BY DEF Prefilling
    <3> QED
      BY <3>1, <3>2, DrivenType DEF HalfDriven
  <2> QED
    BY <2>1 DEF HalfDriven
<1>3. ASSUME NEW r \in Requests, NEW t \in 1..MaxTokens
      PROVE  Recorded(es, r, t) \in [Requests -> EngineStates]
  <2>1. es[r] \in EngineStates
    OBVIOUS
  <2>2. [es[r] EXCEPT !.last = t] \in EngineStates
    BY <2>1 DEF EngineStates
  <2> QED
    BY <2>2 DEF Recorded
<1> QED
  BY <1>1, <1>2, <1>3

\* What a step of the inference thread finds in the engine.
LEMMA AdmittedType ==
  ASSUME engine \in [Requests -> EngineStates], NEW job \in Jobs, NEW es \in Admitted(job)
  PROVE  es \in [Requests -> EngineStates]
<1>1. Enqueued \in EngineStates
  <2>1. Chunks \in 0..Chunks /\ 0 \in 0..MaxTokens
    BY ServerAssumption
  <2> QED
    BY <2>1 DEF EngineStates, Enqueued
<1>2. job.req \in Requests
  BY DEF Jobs
<1> QED
  BY <1>1, <1>2 DEF Admitted

\* finish_request leaves the engine's entries in their type.
LEMMA FinishType ==
  ASSUME engine \in [Requests -> EngineStates], NEW r \in Requests, FinishRequest(r)
  PROVE  engine' \in [Requests -> EngineStates]
<1>1. Gone \in EngineStates
  BY ServerAssumption DEF Gone, EngineStates, None, Bad
<1> QED
  BY <1>1 DEF FinishRequest

\* The channel after a step was taken from it or added to it.
LEMMA JobsType ==
  ASSUME jobs \in Seq(Jobs)
  PROVE  /\ jobs # <<>> => Head(jobs) \in Jobs /\ Tail(jobs) \in Seq(Jobs)
         /\ \A j \in Jobs : Append(jobs, j) \in Seq(Jobs)
OBVIOUS

\* What the inference thread does to the channel, the engine and the answer.
LEMMA WorkType ==
  ASSUME Typed, Core', Work \/ WorkFails
  PROVE  Typed'
<1>1. /\ jobs # <<>> /\ Head(jobs) \in Jobs /\ jobs' = Tail(jobs) /\ jobs' \in Seq(Jobs)
      /\ UNCHANGED <<pc, kind, step, parses, counter, tickets, registered, cancelled, params, phase>>
  BY JobsType DEF Work, WorkFails, Typed, TypeOK
<1> DEFINE r == Head(jobs).req
<1>2. r \in Requests /\ Head(jobs).at + 1 \in 1..MaxTokens
  BY <1>1, ServerAssumption DEF Jobs
<1>3. ASSUME NEW a \in Answers, Respond(r, a) PROVE answer' \in [Requests -> Answers]
  BY <1>2, <1>3 DEF Respond, Typed, TypeOK
<1>4. engine \in [Requests -> EngineStates]
  BY DEF Typed, TypeOK
<1>5. CASE Work
  <2>1. PICK es \in Admitted(Head(jobs)), a \in Samples(r) :
          /\ engine' = Recorded(Driven(es), r, Head(jobs).at + 1)
          /\ disturbed' = disturbed \cup Others(es, r) \cup (IF es[r].on THEN {} ELSE {r})
          /\ wrong' = IF Driven(es)[r].out # Head(jobs).at THEN wrong \cup {r} ELSE wrong
          /\ histories' = histories \cup {r}
          /\ Respond(r, a)
    BY <1>5 DEF Work
  <2>2. engine' \in [Requests -> EngineStates]
    BY <1>1, <1>2, <1>4, <2>1, AdmittedType, EngineType
  <2>3. answer' \in [Requests -> Answers]
    BY <1>3, <2>1 DEF Samples, Answers
  <2>4. disturbed' \subseteq Requests /\ wrong' \subseteq Requests /\ histories' \subseteq Requests
    BY <1>2, <2>1 DEF Typed, TypeOK, Others
  <2> QED
    BY <1>1, <2>2, <2>3, <2>4 DEF Typed, TypeOK, WaitsForMore
<1>6. CASE WorkFails
  <2>1. PICK es \in Admitted(Head(jobs)) :
          \E P \in SUBSET Prefilling(es) :
          \E D \in IF P = Prefilling(es) THEN SUBSET Decoding(es) ELSE {{}} :
            /\ engine' = HalfDriven(es, P, D)
            /\ disturbed' = disturbed \cup Others(es, r) \cup {r}
    BY <1>6 DEF WorkFails
  <2>2. PICK P \in SUBSET Prefilling(es), D \in SUBSET Decoding(es) :
            /\ engine' = HalfDriven(es, P, D)
            /\ disturbed' = disturbed \cup Others(es, r) \cup {r}
    BY <2>1
  <2>3. engine' \in [Requests -> EngineStates]
    BY <1>1, <1>4, <2>2, AdmittedType, EngineType
  <2>4. answer' \in [Requests -> Answers]
    BY <1>3, <1>6 DEF WorkFails, Answers
  <2>5. disturbed' \subseteq Requests /\ wrong' \subseteq Requests /\ histories' \subseteq Requests
    BY <1>2, <1>6, <2>2 DEF WorkFails, Typed, TypeOK, Others
  <2> QED
    BY <1>1, <2>3, <2>4, <2>5 DEF Typed, TypeOK, WaitsForMore
<1> QED
  BY <1>5, <1>6

\* The counter is a natural number.
LEMMA CounterNat == Core => counter \in Nat
BY FiniteCounted DEF Core, AdmissionHolds

\* An answer that was taken.
LEMMA TakenType ==
  ASSUME Typed, NEW r \in Requests, TakeAnswer(r)
  PROVE  answer' \in [Requests -> Answers] /\ parses' \in [Requests -> BOOLEAN]
<1>1. answer \in [Requests -> Answers] /\ parses \in [Requests -> BOOLEAN]
  BY DEF Typed, TypeOK
<1>2. NoAnswer \in Answers /\ answer[r].tool \in BOOLEAN /\ parses[r] \in BOOLEAN
  BY <1>1 DEF NoAnswer, Answers
<1>3. (IF answer[r].is = "error" THEN parses[r] ELSE answer[r].tool) \in BOOLEAN
  BY <1>2
<1> QED
  BY <1>1, <1>2, <1>3 DEF TakeAnswer

\* Every step keeps the types.
LEMMA TypeStep == Typed /\ [Next]_vars => Typed'
<1> SUFFICES ASSUME Typed, [Next]_vars PROVE Typed'
    OBVIOUS
<1>1. Core' /\ Core /\ TypeOK
  BY CoreStep DEF Typed
<1>2. counter' \in Nat
  <2>1. (counter \in Nat)'
    BY <1>1, CounterNat, PTL
  <2> QED
    BY <2>1
<1> USE <1>1, <1>2 DEF Typed, TypeOK, WaitsForMore
<1>3. ASSUME NEW r \in Requests,
             Arrive(r) \/ Count(r) \/ Uncount(r) \/ RejectInvalid(r) \/ Begin(r) \/ ToolDelta(r)
      PROVE  Typed'
  BY <1>3 DEF Arrive, Count, Uncount, RejectInvalid, Begin, ToolDelta, Release, handler, server
<1>4. ASSUME NEW r \in Requests, Submit(r) PROVE Typed'
  <2>1. jobs' \in Seq(Jobs)
    <3>1. [req |-> r, at |-> step[r]] \in Jobs
      BY <1>4, ServerAssumption DEF Submit, Jobs
    <3> QED
      BY <1>4, <3>1, JobsType DEF Submit
  <2> QED
    BY <1>4, <2>1 DEF Submit
<1>5. ASSUME NEW r \in Requests, NEW n \in 0..MaxTokens, GoOn(r, n) PROVE Typed'
  BY <1>5 DEF GoOn, TakeAnswer, NoAnswer, Answers, server
<1>6. ASSUME NEW r \in Requests, Token(r) \/ StreamLast(r) \/ StreamTools(r) PROVE Typed'
  <2>1. step[r] + 1 \in 0..MaxTokens /\ MaxTokens \in 0..MaxTokens
    BY <1>6, ServerAssumption DEF Token, StreamLast, StreamTools, Receive
  <2> QED
    BY <1>5, <1>6, <2>1 DEF Token, StreamLast, StreamTools
<1>7. ASSUME NEW r \in Requests, Close(r) \/ Stop(r) PROVE Typed'
  <2>1. engine' \in [Requests -> EngineStates]
    BY <1>7, FinishType DEF Close, Stop, End, CleanUp, Finish
  <2>2. answer' \in [Requests -> Answers] /\ parses' \in [Requests -> BOOLEAN]
    BY <1>7, TakenType DEF Close, Stop
  <2>3. /\ registered' \subseteq Requests /\ params' \subseteq Requests /\ histories' \subseteq Requests
        /\ tickets' \subseteq Requests
    BY <1>7 DEF Close, Stop, End, CleanUp, Finish, Release
  <2>4. /\ pc' = [pc EXCEPT ![r] = "ended"]
        /\ UNCHANGED <<kind, step, cancelled, jobs, phase, disturbed, wrong>>
    BY <1>7 DEF Close, Stop, End
  <2> QED
    BY <2>1, <2>2, <2>3, <2>4
<1>8. ASSUME NEW r \in Requests, Disconnect(r) \/ Timeout(r) \/ Cancel(r) PROVE Typed'
  <2>1. engine' \in [Requests -> EngineStates]
    BY <1>8, FinishType DEF Disconnect, Timeout, Cancel, CleanUp, Finish
  <2>2. answer' \in [Requests -> Answers]
    <3>1. NoAnswer \in Answers
      BY DEF NoAnswer, Answers
    <3>2. answer' = [answer EXCEPT ![r] = NoAnswer] \/ answer' = answer
      BY <1>8 DEF Disconnect, Timeout, Cancel, handler
    <3> QED
      BY <3>1, <3>2
  <2>3. /\ registered' \subseteq Requests /\ params' \subseteq Requests /\ histories' \subseteq Requests
        /\ tickets' \subseteq Requests
    BY <1>8 DEF Disconnect, Timeout, Cancel, CleanUp, Finish, Release
  <2>4. cancelled' \subseteq Requests /\ disturbed' \subseteq Requests
    BY <1>8 DEF Disconnect, Timeout, Cancel
  <2>5. /\ pc' = [pc EXCEPT ![r] = "dropped"] \/ pc' = pc
        /\ UNCHANGED <<kind, step, parses, jobs, phase, wrong>>
    BY <1>8 DEF Disconnect, Timeout, Cancel, handler
  <2> QED
    BY <2>1, <2>2, <2>3, <2>4, <2>5
<1>9. CASE Work \/ WorkFails
  BY <1>9, WorkType
<1>10. CASE ShutFlag \/ CancelAll \/ Drain
  BY <1>10 DEF ShutFlag, CancelAll, Drain, handler, server
<1>11. CASE UNCHANGED vars
  BY <1>11 DEF vars, handler, server
<1> QED
  BY <1>3, <1>4, <1>6, <1>7, <1>8, <1>9, <1>10, <1>11 DEF Next, Handle

\* The server's state keeps its type; in particular the admission counter, an
\* unsigned integer, never goes below zero.
THEOREM ServerTypeOK == Spec => []TypeOK
<1>1. Init => Typed
  <2> SUFFICES ASSUME Init PROVE Typed
    OBVIOUS
  <2>1. Gone \in EngineStates
    BY ServerAssumption DEF Gone, EngineStates
  <2> QED
    BY <2>1, CoreInit, ServerAssumption DEF Init, Typed, TypeOK, WaitsForMore, NoAnswer, Answers
<1>2. Typed => TypeOK
  BY DEF Typed
<1> QED
  BY <1>1, <1>2, TypeStep, PTL DEF Spec

-----------------------------------------------------------------------------
(* What a request leaves behind, and what its tokens were sampled from.    *)

\* The inference channel: a queued step is the next one of a handler that waits
\* for it or was dropped while it waited, and a handler has at most one.
Queue ==
  /\ \A i \in DOMAIN jobs :
       /\ pc[jobs[i].req] \in {"waiting", "dropped"}
       /\ jobs[i].at = step[jobs[i].req]
       /\ answer[jobs[i].req] = NoAnswer
  /\ \A i, j \in DOMAIN jobs : jobs[i].req = jobs[j].req => i = j
  /\ \A r \in Requests : pc[r] # "waiting" => answer[r] = NoAnswer

\* Only a streamed chat enters the cancel registry, so only its guard has to
\* take it out again.
Registry == \A r \in registered : kind[r] = "chatStream"

Left == Typed /\ Queue /\ Registry /\ NothingLeft

\* The engine is ready to give a request its token number k + 1: it does not
\* know it, or it has read the prompt and all but the last of k tokens.
Sound(e, k) == e.on => k > 0 /\ e.left = 0 /\ e.ctx = k - 1 /\ e.last = k

\* An undisturbed request is found in that state whenever it can ask for a
\* token, while its step is queued, and when its answer is there.
Undisturbed ==
  \A r \in Requests \ disturbed :
    /\ pc[r] \in {"idle", "checked", "full", "admitted", "ready"} /\ step[r] < MaxTokens =>
         Sound(engine[r], step[r])
    /\ InFlight(r) => Sound(engine[r], step[r])
    /\ pc[r] = "waiting" /\ answer[r] # NoAnswer => Sound(engine[r], step[r] + 1)

Faithful == Typed /\ Queue /\ Undisturbed /\ OnlyDisturbedAreWrong

\* All that a step of one handler leaves alone: the other requests.
StaysPut(q) ==
  /\ pc'[q] = pc[q] /\ step'[q] = step[q] /\ answer'[q] = answer[q] /\ engine'[q] = engine[q]
  /\ q \in registered' <=> q \in registered
  /\ q \in params' <=> q \in params
  /\ q \in histories' <=> q \in histories

Alone(r) ==
  /\ \A q \in Requests \ {r} : StaysPut(q)
  /\ kind' = kind /\ wrong' = wrong /\ disturbed \subseteq disturbed'

-----------------------------------------------------------------------------

\* A step of a handler is about its own request.
LEMMA OwnRequest ==
  ASSUME Typed, NEW r \in Requests, Handle(r) \/ Disconnect(r) \/ Timeout(r) \/ Cancel(r)
  PROVE  Alone(r) /\ (~ Submit(r) => jobs' = jobs)
<1> USE DEF Typed, TypeOK, Alone, StaysPut
<1>1. CASE Arrive(r) \/ Count(r) \/ Uncount(r) \/ RejectInvalid(r)
  BY <1>1 DEF Arrive, Count, Uncount, RejectInvalid, server
<1>2. CASE Begin(r) \/ ToolDelta(r) \/ Submit(r)
  BY <1>2 DEF Begin, ToolDelta, Submit, handler
<1>3. CASE Close(r) \/ Stop(r)
  BY <1>3 DEF Close, Stop, End, CleanUp, Finish, FinishRequest, TakeAnswer
<1>4. CASE Token(r) \/ StreamLast(r) \/ StreamTools(r)
  <2>1. PICK n : GoOn(r, n)
    BY <1>4 DEF Token, StreamLast, StreamTools
  <2> QED
    BY <2>1 DEF GoOn, TakeAnswer, server
<1>5. CASE Disconnect(r) \/ Timeout(r)
  BY <1>5 DEF Disconnect, Timeout, CleanUp, Finish, FinishRequest
<1>6. CASE Cancel(r)
  BY <1>6 DEF Cancel, FinishRequest, handler
<1> QED
  BY <1>1, <1>2, <1>3, <1>4, <1>5, <1>6 DEF Handle

\* The queued steps.
LEMMA JobsOf ==
  ASSUME Typed
  PROVE  /\ DOMAIN jobs = 1..Len(jobs) /\ Len(jobs) \in Nat
         /\ \A i \in DOMAIN jobs : jobs[i] \in Jobs /\ jobs[i].req \in Requests
<1>1. jobs \in Seq(Jobs)
  BY DEF Typed, TypeOK
<1>2. ASSUME NEW i \in DOMAIN jobs PROVE jobs[i] \in Jobs
  BY <1>1
<1>3. ASSUME NEW j \in Jobs PROVE j.req \in Requests
  BY DEF Jobs
<1> QED
  BY <1>1, <1>2, <1>3

\* A handler that leaves the channel as it is keeps Queue if no step of its
\* request is queued, or if it is dropped while one is.
LEMMA QueueKept ==
  ASSUME Typed, Queue, NEW r \in Requests, Alone(r), jobs' = jobs,
         pc'[r] # "waiting" => answer'[r] = NoAnswer,
         InFlight(r) => /\ pc'[r] \in {"waiting", "dropped"} /\ step'[r] = step[r]
                        /\ answer'[r] = NoAnswer
  PROVE  Queue'
<1>1. ASSUME NEW i \in DOMAIN jobs PROVE jobs[i].req \in Requests
  BY JobsOf
<1>2. ASSUME NEW i \in DOMAIN jobs'
      PROVE  /\ pc'[jobs[i].req] \in {"waiting", "dropped"}
             /\ jobs[i].at = step'[jobs[i].req]
             /\ answer'[jobs[i].req] = NoAnswer
  BY <1>1 DEF Queue, Alone, StaysPut, InFlight
<1>3. ASSUME NEW q \in Requests, pc'[q] # "waiting" PROVE answer'[q] = NoAnswer
  BY <1>3 DEF Queue, Alone, StaysPut
<1> QED
  BY <1>2, <1>3 DEF Queue

\* A handler whose answer is there, or who does not wait, has no step queued.
LEMMA NoneQueued ==
  ASSUME Queue, NEW r \in Requests,
         pc[r] \notin {"waiting", "dropped"} \/ answer[r] # NoAnswer
  PROVE  ~ InFlight(r)
BY DEF Queue, InFlight

\* The channel after the inference thread took its first step.
LEMMA AfterTake ==
  ASSUME Typed, Queue, jobs # <<>>, jobs' = Tail(jobs)
  PROVE  /\ Head(jobs) \in Jobs /\ Head(jobs).req \in Requests /\ Head(jobs) = jobs[1]
         /\ 1 \in DOMAIN jobs
         /\ DOMAIN jobs' = 1..(Len(jobs) - 1)
         /\ \A i \in DOMAIN jobs' : /\ i + 1 \in DOMAIN jobs /\ i \in Nat
                                   /\ jobs'[i] = jobs[i + 1]
                                   /\ jobs'[i].req \in Requests \ {Head(jobs).req}
         /\ \A q \in Requests : InFlight(q)' => InFlight(q) /\ q # Head(jobs).req
<1>1. jobs \in Seq(Jobs) /\ DOMAIN jobs = 1..Len(jobs) /\ Len(jobs) \in Nat
  BY JobsOf DEF Typed, TypeOK
<1>2. Head(jobs) = jobs[1] /\ 1 \in DOMAIN jobs /\ jobs[1] \in Jobs
  BY <1>1, JobsOf
<1>3. /\ DOMAIN jobs' = 1..(Len(jobs) - 1)
      /\ \A i \in DOMAIN jobs' : i + 1 \in DOMAIN jobs /\ i \in Nat /\ jobs'[i] = jobs[i + 1]
  BY <1>1
<1>4. ASSUME NEW i \in DOMAIN jobs' PROVE jobs'[i].req \in Requests \ {Head(jobs).req}
  <2>1. i + 1 \in DOMAIN jobs /\ i + 1 # 1 /\ jobs'[i] = jobs[i + 1]
    BY <1>3
  <2>2. jobs[i + 1].req \in Requests /\ jobs[i + 1].req # jobs[1].req
    BY <1>2, <2>1, JobsOf DEF Queue
  <2> QED
    BY <1>2, <2>1, <2>2
<1>5. ASSUME NEW q \in Requests, InFlight(q)' PROVE InFlight(q) /\ q # Head(jobs).req
  BY <1>3, <1>4, <1>5 DEF InFlight
<1> QED
  BY <1>2, <1>3, <1>4, <1>5, JobsOf

\* What a step of the inference thread, done or failed, leaves of the channel.
LEMMA QueueTaken ==
  ASSUME Typed, Queue, Work \/ WorkFails
  PROVE  Queue'
<1>1. jobs # <<>> /\ jobs' = Tail(jobs) /\ UNCHANGED <<pc, step>>
  BY DEF Work, WorkFails
<1> DEFINE r == Head(jobs).req
<1>2. PICK a : Respond(r, a)
  BY DEF Work, WorkFails
<1>3. /\ \A q \in Requests \ {r} : answer'[q] = answer[q]
      /\ pc[r] # "waiting" => answer' = answer
  BY <1>2 DEF Respond, Typed, TypeOK
<1> HIDE DEF r
<1>4. ASSUME NEW i \in DOMAIN jobs'
      PROVE  /\ pc[jobs'[i].req] \in {"waiting", "dropped"}
             /\ jobs'[i].at = step[jobs'[i].req]
             /\ answer'[jobs'[i].req] = NoAnswer
  <2>1. i + 1 \in DOMAIN jobs /\ jobs'[i] = jobs[i + 1] /\ jobs'[i].req \in Requests \ {r}
    BY <1>1, AfterTake DEF r
  <2> QED
    BY <1>3, <2>1 DEF Queue
<1>5. ASSUME NEW i \in DOMAIN jobs', NEW j \in DOMAIN jobs', jobs'[i].req = jobs'[j].req
      PROVE  i = j
  <2>1. /\ i + 1 \in DOMAIN jobs /\ jobs'[i] = jobs[i + 1] /\ i \in Nat
        /\ j + 1 \in DOMAIN jobs /\ jobs'[j] = jobs[j + 1] /\ j \in Nat
    BY <1>1, AfterTake
  <2>2. i + 1 = j + 1
    BY <1>5, <2>1 DEF Queue
  <2> QED
    BY <2>1, <2>2
<1>6. ASSUME NEW q \in Requests, pc[q] # "waiting" PROVE answer'[q] = NoAnswer
  BY <1>3, <1>6 DEF Queue
<1> QED
  BY <1>1, <1>4, <1>5, <1>6 DEF Queue

\* A handler that queues its next step had none queued.
LEMMA QueueSubmit ==
  ASSUME Typed, Queue, NEW r \in Requests, Submit(r)
  PROVE  Queue' /\ (\A q \in Requests \ {r} : InFlight(q)' => InFlight(q))
<1> DEFINE j == [req |-> r, at |-> step[r]]
<1>1. ~ InFlight(r) /\ answer[r] = NoAnswer
  BY NoneQueued DEF Queue, Submit
<1>2. /\ DOMAIN jobs' = 1..(Len(jobs) + 1)
      /\ \A i \in DOMAIN jobs' : (i \in DOMAIN jobs /\ jobs'[i] = jobs[i])
                               \/ (i = Len(jobs) + 1 /\ jobs'[i] = j)
  <2>1. jobs \in Seq(Jobs) /\ jobs' = Append(jobs, j)
    BY DEF Typed, TypeOK, Submit
  <2> QED
    BY <2>1, JobsOf
<1>3. /\ pc' = [pc EXCEPT ![r] = "waiting"] /\ step' = step /\ answer' = answer
      /\ pc \in [Requests -> Places]
  BY DEF Submit, Typed, Core
<1>4. ASSUME NEW i \in DOMAIN jobs PROVE jobs[i].req \in Requests \ {r}
  BY <1>1, JobsOf DEF InFlight
<1>5. ASSUME NEW i \in DOMAIN jobs'
      PROVE  /\ pc'[jobs'[i].req] \in {"waiting", "dropped"}
             /\ jobs'[i].at = step'[jobs'[i].req]
             /\ answer'[jobs'[i].req] = NoAnswer
  <2>1. CASE i \in DOMAIN jobs /\ jobs'[i] = jobs[i]
    BY <1>3, <1>4, <2>1 DEF Queue
  <2>2. CASE jobs'[i] = j
    BY <1>1, <1>3, <2>2
  <2> QED
    BY <1>2, <2>1, <2>2
<1>6. ASSUME NEW i \in DOMAIN jobs', NEW k \in DOMAIN jobs', jobs'[i].req = jobs'[k].req
      PROVE  i = k
  <2>1. \A m \in DOMAIN jobs' : (m \in DOMAIN jobs /\ jobs'[m] = jobs[m] /\ jobs'[m].req # r)
                               \/ (m = Len(jobs) + 1 /\ jobs'[m].req = r)
    BY <1>2, <1>4
  <2> QED
    BY <1>6, <2>1 DEF Queue
<1>7. ASSUME NEW q \in Requests, pc'[q] # "waiting" PROVE answer'[q] = NoAnswer
  BY <1>1, <1>3, <1>7 DEF Queue
<1>8. ASSUME NEW q \in Requests \ {r}, InFlight(q)' PROVE InFlight(q)
  BY <1>2, <1>8 DEF InFlight
<1> QED
  BY <1>5, <1>6, <1>7, <1>8 DEF Queue

\* Every step keeps the channel in order.
LEMMA QueueStep == Typed /\ Queue /\ [Next]_vars => Queue'
<1> SUFFICES ASSUME Typed, Queue, [Next]_vars PROVE Queue'
    OBVIOUS
<1>1. ASSUME NEW r \in Requests,
             Arrive(r) \/ Count(r) \/ Uncount(r) \/ RejectInvalid(r) \/ Begin(r) \/ Close(r)
      PROVE  Queue'
  <2>1. /\ pc[r] \notin {"waiting", "dropped"} /\ pc'[r] # "waiting" /\ answer' = answer
        /\ Alone(r) /\ jobs' = jobs
    BY <1>1, OwnRequest DEF Arrive, Count, Uncount, RejectInvalid, Begin, Close, End, Handle, Typed,
       TypeOK
  <2> QED
    BY <2>1, NoneQueued, QueueKept DEF Queue
<1>2. ASSUME NEW r \in Requests, ToolDelta(r) \/ Cancel(r) PROVE Queue'
  BY <1>2 DEF ToolDelta, Cancel, handler, Queue
<1>3. ASSUME NEW r \in Requests, Token(r) \/ StreamLast(r) \/ StreamTools(r) \/ Stop(r)
      PROVE  Queue'
  <2>1. /\ pc[r] = "waiting" /\ answer[r] # NoAnswer /\ pc'[r] \in {"ready", "ended"}
        /\ answer'[r] = NoAnswer
    <3>1. pc[r] = "waiting" /\ answer[r] # NoAnswer
      BY <1>3 DEF Token, StreamLast, StreamTools, Stop, Receive, NoAnswer
    <3>2. TakeAnswer(r) /\ (pc' = [pc EXCEPT ![r] = "ready"] \/ pc' = [pc EXCEPT ![r] = "ended"])
      BY <1>3 DEF Token, StreamLast, StreamTools, Stop, GoOn, End
    <3> QED
      BY <3>1, <3>2 DEF TakeAnswer, Typed, TypeOK
  <2>2. Alone(r) /\ jobs' = jobs
    BY <1>3, OwnRequest DEF Handle, Token, StreamLast, StreamTools, Stop, GoOn
  <2> QED
    BY <2>1, <2>2, NoneQueued, QueueKept
<1>4. ASSUME NEW r \in Requests, Disconnect(r) \/ Timeout(r) PROVE Queue'
  <2>1. pc'[r] = "dropped" /\ answer'[r] = NoAnswer /\ step' = step /\ jobs' = jobs
    BY <1>4 DEF Disconnect, Timeout, Typed, TypeOK
  <2> QED
    BY <1>4, <2>1, OwnRequest, QueueKept
<1>5. CASE Work \/ WorkFails
  BY <1>5, QueueTaken
<1>6. CASE ShutFlag \/ CancelAll \/ Drain \/ UNCHANGED vars
  BY <1>6 DEF ShutFlag, CancelAll, Drain, vars, handler, Queue
<1> QED
  BY <1>1, <1>2, <1>3, <1>4, <1>5, <1>6, QueueSubmit DEF Next, Handle

-----------------------------------------------------------------------------

\* What NothingLeft says of one request.
Swept(r) ==
  /\ pc[r] = "ended" => /\ ~ engine[r].on /\ r \notin registered \cup params
                        /\ kind[r] = "chatStream" => r \notin histories
  /\ pc[r] = "dropped" /\ kind[r] = "chatStream" =>
       r \notin registered \cup params /\ (step[r] > 0 => ~ engine[r].on)

\* A step that is about one request is judged by that request.
LEMMA SweptKept ==
  ASSUME Left, NEW r \in Requests, Alone(r), Swept(r)'
  PROVE  NothingLeft'
<1>1. ASSUME NEW q \in Requests \ {r} PROVE Swept(q)'
  <2>1. Swept(q)
    BY DEF Left, NothingLeft, Swept
  <2> QED
    BY <2>1 DEF Alone, StaysPut, Swept
<1>2. \A q \in Requests : Swept(q)'
  BY <1>1
<1> QED
  BY <1>2 DEF NothingLeft, Swept

\* A tick forgets nothing and, but for the request of its step, starts nothing.
LEMMA DrivenOn ==
  ASSUME Typed, NEW job \in Jobs, NEW es \in Admitted(job)
  PROVE  /\ es \in [Requests -> EngineStates]
         /\ \A q \in Requests : es[q] = engine[q] \/ (q = job.req /\ job.at = 0)
         /\ \A q \in Requests : Driven(es)[q].on = es[q].on
         /\ \A q \in Requests, t \in 1..MaxTokens :
               Recorded(Driven(es), job.req, t)[q].on = es[q].on
         /\ \A P \in SUBSET Prefilling(es), D \in SUBSET Decoding(es), q \in Requests :
               HalfDriven(es, P, D)[q].on = es[q].on
<1>1. es \in [Requests -> EngineStates] /\ job.req \in Requests
  BY AdmittedType DEF Typed, TypeOK, Jobs
<1>2. \A q \in Requests : es[q] = engine[q] \/ (q = job.req /\ job.at = 0)
  BY DEF Admitted, Typed, TypeOK
<1>3. ASSUME NEW e \in EngineStates
      PROVE  Prefilled(e).on = e.on /\ Decoded(e).on = e.on
             /\ \A c : [e EXCEPT !.ctx = c].on = e.on
             /\ \A t : [e EXCEPT !.last = t].on = e.on
  BY DEF EngineStates, Prefilled, Decoded
<1>4. ASSUME NEW q \in Requests PROVE es[q] \in EngineStates
  BY <1>1
<1>5. ASSUME NEW q \in Requests PROVE Driven(es)[q].on = es[q].on
  BY <1>3, <1>4 DEF Driven
<1>6. ASSUME NEW q \in Requests, NEW t \in 1..MaxTokens
      PROVE  Recorded(Driven(es), job.req, t)[q].on = es[q].on
  <2>1. Driven(es) \in [Requests -> EngineStates]
    BY <1>1, EngineType
  <2> QED
    BY <1>1, <1>3, <1>5, <2>1 DEF Recorded
<1>7. ASSUME NEW P \in SUBSET Prefilling(es), NEW D \in SUBSET Decoding(es), NEW q \in Requests
      PROVE  HalfDriven(es, P, D)[q].on = es[q].on
  BY <1>3, <1>4 DEF HalfDriven
<1> QED
  BY <1>1, <1>2, <1>5, <1>6, <1>7

\* The inference thread restarts nothing that is over: the step of an ended
\* request is not queued any more, and one that is queued for a dropped request
\* enqueues it only if it is the first.
LEMMA SweptWork ==
  ASSUME Left, Work \/ WorkFails
  PROVE  NothingLeft'
<1>1. /\ jobs # <<>> /\ jobs' = Tail(jobs)
      /\ UNCHANGED <<pc, kind, step, registered, params>>
  BY DEF Work, WorkFails
<1>2. /\ Head(jobs) \in Jobs /\ Head(jobs).req \in Requests
      /\ Head(jobs).at = step[Head(jobs).req]
      /\ pc[Head(jobs).req] \in {"waiting", "dropped"}
  BY <1>1, AfterTake DEF Left, Queue
<1> DEFINE r == Head(jobs).req
<1>3. /\ histories' \subseteq histories \cup {r}
      /\ \A q \in Requests : engine'[q].on = engine[q].on \/ (q = r /\ step[q] = 0)
  <2>1. CASE Work
    <3>1. PICK es \in Admitted(Head(jobs)) :
            engine' = Recorded(Driven(es), r, Head(jobs).at + 1)
      BY <2>1 DEF Work
    <3>2. Head(jobs).at + 1 \in 1..MaxTokens
      BY <1>2, ServerAssumption DEF Jobs
    <3>3. histories' = histories \cup {r}
      BY <2>1 DEF Work
    <3> QED
      BY <1>2, <3>1, <3>2, <3>3, DrivenOn DEF Left
  <2>2. CASE WorkFails
    <3>1. PICK es \in Admitted(Head(jobs)) :
            \E P \in SUBSET Prefilling(es) :
            \E D \in IF P = Prefilling(es) THEN SUBSET Decoding(es) ELSE {{}} :
              engine' = HalfDriven(es, P, D)
      BY <2>2 DEF WorkFails
    <3>2. PICK P \in SUBSET Prefilling(es), D \in SUBSET Decoding(es) :
              engine' = HalfDriven(es, P, D)
      BY <3>1
    <3>3. histories' \subseteq histories \cup {r}
      BY <2>2 DEF WorkFails
    <3> QED
      BY <1>2, <3>2, <3>3, DrivenOn DEF Left
  <2> QED
    BY <2>1, <2>2
<1> HIDE DEF r
<1>4. pc[r] \in {"waiting", "dropped"}
  BY <1>2 DEF r
<1>5. ASSUME NEW q \in Requests PROVE Swept(q)'
  <2>1. Swept(q) /\ step[q] \in Nat
    BY DEF Left, NothingLeft, Swept, Typed, TypeOK
  <2>2. ~ engine[q].on => ~ engine'[q].on \/ (q = r /\ step[q] = 0)
    BY <1>3
  <2> QED
    BY <1>1, <1>3, <1>4, <2>1, <2>2 DEF Swept
<1> QED
  BY <1>5 DEF NothingLeft, Swept

\* Every step keeps the invariant.
LEMMA LeftStep == Left /\ [Next]_vars => Left'
<1> SUFFICES ASSUME Left, [Next]_vars PROVE Left'
    OBVIOUS
<1>1. Typed' /\ Queue' /\ Typed /\ TypeOK
  BY TypeStep, QueueStep DEF Left, Typed
<1>2. Gone.on = FALSE
  BY DEF Gone
<1>3. Registry'
  <2>1. ASSUME NEW r \in Requests, Begin(r) PROVE Registry'
    BY <2>1 DEF Begin, Left, Registry
  <2>2. ASSUME NEW r \in Requests, Handle(r) \/ Disconnect(r) \/ Timeout(r) \/ Cancel(r), ~ Begin(r)
        PROVE  kind' = kind /\ registered' \subseteq registered
    <3>1. CASE Arrive(r) \/ Count(r) \/ Uncount(r) \/ RejectInvalid(r) \/ ToolDelta(r) \/ Submit(r)
      BY <3>1 DEF Arrive, Count, Uncount, RejectInvalid, ToolDelta, Submit, handler, server
    <3>2. CASE Token(r) \/ StreamLast(r) \/ StreamTools(r)
      BY <3>2 DEF Token, StreamLast, StreamTools, GoOn, server
    <3>3. CASE Close(r) \/ Stop(r)
      BY <3>3 DEF Close, Stop, End, CleanUp, Finish
    <3>4. CASE Disconnect(r) \/ Timeout(r) \/ Cancel(r)
      BY <3>4 DEF Disconnect, Timeout, CleanUp, Finish, Cancel, handler
    <3> QED
      BY <2>2, <3>1, <3>2, <3>3, <3>4 DEF Handle
  <2>3. ASSUME Work \/ WorkFails \/ ShutFlag \/ CancelAll \/ Drain \/ UNCHANGED vars
        PROVE  kind' = kind /\ registered' = registered
    BY <2>3 DEF Work, WorkFails, ShutFlag, CancelAll, Drain, vars, handler, server
  <2> QED
    BY <2>1, <2>2, <2>3 DEF Left, Registry, Next
<1>4. ASSUME NEW r \in Requests, Close(r) \/ Stop(r) PROVE NothingLeft'
  <2>1. End(r) /\ kind' = kind
    BY <1>4 DEF Close, Stop
  <2>2. /\ pc'[r] = "ended" /\ engine'[r] = Gone /\ r \notin params'
        /\ r \notin registered' /\ (kind[r] = "chatStream" => r \notin histories')
    BY <1>1, <2>1 DEF End, CleanUp, Finish, FinishRequest, TypeOK, Left, Registry
  <2>3. Swept(r)'
    BY <1>2, <2>1, <2>2 DEF Swept
  <2> QED
    BY <1>1, <1>4, <2>3, OwnRequest, SweptKept DEF Handle
<1>5. ASSUME NEW r \in Requests, Disconnect(r) \/ Timeout(r) PROVE NothingLeft'
  <2>1. /\ pc'[r] = "dropped" /\ kind' = kind
        /\ kind[r] = "chatStream" => engine'[r] = Gone /\ r \notin params' /\ r \notin registered'
    BY <1>1, <1>5 DEF Disconnect, Timeout, CleanUp, FinishRequest, TypeOK
  <2>2. Swept(r)'
    BY <1>2, <2>1 DEF Swept
  <2> QED
    BY <1>1, <1>5, <2>2, OwnRequest, SweptKept
<1>6. ASSUME NEW r \in Requests,
             \/ Arrive(r) \/ Count(r) \/ Uncount(r) \/ RejectInvalid(r) \/ Begin(r) \/ ToolDelta(r)
             \/ Submit(r) \/ Token(r) \/ StreamLast(r) \/ StreamTools(r) \/ Cancel(r)
      PROVE  NothingLeft'
  <2>1. pc'[r] \notin {"ended", "dropped"}
    BY <1>1, <1>6 DEF Arrive, Count, Uncount, RejectInvalid, Begin, ToolDelta, Submit, Token,
       StreamLast, StreamTools, GoOn, Cancel, handler, TypeOK
  <2>2. Swept(r)'
    BY <2>1 DEF Swept
  <2> QED
    BY <1>1, <1>6, <2>2, OwnRequest, SweptKept DEF Handle
<1>7. ASSUME Work \/ WorkFails PROVE NothingLeft'
  BY <1>7, SweptWork
<1>8. ASSUME ShutFlag \/ CancelAll \/ Drain \/ UNCHANGED vars PROVE NothingLeft'
  BY <1>8 DEF ShutFlag, CancelAll, Drain, vars, handler, server, Left, NothingLeft
<1>9. NothingLeft'
  BY <1>4, <1>5, <1>6, <1>7, <1>8 DEF Next, Handle
<1> QED
  BY <1>1, <1>3, <1>9 DEF Left

\* The initial state keeps nothing of any request.
LEMMA StartTyped == Init => Typed /\ Queue
<1> SUFFICES ASSUME Init PROVE Typed /\ Queue
    OBVIOUS
<1>1. Gone \in EngineStates
  BY ServerAssumption DEF Gone, EngineStates
<1>2. Typed
  BY <1>1, CoreInit, ServerAssumption DEF Init, Typed, TypeOK, WaitsForMore, NoAnswer, Answers
<1>3. Queue
  BY DEF Init, Queue
<1> QED
  BY <1>2, <1>3

\* For every number of requests, any prompt chunking and all faults: a handler
\* that ends leaves no engine state, cancel token, sampler parameters or (for a
\* streamed chat) history, and the inference thread, which may still serve a
\* queued step after the handler is gone, does not bring them back.
THEOREM EndedIsSwept == Spec => []NothingLeft
<1>1. Init => Left
  <2>1. Init => Registry /\ NothingLeft
    BY DEF Init, Registry, NothingLeft
  <2> QED
    BY <2>1, StartTyped DEF Left
<1>2. Left => NothingLeft
  BY DEF Left
<1> QED
  BY <1>1, <1>2, LeftStep, PTL DEF Spec

-----------------------------------------------------------------------------

\* What Undisturbed says of one request.
InStep(r) ==
  /\ pc[r] \in {"idle", "checked", "full", "admitted", "ready"} /\ step[r] < MaxTokens =>
       Sound(engine[r], step[r])
  /\ InFlight(r) => Sound(engine[r], step[r])
  /\ pc[r] = "waiting" /\ answer[r] # NoAnswer => Sound(engine[r], step[r] + 1)

\* A step that is about one request is judged by that request.
LEMMA InStepKept ==
  ASSUME Faithful, NEW r \in Requests, Alone(r),
         \A q \in Requests \ {r} : InFlight(q)' => InFlight(q),
         r \notin disturbed' => InStep(r)'
  PROVE  Undisturbed' /\ OnlyDisturbedAreWrong'
<1>1. ASSUME NEW q \in Requests \ disturbed', q # r PROVE InStep(q)'
  <2>1. InStep(q)
    BY <1>1 DEF Faithful, Undisturbed, InStep, Alone
  <2> QED
    BY <1>1, <2>1 DEF Alone, StaysPut, InStep
<1>2. \A q \in Requests \ disturbed' : InStep(q)'
  BY <1>1
<1> QED
  BY <1>2 DEF Undisturbed, InStep, Alone, Faithful, OnlyDisturbedAreWrong

\* One tick of an undisturbed request, for a prompt of one pass: it samples
\* token k + 1 from the context of k tokens and records it.
LEMMA TickInContext ==
  ASSUME Chunks = 1, NEW k \in 0..(MaxTokens - 1), NEW e \in EngineStates, e.on,
         (e = Enqueued /\ k = 0) \/ Sound(e, k)
  PROVE  LET d == IF e.left > 0 THEN Prefilled(e) ELSE Decoded(e) IN
           d.out = k /\ Sound([d EXCEPT !.last = k + 1], k + 1)
<1>1. MaxTokens \in Nat /\ k \in Nat
  BY ServerAssumption
<1>2. CASE e = Enqueued /\ k = 0
  BY <1>1, <1>2 DEF Enqueued, Prefilled, Sound
<1>3. CASE Sound(e, k)
  <2>1. k > 0 /\ e.left = 0 /\ e.ctx = k - 1 /\ e.last = k
    BY <1>3 DEF Sound
  <2>2. Fed(e.ctx, e.last) = k
    BY <1>1, <2>1 DEF Fed
  <2> QED
    BY <1>1, <2>1, <2>2 DEF Decoded, Sound, EngineStates
<1> QED
  BY <1>2, <1>3

\* A step of the inference thread: the request it is for gets a token of its
\* own context, or it was refused or forgotten; every other request it drove
\* is disturbed from now on.
LEMMA InStepWork ==
  ASSUME Chunks = 1, Faithful, Work
  PROVE  Undisturbed' /\ OnlyDisturbedAreWrong'
<1>1. jobs # <<>> /\ jobs' = Tail(jobs) /\ UNCHANGED <<pc, kind, step>>
  BY DEF Work
<1>2. /\ Head(jobs) \in Jobs /\ Head(jobs).req \in Requests
      /\ Head(jobs).at = step[Head(jobs).req]
      /\ pc[Head(jobs).req] \in {"waiting", "dropped"}
      /\ InFlight(Head(jobs).req)
      /\ \A q \in Requests : InFlight(q)' => InFlight(q) /\ q # Head(jobs).req
  BY <1>1, AfterTake DEF Faithful, Queue, InFlight
<1>3. PICK r \in Requests, k \in 0..(MaxTokens - 1) : r = Head(jobs).req /\ k = Head(jobs).at
  BY <1>2 DEF Jobs
<1>4. PICK es \in Admitted(Head(jobs)), a \in Samples(r) :
        /\ engine' = Recorded(Driven(es), r, k + 1)
        /\ disturbed' = disturbed \cup Others(es, r) \cup (IF es[r].on THEN {} ELSE {r})
        /\ wrong' = IF Driven(es)[r].out # k THEN wrong \cup {r} ELSE wrong
        /\ Respond(r, a)
  BY <1>3 DEF Work
<1>5. /\ es \in [Requests -> EngineStates]
      /\ \A q \in Requests \ {r} : es[q] = engine[q]
      /\ es[r] = engine[r] \/ (es[r] = Enqueued /\ k = 0)
      /\ Driven(es) \in [Requests -> EngineStates]
  <2>1. es \in [Requests -> EngineStates] /\ \A q \in Requests \ {r} : es[q] = engine[q]
    BY <1>2, <1>3, DrivenOn DEF Faithful
  <2>2. es[r] = engine[r] \/ (es[r] = Enqueued /\ k = 0)
    BY <1>2, <1>3 DEF Admitted, Faithful, Typed, TypeOK
  <2> QED
    BY <2>1, <2>2, EngineType
<1>6. k = step[r] /\ pc[r] \in {"waiting", "dropped"} /\ ~ InFlight(r)'
  BY <1>2, <1>3
<1>7. ASSUME NEW q \in Requests \ disturbed', q # r PROVE InStep(q)'
  <2>1. q \notin disturbed /\ ~ es[q].on
    BY <1>4, <1>7 DEF Others
  <2>2. engine'[q] = engine[q]
    BY <1>4, <1>5, <1>7, <2>1 DEF Recorded, Driven
  <2>3. answer'[q] = answer[q]
    BY <1>4, <1>7 DEF Respond, Faithful, Typed, TypeOK
  <2>4. InStep(q)
    BY <2>1 DEF Faithful, Undisturbed, InStep
  <2> QED
    BY <1>1, <1>2, <2>2, <2>3, <2>4 DEF InStep
<1>8. ASSUME r \notin disturbed' PROVE InStep(r)' /\ Driven(es)[r].out = k
  <2>1. r \notin disturbed /\ es[r].on
    BY <1>4, <1>8
  <2>2. Sound(engine[r], k)
    BY <1>2, <1>3, <1>6, <2>1 DEF Faithful, Undisturbed
  <2>3. es[r] \in EngineStates /\ ((es[r] = Enqueued /\ k = 0) \/ Sound(es[r], k))
    BY <1>5, <2>2
  <2>4. Driven(es)[r] = IF es[r].left > 0 THEN Prefilled(es[r]) ELSE Decoded(es[r])
    BY <2>1 DEF Driven
  <2>5. Driven(es)[r].out = k /\ Sound([Driven(es)[r] EXCEPT !.last = k + 1], k + 1)
    BY <2>1, <2>3, <2>4, TickInContext
  <2>6. engine'[r] = [Driven(es)[r] EXCEPT !.last = k + 1]
    BY <1>4, <1>5 DEF Recorded
  <2>7. Sound(engine'[r], step'[r] + 1)
    BY <1>1, <1>6, <2>5, <2>6
  <2> QED
    BY <1>1, <1>6, <2>5, <2>7 DEF InStep
<1>9. \A q \in Requests \ disturbed' : InStep(q)'
  BY <1>7, <1>8
<1>10. OnlyDisturbedAreWrong'
  BY <1>4, <1>8 DEF OnlyDisturbedAreWrong, Faithful
<1> QED
  BY <1>9, <1>10 DEF Undisturbed, InStep

\* A tick that fails disturbs the request it was for and all it had driven.
LEMMA InStepFails ==
  ASSUME Faithful, WorkFails
  PROVE  Undisturbed' /\ OnlyDisturbedAreWrong'
<1>1. jobs # <<>> /\ jobs' = Tail(jobs) /\ UNCHANGED <<pc, kind, step, wrong>>
  BY DEF WorkFails
<1>2. /\ Head(jobs) \in Jobs /\ Head(jobs).req \in Requests
      /\ \A q \in Requests : InFlight(q)' => InFlight(q)
  BY <1>1, AfterTake DEF Faithful
<1>3. PICK r \in Requests : r = Head(jobs).req
  BY <1>2
<1>4. PICK es \in Admitted(Head(jobs)) :
        \E P \in SUBSET Prefilling(es) :
        \E D \in IF P = Prefilling(es) THEN SUBSET Decoding(es) ELSE {{}} :
          /\ engine' = HalfDriven(es, P, D)
          /\ disturbed' = disturbed \cup Others(es, r) \cup {r}
  BY <1>3 DEF WorkFails
<1>5. PICK P \in SUBSET Prefilling(es), D \in SUBSET Decoding(es) :
          /\ engine' = HalfDriven(es, P, D)
          /\ disturbed' = disturbed \cup Others(es, r) \cup {r}
  BY <1>4
<1>6. \A q \in Requests \ {r} : es[q] = engine[q]
  BY <1>2, <1>3, DrivenOn DEF Faithful
<1>7. PICK a : Respond(r, a)
  BY <1>3 DEF WorkFails
<1>8. ASSUME NEW q \in Requests \ disturbed' PROVE InStep(q)'
  <2>1. q \notin disturbed /\ ~ es[q].on /\ q # r
    BY <1>5 DEF Others
  <2>2. engine'[q] = engine[q]
    BY <1>5, <1>6, <2>1 DEF HalfDriven, Prefilling, Decoding
  <2>3. answer'[q] = answer[q]
    BY <1>7, <2>1 DEF Respond, Faithful, Typed, TypeOK
  <2>4. InStep(q)
    BY <2>1 DEF Faithful, Undisturbed, InStep
  <2> QED
    BY <1>1, <1>2, <2>2, <2>3, <2>4 DEF InStep
<1>9. OnlyDisturbedAreWrong'
  BY <1>1, <1>5 DEF OnlyDisturbedAreWrong, Faithful
<1> QED
  BY <1>8, <1>9 DEF Undisturbed, InStep

\* Every step keeps the invariant.
LEMMA FaithfulStep ==
  ASSUME Chunks = 1
  PROVE  Faithful /\ [Next]_vars => Faithful'
<1> SUFFICES ASSUME Faithful, [Next]_vars PROVE Undisturbed' /\ OnlyDisturbedAreWrong'
    BY TypeStep, QueueStep DEF Faithful
<1> USE DEF Faithful
<1>1. ASSUME NEW r \in Requests, Handle(r) \/ Disconnect(r) \/ Timeout(r) \/ Cancel(r)
      PROVE  Alone(r) /\ (~ Submit(r) => jobs' = jobs)
  BY <1>1, OwnRequest
<1>2. Gone.on = FALSE
  BY DEF Gone
<1>3. ASSUME NEW r \in Requests PROVE r \notin disturbed => InStep(r)
  BY DEF Undisturbed, InStep
<1>4. ASSUME NEW r \in Requests, jobs' = jobs PROVE \A q \in Requests : InFlight(q)' <=> InFlight(q)
  BY <1>4 DEF InFlight
<1>5. ASSUME NEW r \in Requests,
             Arrive(r) \/ Count(r) \/ Uncount(r) \/ RejectInvalid(r) \/ Begin(r) \/ ToolDelta(r)
      PROVE  Undisturbed' /\ OnlyDisturbedAreWrong'
  <2>1. /\ UNCHANGED <<step, answer, engine, jobs, disturbed>>
        /\ pc[r] \in {"idle", "checked", "full", "admitted", "ready"}
        /\ pc'[r] \in {"checked", "full", "admitted", "ready", "refused"}
    BY <1>5 DEF Arrive, Count, Uncount, RejectInvalid, Begin, ToolDelta, handler, server, Typed,
       TypeOK
  <2>2. r \notin disturbed' => InStep(r)'
    BY <1>3, <1>4, <2>1 DEF InStep
  <2> QED
    BY <1>1, <1>4, <1>5, <2>1, <2>2, InStepKept DEF Handle
<1>6. ASSUME NEW r \in Requests, Submit(r) PROVE Undisturbed' /\ OnlyDisturbedAreWrong'
  <2>1. /\ UNCHANGED <<step, answer, engine, disturbed>> /\ pc[r] = "ready" /\ step[r] < MaxTokens
        /\ answer[r] = NoAnswer /\ pc'[r] = "waiting"
    BY <1>6 DEF Submit, Queue, Typed, TypeOK
  <2>2. r \notin disturbed' => InStep(r)'
    BY <1>3, <2>1 DEF InStep
  <2> QED
    BY <1>1, <1>6, <2>2, QueueSubmit, InStepKept DEF Handle
<1>7. ASSUME NEW r \in Requests, Token(r) \/ StreamTools(r) \/ StreamLast(r)
      PROVE  Undisturbed' /\ OnlyDisturbedAreWrong'
  <2>1. /\ UNCHANGED <<engine, jobs, disturbed>> /\ pc[r] = "waiting" /\ answer[r] # NoAnswer
        /\ pc'[r] = "ready" /\ step'[r] \in {step[r] + 1, MaxTokens}
    <3>1. pc[r] = "waiting" /\ answer[r] # NoAnswer
      BY <1>7 DEF Token, StreamLast, StreamTools, Receive, NoAnswer
    <3>2. PICK n \in {step[r] + 1, MaxTokens} : GoOn(r, n)
      BY <1>7 DEF Token, StreamLast, StreamTools
    <3> QED
      BY <3>1, <3>2 DEF GoOn, Typed, TypeOK
  <2>2. ~ InFlight(r)
    BY <2>1, NoneQueued
  <2>3. r \notin disturbed' => InStep(r)'
    BY <1>3, <1>4, <2>1, <2>2, ServerAssumption DEF InStep
  <2> QED
    BY <1>1, <1>4, <1>7, <2>1, <2>3, InStepKept DEF Handle
<1>8. ASSUME NEW r \in Requests, Close(r) \/ Stop(r) PROVE Undisturbed' /\ OnlyDisturbedAreWrong'
  <2>1. pc'[r] = "ended" /\ jobs' = jobs
    BY <1>8 DEF Close, Stop, End, Typed, TypeOK
  <2>2. ~ InFlight(r)
    BY <1>8, NoneQueued DEF Close, Stop, Receive, NoAnswer
  <2>3. InStep(r)'
    BY <1>4, <2>1, <2>2 DEF InStep
  <2> QED
    BY <1>1, <1>4, <1>8, <2>1, <2>3, InStepKept DEF Handle
<1>9. ASSUME NEW r \in Requests, Disconnect(r) \/ Timeout(r)
      PROVE  Undisturbed' /\ OnlyDisturbedAreWrong'
  <2>1. /\ pc'[r] = "dropped" /\ jobs' = jobs /\ step' = step /\ disturbed' = disturbed
        /\ engine'[r] = engine[r] \/ engine'[r] = Gone
    BY <1>9 DEF Disconnect, Timeout, CleanUp, Finish, FinishRequest, Typed, TypeOK
  <2>2. r \notin disturbed' => InStep(r)'
    BY <1>2, <1>3, <1>4, <2>1 DEF InStep, Sound
  <2> QED
    BY <1>1, <1>4, <1>9, <2>1, <2>2, InStepKept
<1>10. ASSUME NEW r \in Requests, Cancel(r) PROVE Undisturbed' /\ OnlyDisturbedAreWrong'
  <2>1. r \in disturbed' /\ jobs' = jobs
    BY <1>10 DEF Cancel
  <2> QED
    BY <1>1, <1>4, <1>10, <2>1, InStepKept
<1>11. CASE Work \/ WorkFails
  BY <1>11, InStepWork, InStepFails
<1>12. CASE ShutFlag \/ CancelAll \/ Drain \/ UNCHANGED vars
  BY <1>12 DEF ShutFlag, CancelAll, Drain, vars, handler, Undisturbed, InFlight,
     OnlyDisturbedAreWrong
<1> QED
  BY <1>5, <1>6, <1>7, <1>8, <1>9, <1>10, <1>11, <1>12 DEF Next, Handle

\* For every number of requests and tokens and all faults, when a prompt is one
\* pass: a token is sampled from the logits of the prompt and exactly the
\* tokens before it, except for a request the engine was ticked for on behalf
\* of another one, refused, failed or was told to forget.  (With more passes the
\* first token itself is sampled after the first chunk.)
THEOREM TokensInContext ==
  ASSUME Chunks = 1
  PROVE  Spec => []OnlyDisturbedAreWrong
<1>1. Init => Faithful
  <2>1. Init => Undisturbed /\ OnlyDisturbedAreWrong
    BY DEF Init, Undisturbed, OnlyDisturbedAreWrong, InFlight, Sound, Gone
  <2> QED
    BY <2>1, StartTyped DEF Faithful
<1>2. Faithful => OnlyDisturbedAreWrong
  BY DEF Faithful
<1>3. Faithful /\ [Next]_vars => Faithful'
  BY FaithfulStep
<1> QED
  BY <1>1, <1>2, <1>3, PTL DEF Spec
=============================================================================
